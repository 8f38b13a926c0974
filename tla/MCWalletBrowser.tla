--------------------------- MODULE MCWalletBrowser ---------------------------
(* Small instances of WalletBrowser for TLC. *)
EXTENDS WalletBrowser, TLC

CONSTANTS a, b

OneAccount == {<<>>, <<a>>}
=============================================================================
