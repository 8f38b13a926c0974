--------------------------- MODULE MCBrowserInstall ---------------------------
(* Small instances of BrowserInstall for TLC. *)
EXTENDS BrowserInstall, TLC

CONSTANTS a, b

(* The bound account alone, another one, both with the other one first.    *)
SwitchingAccounts == {<<>>, <<a>>, <<b>>, <<b, a>>}
OneAccount == {<<>>, <<a>>, <<b>>}
=============================================================================
