------------------------------ MODULE MCInstall -----------------------------
(* Install on a small instance: two governance circuits, which is where one *)
(* key setup can make a key and skip another (the entity suite, the same    *)
(* code under other names, has none here), the server and one operator.     *)
EXTENDS Install, TLC

CONSTANTS server, tools, redaction, pipeline

TwoProcs == {server, tools}
GovernanceCircuits == <<redaction, pipeline>>
EntityCircuits == <<>>
AnyInstance == {Absent, Vendor}
OldImage == {Vendor}
Tools == {"bootstrap", "first_run", "force_setup", "ceremony"}
=============================================================================
