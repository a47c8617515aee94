-------------------------------- MODULE MCIpc --------------------------------
\* Three processes and the hardware, whose identifiers fill two chunks, so
\* that b can be notified twice in one chunk.  Every call has its callers:
\* a blocks, notifies and may exit, b also sends asynchronously, and any two
\* or three of them can be about to close a circle.
EXTENDS Ipc
CONSTANTS a, b, c, hw

Ids == hw :> 0 @@ a :> 1 @@ b :> 2 @@ c :> 3
Pairs == {<<s, d>> \in Proc \X Proc : s # d} \cup {<<hw, b>>}
Roles == a :> {"RECEIVE", "SEND", "NOTIFY"}
      @@ b :> {"RECEIVE", "SENDREC", "SENDA"}
      @@ c :> {"RECEIVE", "SENDREC", "SEND"}
=============================================================================
