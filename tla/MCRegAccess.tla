---------------------------- MODULE MCRegAccess ----------------------------
(***************************************************************************)
(* Small instances of RegAccess.  The clients are the application thread   *)
(* (it polls registers for ever), the EP0 command thread and the UART      *)
(* receive callback.                                                       *)
(***************************************************************************)
EXTENDS RegAccess, TLC

CONSTANTS app, ep0, uart,  \* the clients
          a1, a2,          \* two register addresses
          v1, v2           \* two register values

MCAddrs == {a1, a2}
MCVals == {v1, v2}

ReadsOf(A)  == [kind : {"read"}, addr : A, val : {NoVal}]
WritesOf(A) == [kind : {"write"}, addr : A, val : MCVals]
Management  == [kind : {"mngt"}, addr : {NoAddr}, val : MCVals]

\* One thread alone, as during boot: every kind of access.
SoleThreads == {app}
SoleCallbacks == {}
SoleOps == (app :> Requests)

\* The application thread polls, the EP0 thread reads and writes on command,
\* the UART callback writes (setBand, PPID).
AllThreads == {app, ep0}
AllCallbacks == {uart}
AllOps == (app :> ReadsOf(MCAddrs)) @@ (ep0 :> ReadsOf({a1}) \cup WritesOf({a1}))
            @@ (uart :> WritesOf({a2}))

\* The safety properties say nothing of a state reached after a mixed frame:
\* the search stops there.
Unmixed == ~mixed

\* Two threads that read; the EP0 thread also sends management frames.
ReaderOps == (app :> ReadsOf({a1})) @@ (ep0 :> ReadsOf({a1}) \cup Management)

\* Values, and for one client that issues every request addresses too, are
\* interchangeable.
ValSymmetry == Permutations(MCVals)
Symmetry == Permutations(MCAddrs) \cup Permutations(MCVals)
=============================================================================
