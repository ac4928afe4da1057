----------------------------- MODULE MCTracedRuns -----------------------------
(* Small instances of the trace: a command of two processes, one of two        *)
(* threads in the same call, and one traced with the process scope whose child *)
(* leaves the process group.                                                   *)
EXTENDS TracedRuns, TLC

CONSTANTS root, peer, child    \* the first thread, a second one of its process, a child

MCProcess == (root :> root) @@ (peer :> root) @@ (child :> child)

C(sys, target, err) == [sys |-> sys, target |-> target, err |-> err]

Program(script, stubborn, left, scopes, grumbles) ==
    [root |-> root, process |-> MCProcess, script |-> script, stubborn |-> stubborn,
     left |-> left, scopes |-> scopes, grumbles |-> grumbles]

MCPrograms ==
    {Program((root :> <<C("openat", "path", "none"), C("connect", "port", "ECONNREFUSED")>>)
             @@ (peer :> <<>>) @@ (child :> <<C("openat", "resolver", "ENOENT")>>),
             {child}, {}, {"file", "network"}, FALSE),
     Program((root :> <<C("openat", "path", "ENOENT")>>) @@ (peer :> <<C("openat", "other", "EACCES")>>)
             @@ (child :> <<>>), {root}, {}, {"file"}, TRUE),
     Program((root :> <<C("execve", "path", "none")>>) @@ (peer :> <<>>)
             @@ (child :> <<C("bind", "port", "EADDRINUSE")>>), {}, {child}, {"process", "network"}, FALSE)}
===============================================================================
