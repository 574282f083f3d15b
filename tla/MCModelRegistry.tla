-------------------------- MODULE MCModelRegistry --------------------------
(* Instances of ModelRegistry: servers, their files and what clients ask.  *)
EXTENDS ModelRegistry

CONSTANTS c1, c2, c3, a, b, f, g

AllDense == [x \in Files |-> "dense"]
GemmaAndBridged == [x \in Files |-> IF x = f THEN "gemma4" ELSE "runnable"]

OwnFile == [i \in Ids |-> IF i = a THEN f ELSE g]
NoneLoaded == [i \in Ids |-> NoFile]
OneLoaded == [i \in Ids |-> IF i = a THEN f ELSE NoFile]

Load(i, x, act, replace) ==
    [op |-> "load", id |-> i, file |-> x, act |-> act, replace |-> replace]
OwnLoads(act, replace) == {Load(i, OwnFile[i], act, replace) : i \in Ids}
Unloads == [op : {"unload"}, id : Ids \cup {NoId}]
Chats == [op : {"chat"}, id : Ids \cup {NoId}]
Shown == [op |-> "show", bounded |-> FALSE]
Polled == [op |-> "show", bounded |-> TRUE]

\* CUDA with two dense models: loads, unloads, generations and embeddings.
Using ==
    [clients |-> {c1, c2}, kind |-> AllDense, disk |-> OwnFile, startup |-> OneLoaded,
     cuda |-> TRUE, room |-> 2, hangups |-> TRUE,
     requests |-> OwnLoads(TRUE, FALSE) \cup Unloads \cup Chats
                    \cup [op : {"embed"}, id : {a}]]

\* Models served by runtimes of their own, loaded again and again.
Serving ==
    [Using EXCEPT !.kind = GemmaAndBridged, !.startup = NoneLoaded, !.cuda = FALSE,
                  !.requests = OwnLoads(TRUE, FALSE) \cup OwnLoads(FALSE, TRUE)
                                 \cup [op : {"unload"}, id : {a}]]

\* Workspace turns against loads, replacements under one id and unloads.
Turning ==
    [Using EXCEPT !.requests = {Load(a, f, TRUE, FALSE), Load(a, g, TRUE, FALSE),
                                Load(b, g, FALSE, TRUE), [op |-> "turn"]}
                                 \cup [op : {"unload"}, id : {a, NoId}]
                                 \cup [op : {"chat"}, id : {b}]]

\* Three handlers, one of which a health poll may be.
Polling ==
    [Using EXCEPT !.clients = {c1, c2, c3}, !.cuda = FALSE, !.room = 1, !.hangups = FALSE,
                  !.requests = {Load(b, g, TRUE, FALSE), Polled, [op |-> "chat", id |-> a],
                                [op |-> "unload", id |-> NoId]}]

AllSites == {Using, Serving, Turning, Polling}

\* A load, a generation and a handler that shows the active model.
Crossing ==
    {[Polling EXCEPT !.room = 2,
                     !.requests = {Load(b, g, TRUE, FALSE), Shown, [op |-> "chat", id |-> a]}]}
=============================================================================
