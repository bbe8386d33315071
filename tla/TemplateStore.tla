--------------------------- MODULE TemplateStore ---------------------------
(***************************************************************************)
(* What the node promises about the templates in its sensor: the library    *)
(* changes only to serve one request at a time (an enrollment or a push     *)
(* puts one template in one slot, a delete empties one slot, a flush all    *)
(* of them), and a request is served completely or not at all.  How many    *)
(* sensor commands that takes, and what the other thread does to the        *)
(* sensor's buffers meanwhile, is hidden.  FingerNode implements it.        *)
(***************************************************************************)
CONSTANTS Slots, Templates, None

VARIABLES store,     \* the template in each slot, or None
          request    \* the request being served, or None

Requests == [op : {"put"}, slot : Slots, tmpl : Templates]
              \cup [op : {"delete"}, slot : Slots] \cup [op : {"flush"}]

After(r) ==
    [s \in Slots |->
        IF r.op = "flush" THEN None
        ELSE IF r.slot # s THEN store[s]
        ELSE IF r.op = "put" THEN r.tmpl ELSE None]

Init == store = [s \in Slots |-> None] /\ request = None

Accept == request = None /\ request' \in Requests /\ UNCHANGED store

Serve == request \in Requests /\ store' = After(request) /\ request' = None

Drop == UNCHANGED store /\ request' = None

Next == Accept \/ Serve \/ Drop

Spec == Init /\ [][Next]_<<store, request>>
============================================================================
