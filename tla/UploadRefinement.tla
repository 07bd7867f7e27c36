-------------------------- MODULE UploadRefinement --------------------------
(***************************************************************************)
(* UploadQueue implements SlotService.  A slot is held by an offer, by an  *)
(* accepted offer that waits for an address, and by a stream; to the       *)
(* service these are one holder, so that accepting an offer, learning an   *)
(* address and starting the stream are no steps at all.                    *)
(***************************************************************************)
EXTENDS UploadQueue

\* A table entry as the service sees it; its token is the ticket.
HolderOf(table, t) ==
    [client |-> table[t].user, good |-> table[t].file, ticket |-> t]

Holders ==
    {HolderOf(uploads, t) : t \in DOMAIN uploads}
        \cup {HolderOf(active, t) : t \in InProgress}

WaiterOf(j) ==
    [client |-> j.user, good |-> j.file, number |-> j.seq, donor |-> j.privileged]

Waiters == {WaiterOf(j) : j \in queue}

Service == INSTANCE SlotService WITH
    Clients <- Users, Goods <- Files, waiting <- Waiters, drawn <- seq,
    holding <- Holders, issued <- nextToken, limit <- slots

(* The queue keeps the service's promise: every step grants all free slots to *)
(* those whose turn it is, or takes in, regrades or releases somebody, or is  *)
(* invisible.  No holder changes identity on its way from the offer in        *)
(* upload_queue.rs to the stream of uploads.rs, and none holds a slot again   *)
(* after giving it up.                                                        *)
ImplementsSlotService == Service!Spec
=============================================================================
