------------------------------ MODULE Fdevent ------------------------------
(***************************************************************************)
(* The event loop of minadbd: fdevent.c with select().  The state F of the *)
(* loop is a record: F.want[d] are the events watched for descriptor d     *)
(* (FDE_EVENTMASK of its state), F.events[d] those that select() reported  *)
(* and no callback has seen, and F.pending are the descriptors that are    *)
(* FDE_PENDING, on list_pending.  The list is filled by select() in the    *)
(* order of descriptor numbers, which are reused, so that any of them may  *)
(* be its first.                                                           *)
(***************************************************************************)
FdInit(Fds) ==
    [want |-> [d \in Fds |-> {}], events |-> [d \in Fds |-> {}], pending |-> {}]

(* fdevent_set() of the descriptors D to ev[d]: a pending one loses the    *)
(* events that are now watched, and leaves the list when none is left.     *)
FdSet(F, D, ev) ==
    LET changed == {d \in D : F.want[d] # ev[d]}
        left(d) == F.events[d] \ ev[d] IN
    [want |-> [d \in DOMAIN F.want |-> IF d \in changed THEN ev[d] ELSE F.want[d]],
     events |-> [d \in DOMAIN F.events |->
                   IF d \in changed \cap F.pending THEN left(d) ELSE F.events[d]],
     pending |-> {d \in F.pending : d \in changed => left(d) # {}}]

FdAdd(F, D, ev) == FdSet(F, D, [d \in D |-> F.want[d] \cup ev])
FdDel(F, D, ev) == FdSet(F, D, [d \in D |-> F.want[d] \ ev])

(* fdevent_install() of a new descriptor, and fdevent_set() of its events. *)
FdInstall(F, d, ev) ==
    [F EXCEPT !.want[d] = ev, !.events[d] = {}]

(* fdevent_plist_remove() of the descriptors D.                            *)
FdStaysListed(F, D) == F.pending
FdUnlisted(F, D) == F.pending \ D

(* fdevent_remove(): the descriptors D are closed and leave the list.      *)
FdRemove(F, D) ==
    [want |-> [d \in DOMAIN F.want |-> IF d \in D THEN {} ELSE F.want[d]],
     events |-> [d \in DOMAIN F.events |-> IF d \in D THEN {} ELSE F.events[d]],
     pending |-> FdUnlisted(F, D)]

(* fdevent_process(): select() reports what is ready and watched.          *)
FdSelected(F, ready) ==
    [F EXCEPT !.events = [d \in DOMAIN F.want |-> F.want[d] \cap ready[d]],
              !.pending = {d \in DOMAIN F.want : F.want[d] \cap ready[d] # {}}]

(* fdevent_plist_dequeue() and the first lines of fdevent_call_fdfunc().   *)
FdDequeue(F, d) ==
    [F EXCEPT !.events[d] = {}, !.pending = @ \ {d}]

=============================================================================
