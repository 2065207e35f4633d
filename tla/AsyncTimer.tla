----------------------------- MODULE AsyncTimer -----------------------------
(***************************************************************************)
(* async_timer.cpp: a restartable timer.  Every wait() allocates an impl   *)
(* that owns a deadline_timer; the previous one is released, but its       *)
(* handler may already be queued, and runs later.  The names begin with    *)
(* Timer so that TcpClient_proofs can have this module beside TcpClient.   *)
(***************************************************************************)
EXTENDS Naturals, AutoCancel

CONSTANTS Impls,    \* impl objects that may be alive at the same time
          NoImpl

ASSUME ImplsAssumption == NoImpl \notin Impls

VARIABLES impl,     \* [Impls -> Resource]
          pimpl_,   \* the impl the timer owns, or NoImpl
          parity    \* flipped by every call of on_timer_

timerVars == <<impl, pimpl_, parity>>

\* The types, and: an impl is owned exactly while pimpl_ points to it.
TimerTypeOK == /\ impl \in [Impls -> Resource]
               /\ pimpl_ \in Impls \union {NoImpl}
               /\ parity \in 0..1
               /\ \A i \in Impls : /\ impl[i].owned <=> i = pimpl_
                                   /\ impl[i].cancelled <=> i # pimpl_

TimerInit == /\ impl = [i \in Impls |-> NoResource]
             /\ pimpl_ = NoImpl
             /\ parity = 0

-----------------------------------------------------------------------------
\* A faulty reset(): the previous impl is forgotten and never cancelled.
LeaksImpl == impl

\* The impl the timer owned, given up.
ReleaseImpl == [i \in Impls |-> IF i = pimpl_ THEN Release(impl[i]) ELSE impl[i]]

\* A faulty wait(): reset() that cancels after it has assigned.
WaitCancelsNew(i) == /\ Destroyed(impl[i])
                     /\ impl' = [ReleaseImpl EXCEPT ![i] = Cancel(NewResource)]
                     /\ pimpl_' = i
                     /\ UNCHANGED parity

\* impl::create(): a deadline_timer that waits.
CreateImpl == NewResource

\* wait(): create the new impl, then reset() pimpl_ to it.
Wait(i) == /\ Destroyed(impl[i])
           /\ impl' = [ReleaseImpl EXCEPT ![i] = CreateImpl]
           /\ pimpl_' = i
           /\ UNCHANGED parity

\* async_timer::cancel(), and the destructor of the timer.
CancelTimer == /\ pimpl_ # NoImpl
               /\ impl' = ReleaseImpl
               /\ pimpl_' = NoImpl
               /\ UNCHANGED parity

\* The deadline passes: the kernel queues the handler.
Expire(i) == /\ impl[i].op = "pending"
             /\ impl' = [impl EXCEPT ![i].op = "ok"]
             /\ UNCHANGED <<pimpl_, parity>>

\* A faulty test: the error code alone, as if the flag did not exist.
SupersededByCode(i) == impl[i].op = "aborted"

\* on_timer(): "if (cancelled() || code) return;"
Superseded(i) == Cancelled(impl[i]) \/ impl[i].op = "aborted"

OnTimerIgnored(i) == /\ impl[i].op \in Queued
                     /\ Superseded(i)
                     /\ impl' = [impl EXCEPT ![i].op = "none"]
                     /\ UNCHANGED <<pimpl_, parity>>

OnTimerFires(i) == /\ impl[i].op \in Queued
                   /\ ~Superseded(i)
                   /\ impl' = [impl EXCEPT ![i].op = "none"]
                   /\ parity' = 1 - parity
                   /\ UNCHANGED pimpl_

TimerNext == \/ CancelTimer
             \/ \E i \in Impls : \/ Wait(i)
                                 \/ Expire(i)
                                 \/ OnTimerIgnored(i)
                                 \/ OnTimerFires(i)

\* Deadlines pass and the io_service runs every queued handler; nothing
\* obliges the user to arm or to cancel.
TimerFairness == \A i \in Impls : /\ WF_timerVars(Expire(i))
                                  /\ WF_timerVars(OnTimerIgnored(i))
                                  /\ WF_timerVars(OnTimerFires(i))

TimerSpec == TimerInit /\ [][TimerNext]_timerVars /\ TimerFairness
-----------------------------------------------------------------------------
Armed == pimpl_ # NoImpl /\ impl[pimpl_].op # "none"

\* An async_timer is a one-shot timer: a wait that was replaced or cancelled
\* never runs the callback, even when its handler was queued before, and one
\* that was not runs it at most once.
Timer == INSTANCE OneShot WITH armed <- Armed
RefinesOneShot == Timer!Spec

\* A wait that nobody replaces or cancels does run the callback: wait()
\* cancels the impl it replaces and never the one it installs.
ArmedWaitFires ==
    \A i \in Impls, p \in 0..1 :
        (pimpl_ = i /\ impl[i].op # "none" /\ parity = p)
            ~> (pimpl_ # i \/ parity # p)
=============================================================================
