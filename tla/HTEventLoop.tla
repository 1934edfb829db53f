----------------------------- MODULE HTEventLoop -----------------------------
(***************************************************************************)
(* The event loop (HTEvtLst.c) with its timers: registrations per socket   *)
(* and direction, the list of events that are ready, ordered by priority   *)
(* and by how often they were passed over, and one turn of the loop after  *)
(* the other: timers, select, ordering, execution of some events.          *)
(*                                                                         *)
(* A callback is whatever the library or the application does in it: it    *)
(* registers and unregisters events, sets and deletes timers, reads what   *)
(* is there, stops the loop, and returns HT_OK or not.                     *)
(***************************************************************************)
EXTENDS HTTimer

CONSTANTS Socks,        \* sockets, small numbers
          Events,       \* HTEvent objects
          NoEvent,
          SlotOf,       \* the socket and direction an event is used for
          Priority,     \* event->priority
          Timeout,      \* event->millis, -1 for none
          AppTimers,    \* timers of the Host and of the writers: not repetitive
          AppMillis,    \* the delay they are set to
          Limit,        \* EVENTS_TO_EXECUTE
          MaxCalls,     \* bound: what one callback may do
          Env           \* what callbacks and select() may do in this instance

Slots == Socks \X {"WRITE", "READ"}

EnvKinds == {"interrupt", "error", "stop", "unregister", "connect", "timers", "slow"}

ASSUME EventAssumption ==
    /\ Socks \subseteq Nat
    /\ NoEvent \notin Events
    /\ SlotOf \in [Events -> Slots]
    /\ Priority \in [Events -> Nat]
    /\ Timeout \in [Events -> Millis \cup {-1}]
    /\ Slots \cap AppTimers = {}
    /\ AppMillis \in Millis
    /\ Limit \in Nat \ {0} /\ MaxCalls \in Nat
    /\ Env \subseteq EnvKinds

VARIABLES reg,          \* SockEvents: the event registered per slot
          timers,       \* Timers of HTTimer.c
          order,        \* EventOrderList, the next event to call first
          todo,         \* what select() reported and is not ordered yet
          pc,           \* where the loop is
          wait,         \* the timeout of select(), Forever for none
          done,         \* events executed in this turn
          endLoop,      \* HTEndLoop
          cb,           \* the callback that runs
          ready,        \* slots the operating system finds ready
          behind        \* how long ago HTTimer_next took the time (`now')

vars == <<reg, timers, order, todo, pc, wait, done, endLoop, cb, ready, behind>>

Forever == -1

\* A callback: for an event that is ready, for an event whose timer expired, or
\* for a timer of the application.
NoCall == [kind |-> "none"]

Init ==
    /\ reg = [s \in Slots |-> NoEvent]
    /\ timers = <<>>
    /\ order = <<>>
    /\ todo = {}
    /\ pc = "out"
    /\ wait = Forever
    /\ done = 0
    /\ endLoop = FALSE
    /\ cb = NoCall
    /\ ready = {}
    /\ behind = 0

InLoop(place) == pc = place /\ cb = NoCall

(***************************************************************************)
(* HTEventList_register, HTEventList_unregister.                           *)
(***************************************************************************)
Register(e) ==
    /\ reg' = [reg EXCEPT ![SlotOf[e]] = e]
    /\ timers' = IF Timeout[e] > 0 THEN SetTimer(timers, SlotOf[e], Timeout[e])
                                   ELSE timers
    /\ UNCHANGED order

\* Mutant: the list of ready events is left alone.
CleanNothing(s) == order

\* EventOrder_clean: events that are ready and wait to be called are forgotten.
Clean(s) == Sublist(order, {i \in DOMAIN order : order[i].slot # s})

\* Mutant: the timer of the event goes on.
UnregisterEventOnly(s) ==
    /\ reg' = [reg EXCEPT ![s] = NoEvent]
    /\ order' = Clean(s)
    /\ UNCHANGED timers

Unregister(s) ==
    /\ reg' = [reg EXCEPT ![s] = NoEvent]
    /\ timers' = DeleteTimer(timers, s)
    /\ order' = Clean(s)

\* The type CONNECT has the slot of WRITE, but not its name in EventOrderList.
UnregisterConnect(s) ==
    /\ reg' = [reg EXCEPT ![s] = NoEvent]
    /\ timers' = DeleteTimer(timers, s)
    /\ UNCHANGED order

(***************************************************************************)
(* HTEventList_loop.                                                       *)
(***************************************************************************)
\* EventOrder_clearAll drops what an earlier loop left.
StartLoop ==
    /\ InLoop("out")
    /\ pc' = "turn"
    /\ order' = <<>>
    /\ UNCHANGED <<reg, timers, todo, wait, done, endLoop, cb, ready, behind>>

LeaveLoop ==
    /\ pc' = "out"
    /\ endLoop' = FALSE
    /\ todo' = {}
    /\ done' = 0
    /\ wait' = Forever

\* while (!HTEndLoop): HTTimer_next takes the time and looks at the timers.
NextTurn ==
    /\ InLoop("turn")
    /\ ~endLoop
    /\ pc' = "timers"
    /\ behind' = 0
    /\ UNCHANGED <<reg, timers, order, todo, wait, done, endLoop, cb, ready>>

\* The loop was stopped by an event, or by a timer: "It could be that one of
\* the timer handlers ended the loop".
Stopped ==
    /\ InLoop("turn") \/ (InLoop("timers") /\ Expired(timers, behind) = {})
    /\ endLoop
    /\ LeaveLoop
    /\ UNCHANGED <<reg, timers, order, cb, ready, behind>>

\* Timer_dispatch: a repetitive timer starts again, another one leaves the list,
\* then its callback is called.
DispatchTimer ==
    /\ InLoop("timers")
    /\ Expired(timers, behind) # {}
    /\ LET i == Min(Expired(timers, behind))
           t == timers[i]
       IN  IF t.id \in Slots
           THEN /\ timers' = Restart(timers, i, t.millis)
                /\ cb' = [kind |-> "timeout", slot |-> t.id, event |-> reg[t.id],
                          calls |-> 0]
           ELSE /\ timers' = RemoveAt(timers, i)
                /\ cb' = [kind |-> "timer", timer |-> t.id, calls |-> 0]
    /\ UNCHANGED <<reg, order, todo, pc, wait, done, endLoop, ready, behind>>

\* What HTTimer_next returns: `expires - now' of the first timer, with the time it
\* took before it called anybody, and 0 for no timer.
Soonest == IF timers = <<>> THEN 0 ELSE timers[1].left + behind

\* HTTimer_next is through: that is how long select() waits, and for 0 it waits
\* without a timeout.
TimersDone ==
    /\ InLoop("timers")
    /\ Expired(timers, behind) = {}
    /\ ~endLoop
    /\ pc' = "select"
    /\ wait' = IF Soonest = 0 THEN Forever ELSE Soonest
    /\ UNCHANGED <<reg, timers, order, todo, done, endLoop, cb, ready, behind>>

Watched == {s \in Slots : reg[s] # NoEvent}

SelectReady ==
    /\ InLoop("select")
    /\ ready \cap Watched # {}
    /\ pc' = "add"
    /\ todo' = ready \cap Watched
    /\ UNCHANGED <<reg, timers, order, wait, done, endLoop, cb, ready, behind>>

\* Time goes by in select(), until its timeout.
SelectWaits ==
    /\ InLoop("select")
    /\ ready \cap Watched = {}
    /\ wait > 0
    /\ wait' = wait - 1
    /\ timers' = Elapse(timers)
    /\ UNCHANGED <<reg, order, todo, pc, done, endLoop, cb, ready, behind>>

SelectTimeout ==
    /\ InLoop("select")
    /\ wait = 0
    /\ pc' = "turn"
    /\ UNCHANGED <<reg, timers, order, todo, wait, done, endLoop, cb, ready, behind>>

\* EINTR and EBADF: try again.
SelectInterrupted ==
    /\ "interrupt" \in Env
    /\ InLoop("select")
    /\ pc' = "turn"
    /\ UNCHANGED <<reg, timers, order, todo, wait, done, endLoop, cb, ready, behind>>

\* Sockets in ascending order, and WRITE before READ.
Before(s, t) == s[1] < t[1] \/ (s[1] = t[1] /\ (s[2] = "WRITE" \/ s = t))

InOrder(s) == {i \in DOMAIN order : order[i].slot = s /\ order[i].event = reg[s]}

PassedOver(i) == [order EXCEPT ![i].skipped = @ + 1]

\* Mutant: first come, first called.
AllAhead(e) == DOMAIN order

\* The last entry that is more urgent than the new event; the new one comes
\* behind it, that is in front of the entries that are as urgent.
MoreUrgent(e) ==
    {i \in DOMAIN order : Priority[order[i].event] + order[i].skipped > Priority[e]}
AddBehind(e) ==
    InsertAt(order, IF MoreUrgent(e) = {} THEN 1 ELSE Max(MoreUrgent(e)) + 1,
             [slot |-> SlotOf[e], event |-> e, skipped |-> 0])

\* EventOrder_add for the next of the sockets that select() reported: their events
\* are still registered, as nothing was called since select().
AddReady ==
    /\ InLoop("add")
    /\ \E s \in todo :
         /\ \A t \in todo : Before(s, t)
         /\ todo' = todo \ {s}
         /\ timers' = Refresh(timers, s)
         /\ order' = IF InOrder(s) # {} THEN PassedOver(Min(InOrder(s)))
                                        ELSE AddBehind(reg[s])
    /\ UNCHANGED <<reg, pc, wait, done, endLoop, cb, ready, behind>>

AddDone ==
    /\ InLoop("add")
    /\ todo = {}
    /\ pc' = "execute"
    /\ done' = 0
    /\ UNCHANGED <<reg, timers, order, todo, wait, endLoop, cb, ready, behind>>

(***************************************************************************)
(* EventOrder_executeAndDelete.                                            *)
(***************************************************************************)
Execute ==
    /\ InLoop("execute")
    /\ order # <<>>
    /\ done < Limit
    /\ cb' = [kind |-> "event", slot |-> Head(order).slot,
              event |-> Head(order).event, calls |-> 0]
    /\ order' = Tail(order)
    /\ UNCHANGED <<reg, timers, todo, pc, wait, done, endLoop, ready, behind>>

\* The limit is looked at when the next entry has been removed: it is lost, with
\* the number of times it was passed over.
ExecuteEnough ==
    /\ InLoop("execute")
    /\ order # <<>>
    /\ done = Limit
    /\ order' = Tail(order)
    /\ pc' = "turn"
    /\ UNCHANGED <<reg, timers, todo, wait, done, endLoop, cb, ready, behind>>

ExecuteDone ==
    /\ InLoop("execute")
    /\ order = <<>>
    /\ pc' = "turn"
    /\ UNCHANGED <<reg, timers, order, todo, wait, done, endLoop, cb, ready, behind>>

(***************************************************************************)
(* Callbacks.                                                              *)
(***************************************************************************)
CanCall == cb # NoCall /\ cb.calls < MaxCalls
Called  == cb' = [cb EXCEPT !.calls = @ + 1]

\* Before the loop is started, and in callbacks.  A slot is given to another
\* event after it was unregistered.
MayRegister(e) == reg[SlotOf[e]] \in {e, NoEvent}

RegisterBefore ==
    /\ InLoop("out")
    /\ \E e \in Events : MayRegister(e) /\ Register(e)
    /\ UNCHANGED <<todo, pc, wait, done, endLoop, cb, ready, behind>>

CbRegister ==
    /\ CanCall
    /\ Called
    /\ \E e \in Events : MayRegister(e) /\ Register(e)
    /\ UNCHANGED <<todo, pc, wait, done, endLoop, ready, behind>>

CbUnregister ==
    /\ "unregister" \in Env
    /\ CanCall
    /\ Called
    /\ \E s \in Watched : Unregister(s)
    /\ UNCHANGED <<todo, pc, wait, done, endLoop, ready, behind>>

\* HTDoConnect unregisters CONNECT when it was called for the event itself.
CbUnregisterConnect ==
    /\ "connect" \in Env
    /\ CanCall
    /\ cb.kind = "event" /\ cb.slot \in Watched /\ cb.slot[2] = "WRITE"
    /\ Called
    /\ UnregisterConnect(cb.slot)
    /\ UNCHANGED <<todo, pc, wait, done, endLoop, ready, behind>>

\* HTTimer_new and HTTimer_delete for a timer of a Host or of a writer.
CbSetTimer ==
    /\ "timers" \in Env
    /\ CanCall
    /\ Called
    /\ \E t \in AppTimers :
          \/ ~HasTimer(timers, t) /\ timers' = SetTimer(timers, t, AppMillis)
          \/ HasTimer(timers, t) /\ timers' = DeleteTimer(timers, t)
    /\ UNCHANGED <<reg, order, todo, pc, wait, done, endLoop, ready, behind>>

\* The handler reads or writes until the socket would block.
CbConsume ==
    /\ CanCall
    /\ cb.kind = "event" /\ cb.slot \in ready
    /\ Called
    /\ ready' = ready \ {cb.slot}
    /\ UNCHANGED <<reg, timers, order, todo, pc, wait, done, endLoop, behind>>

\* HTEventList_stopLoop.
CbStop ==
    /\ "stop" \in Env
    /\ CanCall
    /\ Called
    /\ endLoop' = TRUE
    /\ UNCHANGED <<reg, timers, order, todo, pc, wait, done, ready, behind>>

\* What a callback does takes time, and the timers run meanwhile.
CbTakesTime ==
    /\ "slow" \in Env
    /\ CanCall
    /\ Called
    /\ timers' = Elapse(timers)
    /\ behind' = IF pc = "timers" THEN behind + 1 ELSE behind
    /\ UNCHANGED <<reg, order, todo, pc, wait, done, endLoop, ready>>

\* HT_OK: the next entry, or the timers again from the first.
CbReturns ==
    /\ cb # NoCall
    /\ cb' = NoCall
    /\ done' = IF cb.kind = "event" THEN done + 1 ELSE done
    /\ UNCHANGED <<reg, timers, order, todo, pc, wait, endLoop, ready, behind>>

\* Any other status ends the loop.
CbFails ==
    /\ "error" \in Env
    /\ cb # NoCall
    /\ cb' = NoCall
    /\ LeaveLoop
    /\ UNCHANGED <<reg, timers, order, ready, behind>>

\* Data, or room for data, arrives at any time.
Arrives ==
    /\ \E s \in Slots \ ready : ready' = ready \cup {s}
    /\ UNCHANGED <<reg, timers, order, todo, pc, wait, done, endLoop, cb, behind>>

Callback ==
    \/ CbRegister \/ CbUnregister \/ CbUnregisterConnect \/ CbSetTimer
    \/ CbConsume \/ CbStop \/ CbTakesTime \/ CbReturns \/ CbFails

Loop ==
    \/ NextTurn \/ Stopped \/ DispatchTimer \/ TimersDone
    \/ SelectReady \/ SelectWaits \/ SelectTimeout \/ SelectInterrupted
    \/ AddReady \/ AddDone
    \/ Execute \/ ExecuteEnough \/ ExecuteDone

Next == StartLoop \/ Loop \/ RegisterBefore \/ Callback \/ Arrives

Spec == Init /\ [][Next]_vars

\* The loop goes on, the functions it calls return, and no signal comes in every
\* time select() finds a socket ready or its timeout is over.
FairSpec ==
    /\ Spec
    /\ WF_vars(NextTurn \/ Stopped \/ DispatchTimer \/ TimersDone
               \/ AddReady \/ AddDone \/ Execute \/ ExecuteEnough \/ ExecuteDone)
    /\ SF_vars(SelectReady)
    /\ WF_vars(SelectWaits \/ SelectTimeout)
    /\ WF_vars(CbReturns)

(***************************************************************************)
(* Properties.                                                             *)
(***************************************************************************)
\* A handler is called for an event that is registered when it is called: an
\* entry in the list of ready events does not outlive the registration.
EntriesRegistered ==
    \A i \in DOMAIN order : pc # "out" => reg[order[i].slot] = order[i].event

\* While a timer runs, select() has a timeout, and it sleeps past the timer by no
\* more than the callbacks of this turn's timers took, whatever timers they set and
\* deleted.
OversleepsByCallbacks ==
    pc = "select" =>
        \A i \in DOMAIN timers : wait # Forever /\ wait <= timers[i].left + behind

\* HTTimer_next "returns the time till the next one": select() is not told to sleep
\* past the next timer.  False, since the callbacks of timers take time.
NoOversleep ==
    pc = "select" => \A i \in DOMAIN timers : wait <= timers[i].left

\* An event with a timeout has a timer while it is registered and only then:
\* a timer never calls a handler that is gone.
TimersOfEvents ==
    \A s \in Slots : HasTimer(timers, s) <=> reg[s] # NoEvent /\ Timeout[reg[s]] > 0

\* The handler of an event that is ready, stays ready and stays registered is
\* called if no other event is as urgent, although only Limit events are executed
\* per turn and the one after them is dropped from the list.
Waits(s)  == reg[s] # NoEvent /\ s \in ready /\ pc # "out"
Serves(s) == cb # NoCall /\ cb.kind = "event" /\ cb.slot = s
MostUrgent(s) ==
    \A t \in Watched \ {s} : Priority[reg[t]] < Priority[reg[s]]
UrgentIsServed ==
    \A s \in Slots : Waits(s) /\ MostUrgent(s) ~> Serves(s) \/ ~(Waits(s) /\ MostUrgent(s))
==============================================================================
