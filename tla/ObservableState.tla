-------------------------- MODULE ObservableState --------------------------
(***************************************************************************)
(* A state and its observers: DCS_State, Client_State, SE_State and        *)
(* SS_State inherit from ObservableState and differ only in their values.  *)
(* The state is atomic; the list of observers has a mutex, which is held   *)
(* while the observers are called one after the other.  An observer looks  *)
(* at the state when it is called.                                         *)
(*                                                                         *)
(* What a thread is doing is its call: nothing ("idle"), about to assign a *)
(* state ("assign"), waiting for the mutex ("lock"), between two observers *)
(* ("notify") or in one of them ("observe").                               *)
(***************************************************************************)
EXTENDS Integers, Sequences, SequencesExt

CONSTANTS Threads, Observers, States, FirstState

Nobody == "nobody"

ASSUME ObservableAssumption == FirstState \in States /\ Nobody \notin Threads

VARIABLES
  state,      \* state_
  observers,  \* observers_
  mutex,      \* observersListMutex_: the thread that holds it, if any
  call,       \* what each thread is doing
  lastSeen    \* history: what each observer saw since it was added

obsVars == <<state, observers, mutex, call, lastSeen>>

Unseen == "unseen"   \* not called yet
Missed == "missed"   \* not called since the state changed

Idle == [op |-> "idle", to |-> FirstState, at |-> 0, observer |-> Nobody]

ObsInit ==
  /\ state = FirstState /\ observers = <<>>
  /\ mutex = Nobody /\ call = [t \in Threads |-> Idle]
  /\ lastSeen = [o \in Observers |-> Unseen]

\* SetState: a state that is already there needs nothing; the result of the
\* validation is not looked at.
SetState(t, to) ==
  /\ call[t].op = "idle"
  /\ call' = IF to = state THEN call
             ELSE [call EXCEPT ![t] = [Idle EXCEPT !.op = "assign", !.to = to]]
  /\ UNCHANGED <<state, observers, mutex, lastSeen>>

\* state_ = iState; whoever is in the list now has missed it so far.
Assign(t) ==
  /\ call[t].op = "assign"
  /\ state' = call[t].to
  /\ lastSeen' = [o \in Observers |-> IF o \in ToSet(observers) THEN Missed ELSE lastSeen[o]]
  /\ call' = [call EXCEPT ![t].op = "lock"]
  /\ UNCHANGED <<observers, mutex>>

\* NotifyStateChange takes the mutex, calls each observer, and gives it back.
Lock(t) ==
  /\ call[t].op = "lock" /\ mutex = Nobody
  /\ mutex' = t
  /\ call' = [call EXCEPT ![t].op = "notify", ![t].at = 1]
  /\ UNCHANGED <<state, observers, lastSeen>>

CallObserver(t) ==
  /\ call[t].op = "notify" /\ call[t].at <= Len(observers)
  /\ call' = [call EXCEPT ![t].op = "observe", ![t].observer = observers[call[t].at]]
  /\ UNCHANGED <<state, observers, mutex, lastSeen>>

\* Mutated: the loop returns behind the first observer, as that of RemoveObserver does.
ObserveFirst(t) ==
  /\ call[t].op = "observe"
  /\ lastSeen' = [lastSeen EXCEPT ![call[t].observer] = state]
  /\ call' = [call EXCEPT ![t].op = "notify", ![t].at = Len(observers) + 1, ![t].observer = Nobody]
  /\ UNCHANGED <<state, observers, mutex>>

Observe(t) ==
  /\ call[t].op = "observe"
  /\ lastSeen' = [lastSeen EXCEPT ![call[t].observer] = state]
  /\ call' = [call EXCEPT ![t].op = "notify", ![t].at = @ + 1, ![t].observer = Nobody]
  /\ UNCHANGED <<state, observers, mutex>>

Unlock(t) ==
  /\ call[t].op = "notify" /\ call[t].at > Len(observers)
  /\ mutex' = Nobody
  /\ call' = [call EXCEPT ![t] = Idle]
  /\ UNCHANGED <<state, observers, lastSeen>>

\* The rest of a call of SetState.
Notifies(t) == Assign(t) \/ Lock(t) \/ CallObserver(t) \/ Observe(t) \/ Unlock(t)

\* An observer that is in the list already is not added again.
AddObserver(t, o) ==
  /\ call[t].op = "idle" /\ mutex = Nobody
  /\ o \notin ToSet(observers)
  /\ observers' = Append(observers, o)
  /\ lastSeen' = [lastSeen EXCEPT ![o] = Unseen]
  /\ UNCHANGED <<state, mutex, call>>

\* Mutated: the list is changed without its mutex.
RemoveUnlocked(t, o) ==
  /\ call[t].op = "idle"
  /\ \E i \in DOMAIN observers : observers[i] = o /\ observers' = RemoveAt(observers, i)
  /\ UNCHANGED <<state, mutex, call, lastSeen>>

RemoveObserver(t, o) ==
  /\ call[t].op = "idle" /\ mutex = Nobody
  /\ \E i \in DOMAIN observers : observers[i] = o /\ observers' = RemoveAt(observers, i)
  /\ UNCHANGED <<state, mutex, call, lastSeen>>

ObsNext ==
  \E t \in Threads :
    \/ \E s \in States : SetState(t, s)
    \/ Notifies(t)
    \/ \E o \in Observers : AddObserver(t, o) \/ RemoveObserver(t, o)

ObsSpec == ObsInit /\ [][ObsNext]_obsVars

-----------------------------------------------------------------------------
(* Properties.                                                             *)

\* Once RemoveObserver has returned, nobody is calling the observer, and its owner
\* may delete it: "Threadsafe" (ObservableState.h).
RemovedIsSilent ==
  \A t \in Threads : call[t].op = "observe" => call[t].observer \in ToSet(observers)

\* When nobody is changing the state, every observer that was in the list at its last
\* change has been told, and none has last seen a state before it.
ChangesAreSeen ==
  (\A t \in Threads : call[t].op = "idle") =>
    \A o \in ToSet(observers) : lastSeen[o] \in {Unseen, state}
=============================================================================
