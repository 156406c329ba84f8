---------------------------- MODULE LoginLockout ----------------------------
(***************************************************************************)
(* Failed logins (app/core/security.py, AuthService.login and the login    *)
(* route).  Each worker counts them in a dictionary of its own memory,     *)
(* pruned by age, capped per identifier and bounded in size; a restarted   *)
(* worker begins with an empty one.  Reading the clock and holding the     *)
(* dictionary's lock are one step: a tick of the model is minutes.         *)
(***************************************************************************)
EXTENDS Naturals, Sequences, FiniteSets

CONSTANTS LoginWorkers,    \* processes that serve logins
          Identifiers,     \* remote addresses
          LoginThreads,    \* requests served at once, over all workers
          MaxAttempts,     \* _MAX_ATTEMPTS
          LockoutMinutes,  \* _LOCKOUT_MINUTES, in ticks
          MaxTracked,      \* _MAX_TRACKED_IDENTIFIERS
          MaxMinutes,      \* bound: the clock
          MaxFailures      \* bound: failures of an identifier since its last success

ASSUME LockoutAssumption == /\ MaxAttempts \in Nat \ {0} /\ MaxTracked \in Nat \ {0}
                            /\ LockoutMinutes \in Nat \ {0} /\ IsFiniteSet(Identifiers)

VARIABLES
  minute,    \* datetime.now()
  attempts,  \* _login_attempts of each worker: the times of an identifier
             \* and the ones inserted later, which is the dictionary's order
  login,     \* login requests between the lockout check and the password
  failures   \* history: every failure since the identifier's last success,
             \* with the others that failed in this worker after it

loginVars == <<minute, attempts, login, failures>>

NotLoggingIn == [pc |-> "idle"]
NoEntry      == [times |-> <<>>, later |-> {}]
NoEntries    == [i \in Identifiers |-> NoEntry]

LoginsInit == /\ minute = 0
              /\ attempts = [w \in LoginWorkers |-> NoEntries]
              /\ login = [t \in LoginThreads |-> NotLoggingIn]
              /\ failures = [w \in LoginWorkers |-> [i \in Identifiers |-> <<>>]]

Newest(times) == times[Len(times)]
Within(time)  == time + LockoutMinutes > minute

Tracked(table) == {i \in Identifiers : table[i].times # <<>>}
Forget(table, gone) ==
  [i \in Identifiers |-> IF i \in gone THEN NoEntry
                         ELSE [times |-> table[i].times, later |-> table[i].later \ gone]]

\* _prune_login_attempts: whoever failed last too long ago is forgotten.
Expired(table) == {i \in Tracked(table) : ~Within(Newest(table[i].times))}
Pruned(w)      == Forget(attempts[w], Expired(attempts[w]))

\* The times of an entry are ascending, so the recent ones are the last.
Recent(times) ==
  SubSeq(times, 1 + (CHOOSE m \in 0 .. Len(times) :
                       \A n \in DOMAIN times : Within(times[n]) <=> n > m), Len(times))
LastOf(times, n) == SubSeq(times, IF Len(times) > n THEN Len(times) - n + 1 ELSE 1, Len(times))

\* next(iter(_login_attempts))
First(table) == CHOOSE i \in Tracked(table) : \A k \in Tracked(table) : i \notin table[k].later

Insert(table, i, times) ==
  [k \in Identifiers |->
     IF k = i THEN [times |-> times, later |-> {}]
     ELSE IF k \in Tracked(table)
       THEN [times |-> table[k].times, later |-> table[k].later \cup {i}] ELSE NoEntry]

Room(table) == IF Cardinality(Tracked(table)) >= MaxTracked
               THEN Forget(table, {First(table)}) ELSE table

NewTimes(w, i) == LastOf(Append(Recent(Pruned(w)[i].times), minute), MaxAttempts)

\* Mutant: an identifier that is already there keeps its place.
RecordInPlace(w, i) ==
  IF i \in Tracked(Pruned(w))
    THEN [Pruned(w) EXCEPT ![i].times = NewTimes(w, i)]
    ELSE Insert(Room(Pruned(w)), i, NewTimes(w, i))

\* record_failed_login: to the end of the dictionary, the first one out.
Record(w, i) == Insert(Room(Forget(Pruned(w), {i})), i, NewTimes(w, i))

LockedOut(w, i) == Len(Pruned(w)[i].times) >= MaxAttempts

Failed(w, i) ==
  failures' = [failures EXCEPT ![w] =
    [k \in Identifiers |->
       IF k = i THEN Append(failures[w][i], [at |-> minute, others |-> {}])
       ELSE [n \in DOMAIN failures[w][k] |->
               [at |-> failures[w][k][n].at, others |-> failures[w][k][n].others \cup {i}]]]]

\* is_locked_out, which prunes; a locked out request ends here.
CheckLockout(t, w, i) ==
  /\ login[t].pc = "idle"
  /\ attempts' = [attempts EXCEPT ![w] = Pruned(w)]
  /\ login' = IF LockedOut(w, i) THEN login
              ELSE [login EXCEPT ![t] = [pc |-> "password", worker |-> w, who |-> i]]
  /\ UNCHANGED <<minute, failures>>

WrongPassword(t) ==
  LET w == login[t].worker  i == login[t].who IN
  /\ login[t].pc = "password" /\ Len(failures[w][i]) < MaxFailures
  /\ attempts' = [attempts EXCEPT ![w] = Record(w, i)]
  /\ login' = [login EXCEPT ![t] = NotLoggingIn]
  /\ Failed(w, i)
  /\ UNCHANGED minute

\* The right password of a deactivated user: refused, neither counted nor cleared.
Deactivated(t) ==
  /\ login[t].pc = "password"
  /\ login' = [login EXCEPT ![t] = NotLoggingIn]
  /\ UNCHANGED <<minute, attempts, failures>>

\* clear_login_attempts
LoggedIn(t) ==
  LET w == login[t].worker  i == login[t].who IN
  /\ login[t].pc = "password"
  /\ attempts' = [attempts EXCEPT ![w] = Forget(attempts[w], {i})]
  /\ login' = [login EXCEPT ![t] = NotLoggingIn]
  /\ failures' = [failures EXCEPT ![w][i] = <<>>]
  /\ UNCHANGED minute

\* gunicorn starts the worker again: its memory and its requests are gone.
RestartWorker(w) ==
  /\ attempts' = [attempts EXCEPT ![w] = NoEntries]
  /\ failures' = [failures EXCEPT ![w] = [i \in Identifiers |-> <<>>]]
  /\ login' = [t \in LoginThreads |->
                 IF login[t].pc = "password" /\ login[t].worker = w THEN NotLoggingIn ELSE login[t]]
  /\ UNCHANGED minute

MinutePasses == /\ minute < MaxMinutes /\ minute' = minute + 1
                /\ UNCHANGED <<attempts, login, failures>>

LoginsNext ==
  \/ MinutePasses
  \/ \E t \in LoginThreads : WrongPassword(t) \/ Deactivated(t) \/ LoggedIn(t)
  \/ \E t \in LoginThreads, w \in LoginWorkers, i \in Identifiers : CheckLockout(t, w, i)
  \/ \E w \in LoginWorkers : RestartWorker(w)

-----------------------------------------------------------------------------
(***************************************************************************)
(* The pruned, capped and bounded dictionary answers as the full history   *)
(* of a worker would: an identifier is locked out exactly when its last    *)
(* MaxAttempts failures since its last success lie within LockoutMinutes   *)
(* of the newest of them, and that one within LockoutMinutes of now; only  *)
(* when MaxTracked others failed meanwhile may it have been forgotten      *)
(* ("Implements account lockout after repeated failures", "try again in 15 *)
(* minutes": AuthService.login).                                           *)
(***************************************************************************)
LockoutIsExact ==
  \A w \in LoginWorkers, i \in Identifiers :
    LET last   == LastOf(failures[w][i], MaxAttempts)
        newest == Newest(last).at
        earned == /\ Len(last) = MaxAttempts
                  /\ Within(newest)
                  /\ last[1].at + LockoutMinutes > newest
    IN  /\ LockedOut(w, i) => earned
        /\ earned /\ Cardinality(last[1].others) < MaxTracked => LockedOut(w, i)
=============================================================================
