---------------------------- MODULE LoginStreaks ----------------------------
(***************************************************************************)
(* The lock-out of the password route: a streak of failures per client,    *)
(* kept in a bounded table in the order of the last failure, with a        *)
(* doubling wait and one alert per streak that a cooldown may hold back.    *)
(***************************************************************************)
EXTENDS Integers, Sequences, FiniteSets, SequencesExt

CONSTANTS
  Client,
  Loopback,    \* the addresses of this PC; the tunnel's clients come from them as well
  FreeAttempts, BaseDelay, MaxDelay, ForgetAfter, MaxClients, AlertAfter, AlertCooldown,
  LastMoment,  \* bound: the last value of the clock
  MaxFailures, \* bound: failures of a streak
  MaxHeld,     \* bound: alerts held back in a row
  MaxAdmitted, \* bound: attempts of a client at once
  NoAlert

ASSUME StreakAssumption ==
  /\ Loopback \subseteq Client
  /\ FreeAttempts \in Nat /\ AlertAfter \in Nat \ {0} /\ MaxClients \in Nat \ {0}
  /\ BaseDelay \in Nat \ {0} /\ BaseDelay <= MaxDelay /\ MaxDelay <= ForgetAfter
  /\ AlertCooldown \in Nat /\ LastMoment \in Nat /\ MaxFailures \in Nat /\ MaxHeld \in Nat /\ MaxAdmitted \in Nat

VARIABLES
  moment,
  order,      \* the clients with a streak, in the order of the table
  streak,     \* [Client -> [failures, deadline, last, alerted]]
  lastAlert,
  suppressed, \* alerts the cooldown held back since the last one
  admitted    \* [Client -> number of attempts let in whose body is still read]

streakVars == <<moment, order, streak, lastAlert, suppressed, admitted>>

NoStreak == [failures |-> 0, deadline |-> 0, last |-> 0, alerted |-> FALSE]

StreakTypeOK ==
  /\ moment \in 0 .. LastMoment
  /\ order \in Seq(Client) /\ Len(order) <= MaxClients /\ IsInjective(order)
  /\ streak \in [Client -> [failures : 0 .. MaxFailures, deadline : 0 .. LastMoment + MaxDelay,
                            last : 0 .. LastMoment, alerted : BOOLEAN]]
  /\ lastAlert \in 0 .. LastMoment \cup {NoAlert}
  /\ suppressed \in 0 .. MaxHeld
  /\ admitted \in [Client -> 0 .. MaxAdmitted]

StreakInit ==
  /\ moment = 0 /\ order = <<>> /\ streak = [c \in Client |-> NoStreak]
  /\ lastAlert = NoAlert /\ suppressed = 0
  /\ admitted = [c \in Client |-> 0]

-----------------------------------------------------------------------------

Forgotten(c) == moment - streak[c].last >= ForgetAfter
Without(table, c) ==
  IF c \in ToSet(table) THEN RemoveAt(table, CHOOSE i \in DOMAIN table : table[i] = c) ELSE table

\* _live: a forgotten streak is dropped when its client is seen.
Live(table, c) == IF c \in ToSet(table) /\ Forgotten(c) THEN Without(table, c) ELSE table

\* Mutant: a failure leaves the client where it is in the table.
PlaceStill(table, c) == IF c \in ToSet(table) THEN table ELSE Append(table, c)
\* move_to_end
Place(table, c) == Append(Without(table, c), c)

\* _make_room: the forgotten at the front, then the oldest if the table is full.
MakeRoom(table) ==
  LET kept(i) == \A j \in 1 .. i - 1 : Forgotten(table[j])
      drop == Cardinality({i \in DOMAIN table : kept(i) /\ Forgotten(table[i])})
      rest == SubSeq(table, drop + 1, Len(table))
  IN IF Len(rest) >= MaxClients THEN Tail(rest) ELSE rest

Power == [n \in 0 .. MaxFailures |-> 2 ^ n]
Delay(failures) ==
  LET over == failures - FreeAttempts
      doubled == BaseDelay * Power[over - 1]
  IN IF over <= 0 THEN 0 ELSE IF doubled > MaxDelay THEN MaxDelay ELSE doubled

Waits(c) == c \in ToSet(Live(order, c)) /\ streak[c].deadline > moment

\* The gate of the route; a forgotten streak goes as it is looked at. The body is
\* read only after it, so attempts let in together are judged one by one.
Admit(c) ==
  /\ order' = Live(order, c)
  /\ streak' = [streak EXCEPT ![c] = IF c \in ToSet(order') THEN @ ELSE NoStreak]
  /\ \/ Waits(c) /\ UNCHANGED admitted
     \/ ~Waits(c) /\ admitted[c] < MaxAdmitted /\ admitted' = [admitted EXCEPT ![c] = @ + 1]
  /\ UNCHANGED <<moment, lastAlert, suppressed>>

\* A wrong password: record_failure and _take_alert.
Fail(c) ==
  /\ admitted[c] > 0 /\ admitted' = [admitted EXCEPT ![c] = @ - 1]
  /\ LET live == Live(order, c)
         table == Place(IF c \in ToSet(live) THEN live ELSE MakeRoom(live), c)
         old == IF c \in ToSet(live) THEN streak[c] ELSE NoStreak
         n == old.failures + 1
         due == ~old.alerted /\ n >= AlertAfter
         held == due /\ lastAlert # NoAlert /\ moment - lastAlert < AlertCooldown
     IN /\ n <= MaxFailures /\ (held => suppressed < MaxHeld)
        /\ order' = table
        /\ streak' = [d \in Client |->
             IF d = c THEN [failures |-> n, deadline |-> moment + Delay(n), last |-> moment,
                            alerted |-> old.alerted \/ due]
             ELSE IF d \in ToSet(table) THEN streak[d] ELSE NoStreak]
        /\ suppressed' = IF held THEN suppressed + 1 ELSE IF due THEN 0 ELSE suppressed
        /\ lastAlert' = IF due /\ ~held THEN moment ELSE lastAlert
  /\ UNCHANGED moment

\* The right password: reset.  Who sits at the PC itself passes no gate, and takes the
\* streak of the tunnel's clients, which have his address, along.
LogIn(c) ==
  /\ \/ admitted[c] > 0 /\ admitted' = [admitted EXCEPT ![c] = @ - 1]
     \/ c \in Loopback /\ UNCHANGED admitted
  /\ order' = Without(order, c) /\ streak' = [streak EXCEPT ![c] = NoStreak]
  /\ UNCHANGED <<moment, lastAlert, suppressed>>

PassMoment ==
  /\ moment < LastMoment /\ moment' = moment + 1
  /\ UNCHANGED <<order, streak, lastAlert, suppressed, admitted>>

StreakNext == (\E c \in Client : Admit(c) \/ Fail(c) \/ LogIn(c)) \/ PassMoment

StreakSpec == StreakInit /\ [][StreakNext]_streakVars

-----------------------------------------------------------------------------

\* A live streak goes in two ways only: a login from its own address, or a client without
\* a streak that fails while the table is full, and then it is one whose last failure no
\* other client's precedes.  Neither a look at the table nor another client's login nor
\* the failure of a client that is in it costs anybody else a streak.
StreaksStand ==
  [][\A c \in ToSet(order) \ ToSet(order') :
       \/ Forgotten(c)
       \/ LogIn(c)
       \/ /\ Len(order) = MaxClients /\ ToSet(order') \ ToSet(order) # {}
          /\ \A d \in ToSet(order) : streak[d].last >= streak[c].last]_streakVars
=============================================================================
