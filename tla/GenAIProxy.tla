----------------------------- MODULE GenAIProxy -----------------------------
(***************************************************************************)
(* Metering and daily limits of the GenAI proxy                            *)
(* (components/genai_proxy/src/server.ts, usage.ts, billing.ts).           *)
(*                                                                         *)
(* A generation request is admitted if its project has spent less than its *)
(* limit today, is forwarded, and is charged when its response ends, to    *)
(* the day on which it ends.  The usage is kept in memory and saved as a   *)
(* whole to one file.  Users, models and token counts matter here by what  *)
(* they cost together.                                                     *)
(***************************************************************************)
EXTENDS Naturals, FiniteSets

CONSTANTS
  Projects,   \* service codes
  Limited,    \* those with a daily limit
  Limit,      \* the limit
  Requests,   \* requests the proxy can serve at the same time
  MaxCost,    \* largest cost of a request
  NoProject,  \* of a request that is not being served
  LastDay,    \* model bound: days
  MaxSpend    \* model bound: what a project costs in a day

ASSUME GenAIProxyAssumption ==
  /\ Limited \subseteq Projects
  /\ Limit \in Nat \ {0} /\ MaxCost \in Nat \ {0}
  /\ LastDay \in Nat /\ MaxSpend \in Nat
  /\ IsFiniteSet(Requests)
  /\ NoProject \notin Projects

VARIABLES
  today,    \* JST date
  spent,    \* UsageStore.projects: cost per project and day, in memory
  saved,    \* the same in the usage file
  served,   \* what the upstream has really charged
  unsaved,  \* the usage in memory is newer than the file
  lost,     \* usage has been lost
  project   \* of each request that was admitted and has not ended

meterVars == <<today, spent, saved, served, unsaved, lost, project>>

Day == 0..LastDay
Usage == [Projects -> [Day -> Nat]]
Nothing == [p \in Projects |-> [d \in Day |-> 0]]

MeterInit ==
  /\ today = 0
  /\ spent = Nothing /\ saved = Nothing /\ served = Nothing
  /\ unsaved = FALSE /\ lost = FALSE
  /\ project = [r \in Requests |-> NoProject]

\* What usage becomes when project p is charged cost.
Charged(usage, p, cost) == [usage EXCEPT ![p][today] = @ + cost]

\* Mutant of BelowLimit: the limit looks at yesterday.
BelowLimitYesterday(p) ==
  p \in Limited => \A d \in Day : d + 1 = today => spent[p][d] < Limit

\* estimatedUsageCostUsd(currentDailyModels) against dailyServiceCodeLimits
BelowLimit(p) == p \in Limited => spent[p][today] < Limit

\* A generation request with a good token; one over the limit is answered 429
\* and leaves no trace.
Admit(r, p) ==
  /\ project[r] = NoProject /\ BelowLimit(p)
  /\ project' = [project EXCEPT ![r] = p]
  /\ UNCHANGED <<today, spent, saved, served, unsaved, lost>>

\* The upstream fails, its response has no token counts, or the client goes
\* away before its end: nothing is charged.
EndUncharged(r) ==
  /\ project[r] # NoProject
  /\ project' = [project EXCEPT ![r] = NoProject]
  /\ UNCHANGED <<today, spent, saved, served, unsaved, lost>>

\* Mutant of Save: the new usage is not what is written.
SaveOld(usage) == saved' = saved /\ unsaved' = FALSE

\* persist: the whole usage replaces the file, or nothing does.
Save(usage) ==
  \/ saved' = usage /\ unsaved' = FALSE
  \/ saved' = saved /\ unsaved' = TRUE

\* Mutant of Recorded: the cost counts once for the user and once for the model.
RecordedTwice(p, cost) == Charged(spent, p, cost + cost)

\* record, before it saves
Recorded(p, cost) == Charged(spent, p, cost)

\* The response ends: record.
Charge(r, cost) ==
  LET p == project[r]
  IN  /\ p # NoProject /\ served[p][today] + cost <= MaxSpend
      /\ project' = [project EXCEPT ![r] = NoProject]
      /\ served' = Charged(served, p, cost)
      /\ spent' = Recorded(p, cost) /\ Save(Recorded(p, cost))
      /\ UNCHANGED <<today, lost>>

\* The process is killed and started again, between two requests' ends or
\* while a response of the given cost has ended and is not yet recorded.
MeterRestarts ==
  /\ spent' = saved /\ unsaved' = FALSE
  /\ project' = [r \in Requests |-> NoProject]
  /\ \/ served' = served /\ lost' = (lost \/ unsaved)
     \/ \E r \in Requests, cost \in 1..MaxCost :
          /\ project[r] # NoProject /\ served[project[r]][today] + cost <= MaxSpend
          /\ served' = Charged(served, project[r], cost)
          /\ lost' = TRUE
  /\ UNCHANGED <<today, saved>>

Midnight ==
  /\ today < LastDay
  /\ today' = today + 1
  /\ UNCHANGED <<spent, saved, served, unsaved, lost, project>>

MeterNext ==
  \/ \E r \in Requests :
       \/ EndUncharged(r)
       \/ \E p \in Projects : Admit(r, p)
       \/ \E cost \in 0..MaxCost : Charge(r, cost)
  \/ MeterRestarts \/ Midnight

MeterSpec == MeterInit /\ [][MeterNext]_meterVars

-----------------------------------------------------------------------------
(* Properties *)

\* Types, and: nothing is charged to a day to come.
TypeOK ==
  /\ today \in Day
  /\ spent \in Usage /\ saved \in Usage /\ served \in Usage
  /\ unsaved \in BOOLEAN /\ lost \in BOOLEAN
  /\ project \in [Requests -> Projects \cup {NoProject}]
  /\ \A p \in Projects, d \in Day :
       d > today => spent[p][d] = 0 /\ saved[p][d] = 0 /\ served[p][d] = 0

\* "Counters ... survive container restarts": the usage file is the usage in
\* memory unless the last save failed, and the usage in memory is what was
\* really charged unless a restart came between a charge and its save.
Durable ==
  /\ ~unsaved => saved = spent
  /\ ~lost => spent = served

\* Nobody is charged for what the upstream did not do.
NeverOvercharged ==
  \A p \in Projects, d \in Day :
    saved[p][d] <= spent[p][d] /\ spent[p][d] <= served[p][d]

\* "The request that crosses a limit completes; enforcement begins with the next
\* request": on any day, a project exceeds its limit at most by the requests
\* that are served at the same time, whatever fails, and whichever of them
\* were admitted the day before.
OverspendBounded ==
  \A p \in Limited, d \in Day :
    spent[p][d] <= Limit - 1 + Cardinality(Requests) * MaxCost

=============================================================================
