------------------------------ MODULE HttpApi -------------------------------
(***************************************************************************)
(* httpapi.Server: creates through the limiter, the body and the store's   *)
(* admission, stats through their cache, reads through a cache in front of *)
(* the server, all at once.  What Create does between admission and its    *)
(* end is in PasteStore.                                                   *)
(***************************************************************************)
EXTENDS RateLimiter, StatsCache, EdgeCache

apiVars == <<gateVars, servingVars, limiterVars, statsVars, edgeVars>>

ApiInit ==
    /\ Init /\ ServingInit
    /\ LimiterInit /\ StatsInit /\ EdgeInit

LimiterStep(r) ==
    /\ (\E a \in Addresses : ArriveCreate(r, a)) \/ Allow(r) \/ Refuse(r)
    /\ UNCHANGED <<gateVars, statsVars, edgeVars>>

\* A body that cannot be read, is too large, is no JSON or names a query parameter, or
\* that Create refuses before admission: 400 or 413.
BadBody(r) ==
    /\ Advance(r, "body", "idle")
    /\ UNCHANGED gateVars

\* Store.Create begins with acquireWrite.
GoodBody(r) ==
    /\ Advance(r, "body", "store")
    /\ Enter(r)

InLine(r) ==
    /\ at[r] = "store" /\ UNCHANGED at
    /\ Take(r) \/ GiveUp(r)

\* acquireWrite returns: on with the write, or an answer (503, or 500 to nobody).
Decided(r) ==
    /\ Depart(r)
    /\ Advance(r, "store", IF place[r] = "admitted" THEN "store" ELSE "idle")

\* Create returns, its slot released: 201, 507 or 500.
Written(r) ==
    /\ Advance(r, "store", "idle")
    /\ Release(r)

CreateStep(r) ==
    /\ BadBody(r) \/ GoodBody(r) \/ InLine(r) \/ Decided(r) \/ Written(r)
    /\ UNCHANGED <<clock, stamp, limiterVars, statsVars, edgeVars>>

StatsStep(r) ==
    /\ AskStats(r) \/ ReuseStats(r) \/ StartScan(r) \/ FinishScan(r) \/ FailScan(r) \/ TellStats(r)
    /\ UNCHANGED <<gateVars, limiterVars, edgeVars>>

ReadStep(r) ==
    /\ Find(r) \/ Miss(r) \/ TellPaste(r)
    /\ UNCHANGED <<gateVars, limiterVars, statsVars>>

ApiTick == Tick /\ UNCHANGED <<gateVars, limiterVars, statsVars, edgeVars>>

ApiNext ==
    \/ \E r \in Callers : LimiterStep(r) \/ CreateStep(r) \/ StatsStep(r) \/ ReadStep(r)
    \/ ApiTick

ApiSpec == ApiInit /\ [][ApiNext]_apiVars

\* What a request in progress does next, unless its client gives up.
Proceeds(r) ==
    /\ at[r] # "idle"
    /\ \/ LimiterStep(r) \/ StatsStep(r) \/ ReadStep(r)
       \/ /\ BadBody(r) \/ GoodBody(r) \/ Decided(r) \/ Written(r) \/ (Take(r) /\ UNCHANGED at)
          /\ UNCHANGED <<clock, stamp, limiterVars, statsVars, edgeVars>>

(***************************************************************************)
(* Handlers run on; reads and scans end (statements and bodies are bounded *)
(* by the request's context and the server's timeouts).  The two steps a   *)
(* request may wait for come and go while others take them, hence strong   *)
(* fairness: sync.Mutex hands itself to a waiter that starves, and senders *)
(* blocked on a channel are served in their order.  Clients owe nothing:   *)
(* none has to come, none has to give up.                                  *)
(***************************************************************************)
ApiFairSpec == ApiSpec /\ \A r \in Callers : SF_apiVars(Proceeds(r))

-----------------------------------------------------------------------------
ApiTypeOK ==
    /\ TypeOK
    /\ clock \in Nat /\ at \in [Callers -> Stages] /\ stamp \in [Callers -> Nat]
    /\ LimiterTypeOK /\ StatsTypeOK /\ EdgeTypeOK

\* The limiter, with its map, its walks and times read before the mutex, is a bucket
\* per address that is never forgotten: no client gains a token by falling silent or by
\* racing with a walk, and none is turned away that has one.
KeepsItsPromise == Promise!BucketsSpec

\* Every request is answered, whatever the others do.
RequestsEnd == \A r \in Callers : at[r] # "idle" ~> at[r] = "idle"
=============================================================================
