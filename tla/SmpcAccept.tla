----------------------------- MODULE SmpcAccept -----------------------------
(***************************************************************************)
(* Accept of package server: the loop in which every validator writes its  *)
(* heartbeat, lists the sign requests of the SMPC group, checks each one   *)
(* against the burn it claims to pay and agrees to it; and the online      *)
(* check that precedes a request (CheckAccountsState in dealUnWrapOrder).  *)
(***************************************************************************)
EXTENDS Naturals, FiniteSets

CONSTANTS Validators,       \* accounts of the group, one process each
          Keys,             \* sign requests
          Kind,             \* Kind[k]: request k pays a call of unwrap (good), it does not and
                            \* its check fails (bad), or it is not an unwrap of ours (other)
          Threshold,        \* agreements the SMPC group needs
          OverTime,         \* age at which a heartbeat counts as missing
          AcceptOverTime,   \* age above which a request is not looked at
          NoKey,
          None              \* no heartbeat row, no request yet

ASSUME FiniteAssumption == IsFiniteSet(Validators)
ASSUME KindAssumption == Kind \in [Keys -> {"good", "bad", "other"}]
ASSUME AcceptBoundsAssumption == /\ Threshold \in Nat \ {0}
                                 /\ OverTime \in Nat /\ AcceptOverTime \in Nat
ASSUME NoKeyAssumption == NoKey \notin Keys
ASSUME NoneAssumption == None \notin Nat

VARIABLES loop,         \* loop[v]: where the loop of v is, or that v is down
          todo,         \* todo[v]: listed requests not yet looked at in this pass
          cur,          \* cur[v]: the request in hand
          acceptedTxes, \* acceptedTxes[v]: requests v has decided to agree to
          dealing,      \* dealing[v]: v deals with orders, past the online check
          service,      \* service[v]: age of v's heartbeat row, or that there is none
          reqAge,       \* reqAge[k]: age of the request, or that it is not made yet
          agreed,       \* agreed[k]: validators whose agreement the group has
          settled,      \* settled[k]: what the group made of the request
          burned,       \* requests whose burn is on the chain now
          witnessed     \* witnessed[k]: history, who has found the burn of k on the chain

loopVars == <<loop, todo, cur, acceptedTxes>>
smpcVars == <<reqAge, agreed, settled>>
chainVars == <<burned, witnessed>>
vars == <<loopVars, dealing, service, smpcVars, chainVars>>

BeatAges == 0..(OverTime + 1)           \* older heartbeats are all the same
ReqAges == 0..(AcceptOverTime + 1)      \* and so are older requests
Requested(k) == reqAge[k] # None
Late(k) == Requested(k) /\ reqAge[k] > AcceptOverTime

Init == /\ loop = [v \in Validators |-> "down"]
        /\ todo = [v \in Validators |-> {}]
        /\ cur = [v \in Validators |-> NoKey]
        /\ acceptedTxes = [v \in Validators |-> {}]
        /\ dealing = [v \in Validators |-> FALSE]
        /\ service = [v \in Validators |-> None]
        /\ reqAge = [k \in Keys |-> None]
        /\ agreed = [k \in Keys |-> {}]
        /\ settled = [k \in Keys |-> "no"]
        /\ burned = {k \in Keys : Kind[k] = "good"}
        /\ witnessed = [k \in Keys |-> {}]
-----------------------------------------------------------------------------
(* The loop of Accept.                                                     *)

Goto(v, label) == loop' = [loop EXCEPT ![v] = label]

\* The process starts, with no memory of earlier agreements.
StartUp(v) ==
    /\ loop[v] = "down"
    /\ Goto(v, "beat")
    /\ UNCHANGED <<todo, cur, acceptedTxes, dealing, service, smpcVars, chainVars>>

\* The process ends, wherever it is.
Stop(v) ==
    /\ loop[v] # "down"
    /\ Goto(v, "down")
    /\ todo' = [todo EXCEPT ![v] = {}]
    /\ cur' = [cur EXCEPT ![v] = NoKey]
    /\ acceptedTxes' = [acceptedTxes EXCEPT ![v] = {}]
    /\ dealing' = [dealing EXCEPT ![v] = FALSE]
    /\ UNCHANGED <<service, smpcVars, chainVars>>

\* UpdateAccountState writes the heartbeat; an error is only logged.
Beat(v) ==
    /\ loop[v] = "beat"
    /\ \/ service' = [service EXCEPT ![v] = 0]
       \/ UNCHANGED service
    /\ Goto(v, "list")
    /\ UNCHANGED <<todo, cur, acceptedTxes, dealing, smpcVars, chainVars>>

\* GetCurNodeSignInfo lists the requests the group has not settled.
ListOk(v) ==
    /\ loop[v] = "list"
    /\ todo' = [todo EXCEPT ![v] = {k \in Keys : Requested(k) /\ settled[k] = "no"}]
    /\ Goto(v, "scan")
    /\ UNCHANGED <<cur, acceptedTxes, dealing, service, smpcVars, chainVars>>

\* Faulty variant: an error ends the loop.
ListFailEnds(v) ==
    /\ loop[v] = "list"
    /\ Goto(v, "dead")
    /\ UNCHANGED <<todo, cur, acceptedTxes, dealing, service, smpcVars, chainVars>>

\* GetCurNodeSignInfo fails: the loop goes on with the next tick.
ListFail(v) ==
    /\ loop[v] = "list"
    /\ Goto(v, "beat")
    /\ UNCHANGED <<todo, cur, acceptedTxes, dealing, service, smpcVars, chainVars>>

\* The request in hand is dealt with: the next one, or the next tick.
NextInfo(v) ==
    /\ Goto(v, "scan")
    /\ cur' = [cur EXCEPT ![v] = NoKey]

\* Skipped: more than one message, no MsgContext, too old, unknown tokens, or not
\* an unwrap.
SkipInfo(v, k) ==
    /\ loop[v] = "scan" /\ k \in todo[v]
    /\ Kind[k] = "other" \/ Late(k)
    /\ todo' = [todo EXCEPT ![v] = @ \ {k}]
    /\ UNCHANGED <<loop, cur, acceptedTxes, dealing, service, smpcVars, chainVars>>

\* A request to be checked.
TakeInfo(v, k) ==
    /\ loop[v] = "scan" /\ k \in todo[v]
    /\ Kind[k] # "other" /\ ~Late(k)
    /\ todo' = [todo EXCEPT ![v] = @ \ {k}]
    /\ cur' = [cur EXCEPT ![v] = k]
    /\ Goto(v, "check")
    /\ UNCHANGED <<acceptedTxes, dealing, service, smpcVars, chainVars>>

\* Faulty variant: a request that fails its check ends the pass, and the loop.
RefuseEnds(v) ==
    /\ loop[v] = "check"
    /\ Goto(v, "dead")
    /\ UNCHANGED <<todo, cur, acceptedTxes, dealing, service, smpcVars, chainVars>>

\* ValiditeUnWrapTxData or CheckUnWrapTx refuses the request, or cannot ask the
\* node about the burn.
Refuse(v) ==
    /\ loop[v] = "check"
    /\ NextInfo(v)
    /\ UNCHANGED <<todo, acceptedTxes, dealing, service, smpcVars, chainVars>>

\* Faulty variant: the burn is not looked up.
BurnedUnchecked(k) == TRUE

\* The hash is that of the payment, and a transaction that is not pending calls
\* unwrap with its receiver, its token and at least its amount.  The receipt of that
\* transaction is not looked at: a burn here is such a call.
Burned(k) == k \in burned

\* The request is in order: it is put into acceptedTxes, if it is not there already.
Admit(v) ==
    /\ loop[v] = "check"
    /\ Burned(cur[v])
    /\ IF cur[v] \in acceptedTxes[v]
       THEN NextInfo(v) /\ UNCHANGED acceptedTxes
       ELSE /\ acceptedTxes' = [acceptedTxes EXCEPT ![v] = @ \cup {cur[v]}]
            /\ Goto(v, "accept")
            /\ UNCHANGED cur
    /\ witnessed' = [witnessed EXCEPT ![cur[v]] = IF cur[v] \in burned THEN @ \cup {v} ELSE @]
    /\ UNCHANGED <<todo, dealing, service, smpcVars, burned>>

\* smpc.AcceptSign: the group gets the agreement, or it does not; v does not try
\* again either way.
AcceptSign(v) ==
    /\ loop[v] = "accept"
    /\ \/ agreed' = [agreed EXCEPT ![cur[v]] = @ \cup {v}]
       \/ UNCHANGED agreed
    /\ NextInfo(v)
    /\ UNCHANGED <<todo, acceptedTxes, dealing, service, reqAge, settled, chainVars>>

\* GetPrivateKey fails: the goroutine returns, and with it the heartbeat ends.
NoPrivateKey(v) ==
    /\ loop[v] = "accept"
    /\ Goto(v, "dead")
    /\ UNCHANGED <<todo, cur, acceptedTxes, dealing, service, smpcVars, chainVars>>

\* The pass is over.
EndPass(v) ==
    /\ loop[v] = "scan" /\ todo[v] = {}
    /\ Goto(v, "beat")
    /\ UNCHANGED <<todo, cur, acceptedTxes, dealing, service, smpcVars, chainVars>>
-----------------------------------------------------------------------------
(* The requester, the group and time.                                      *)

\* CheckAccountsState: no row of an account of the group is older than OverTime.
CheckAccountsState == \A v \in Validators : service[v] # None => service[v] <= OverTime

\* dealUnWrapOrder of v gets past the online check.
PassOnlineCheck(v) ==
    /\ loop[v] # "down"
    /\ ~dealing[v]
    /\ CheckAccountsState
    /\ dealing' = [dealing EXCEPT ![v] = TRUE]
    /\ UNCHANGED <<loopVars, service, smpcVars, chainVars>>

\* Later it makes the request, with the time of that moment in its MsgContext and
\* for a burn the chain may have lost meanwhile, or one of the steps before failed.
\* Another goroutine of v may still be on its way.
Request(v) ==
    /\ dealing[v]
    /\ \/ \E k \in Keys : /\ Kind[k] = "good" /\ ~Requested(k)
                          /\ reqAge' = [reqAge EXCEPT ![k] = 0]
                          /\ burned' \in {burned, burned \ {k}}
       \/ UNCHANGED <<reqAge, burned>>
    /\ dealing' \in {dealing, [dealing EXCEPT ![v] = FALSE]}
    /\ UNCHANGED <<loopVars, service, agreed, settled, witnessed>>

\* The group is asked for something else.
RequestOther(k) ==
    /\ Kind[k] # "good" /\ ~Requested(k)
    /\ reqAge' = [reqAge EXCEPT ![k] = 0]
    /\ UNCHANGED <<loopVars, dealing, service, agreed, settled, chainVars>>

\* The group has enough agreements and signs, or the request times out.
Settle(k) ==
    /\ Requested(k) /\ settled[k] = "no"
    /\ \E answer \in {"signed", "timeout"} :
          /\ answer = "signed" => Cardinality(agreed[k]) >= Threshold
          /\ settled' = [settled EXCEPT ![k] = answer]
    /\ UNCHANGED <<loopVars, dealing, service, reqAge, agreed, chainVars>>

\* A reorganisation of the chain takes calls back into the pool, where they are
\* pending, or includes them again.
Reorganise ==
    /\ burned' \in SUBSET {k \in Keys : Kind[k] = "good"}
    /\ UNCHANGED <<loopVars, dealing, service, smpcVars, witnessed>>

\* Time passes for heartbeats and requests.
Tick ==
    /\ service' = [v \in Validators |->
                      IF service[v] \in 0..OverTime THEN service[v] + 1 ELSE service[v]]
    /\ reqAge' = [k \in Keys |->
                      IF reqAge[k] \in 0..AcceptOverTime THEN reqAge[k] + 1 ELSE reqAge[k]]
    /\ UNCHANGED <<loopVars, dealing, agreed, settled, chainVars>>
-----------------------------------------------------------------------------
LoopStep(v) == \/ Beat(v) \/ ListOk(v) \/ ListFail(v) \/ EndPass(v)
               \/ Refuse(v) \/ Admit(v) \/ AcceptSign(v)
               \/ \E k \in Keys : SkipInfo(v, k) \/ TakeInfo(v, k)

Next == \/ \E v \in Validators : LoopStep(v) \/ NoPrivateKey(v) \/ StartUp(v) \/ Stop(v)
                                  \/ Request(v) \/ PassOnlineCheck(v)
        \/ \E k \in Keys : Settle(k) \/ RequestOther(k)
        \/ Reorganise \/ Tick

Spec == Init /\ [][Next]_vars

\* The ticker never stops; neither the database nor the SMPC node nor the chain's
\* node answers with an error for ever.
FairSpec ==
    /\ Spec
    /\ \A v \in Validators :
          /\ WF_vars(LoopStep(v))
          /\ SF_vars(ListOk(v)) /\ SF_vars(Beat(v) /\ service'[v] = 0)
          /\ \A k \in Keys : SF_vars(cur[v] = k /\ Admit(v))
-----------------------------------------------------------------------------
(* Properties.                                                             *)

Loops == {"down", "beat", "list", "scan", "check", "accept", "dead"}

\* The types of the variables; a request is in hand from the check to the
\* agreement.
TypeOK == /\ loop \in [Validators -> Loops]
          /\ todo \in [Validators -> SUBSET Keys]
          /\ cur \in [Validators -> Keys \cup {NoKey}]
          /\ acceptedTxes \in [Validators -> SUBSET Keys]
          /\ dealing \in [Validators -> BOOLEAN]
          /\ service \in [Validators -> BeatAges \cup {None}]
          /\ reqAge \in [Keys -> ReqAges \cup {None}]
          /\ agreed \in [Keys -> SUBSET Validators]
          /\ settled \in [Keys -> {"no", "signed", "timeout"}]
          /\ burned \in SUBSET {k \in Keys : Kind[k] = "good"}
          /\ witnessed \in [Keys -> SUBSET Validators]
          /\ \A v \in Validators : /\ loop[v] \in {"check", "accept"} => cur[v] # NoKey
                                   /\ loop[v] \in {"down", "beat", "list", "scan"} => cur[v] = NoKey

\* The group signs only what Threshold validators, each by itself, have found to pay
\* a burn on the chain since it was asked: whatever else was listed, however often
\* processes were restarted, and whether or not the chain was reorganised before,
\* between or after their checks.
SignedWasSeen ==
    \A k \in Keys : settled[k] = "signed" => Cardinality(witnessed[k]) >= Threshold

\* The process is down, or its loop has returned for want of the private key.
Gone(v) == \/ loop[v] = "down"
           \/ loop[v] = "dead" /\ cur[v] \in acceptedTxes[v]

\* A request in order is admitted by every validator that keeps running, past
\* requests that are not and past errors, unless it is settled or too old first, or
\* its burn leaves the chain.
GoodIsAdmitted ==
    \A v \in Validators, k \in Keys :
        (Requested(k) /\ k \in burned) ~>
            (k \in acceptedTxes[v] \/ settled[k] # "no" \/ Late(k) \/ Gone(v) \/ k \notin burned)

\* The heartbeat of a running validator goes on, whatever the SMPC node answers and
\* whatever requests are listed.
KeepsBeating ==
    \A v \in Validators : (loop[v] # "down") ~> (service[v] = 0 \/ Gone(v))

\* "check the SubGid->accounts online or not" (server/detect.go): an order is dealt
\* with only when every account of the group has a recent heartbeat.
AllOnlineStep ==
    \A v, w \in Validators : (~dealing[v] /\ dealing'[v]) =>
        service[w] # None /\ service[w] <= OverTime

\* AllOnlineStep, of every step.
AllOnline == [][AllOnlineStep]_vars
=============================================================================
