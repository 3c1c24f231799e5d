---------------------------- MODULE BridgeService ----------------------------
(***************************************************************************)
(* The MATLAB add-on and the bridge it talks to: the windows of            *)
(* clients/matlab_bridge/app/+mxa/+bridge/MatlabBridgeApp.m, which capture *)
(* a run, ask for consent, fetch a token and post, and the routes of       *)
(* api/routes/matlab_bridge_auth.py and api/routes/matlab_bridge.py, which *)
(* establish a session, sign its token, verify it again with every request *)
(* and only then wait for the store.  Tokens are those of BridgeAuth; the  *)
(* store is what it promises to be, a RunLedger, with the scope that every *)
(* session is held by.                                                     *)
(*                                                                         *)
(* A submission is one click in some window.  Its run and its request have *)
(* fresh UUIDs, so that the submission itself stands for both.             *)
(***************************************************************************)
EXTENDS BridgeAuth

CONSTANTS
  Submissions,
  Owners,           \* a user with a project
  Sessions,
  Sequences,        \* the run_sequence a caller may give
  Clicks,           \* what may be submitted, for which session, about what
  Grants,           \* the capabilities hosts ask for
  Write, Explain,   \* the two capabilities
  NoEntry,          \* a ledger without newest entry
  NoHolder,         \* a session without row
  NoScope,          \* a token not issued
  MaxTrouble        \* bound: how often something goes wrong

Scopes == [owner : Owners, session : Sessions]

(* A snapshot is given a sequence number, a question the run it is about.  *)
ASSUME ClickAssumption ==
  \A c \in Clicks :
    /\ c.run \in Submissions /\ c.scope \in Scopes
    /\ \/ c.kind = Write /\ c.about \in Sequences
       \/ c.kind = Explain /\ c.about \in Submissions \ {c.run}

ASSUME ServiceAssumption ==
  /\ Capabilities = {Write, Explain} /\ Grants \subseteq SUBSET Capabilities
  /\ MaxTrouble \in Nat

ASSUME NamesAssumption ==
  /\ Write # Explain
  /\ NoToken \notin TokenIds
  /\ NoHolder \notin [owner : Owners, gen : Nat]

VARIABLES
  phase, entries, newest,   \* the ledgers
  holder,           \* holder[s]: owner and process that established s
  signedFor,        \* signedFor[j]: the scope in the claims of j
  sub,              \* sub[r]: where submission r stands in its window
  request,          \* request[r]: its request in the server, with its token
  written,          \* written[r]: the token r was appended under (history)
  trouble           \* times that something went wrong

authVars    == <<clock, generation, available, token, revokedUntil, everRevoked,
                 verdict>>
ledgerVars  == <<phase, entries, newest>>
sessionVars == <<ledgerVars, holder>>
serviceVars == <<authVars, sessionVars, signedFor, sub, request, written,
                 trouble>>

Row(r) == [run |-> r, seq |-> sub[r].about, req |-> r]

Ledger == INSTANCE RunLedger
  WITH Entry <- [run : Submissions, seq : Sequences, req : Submissions]

----------------------------------------------------------------------------
(* The window.                                                             *)

Fresh == [step |-> "new"]

(* LastConfirmedSnapshot while nothing was agreed to.                      *)
NoSnapshot == [kind |-> "none"]

(* What the dialog shows of a submission: what it is for, which session it *)
(* goes to and what it is about.                                           *)
Snapshot(r) ==
  [kind |-> sub[r].kind, session |-> sub[r].scope.session, about |-> sub[r].about]

(* captureRunStateSnapshot and freezeRunStatePayload, or the payload of a  *)
(* question about an earlier run: from here on the bytes do not change.    *)
Capture(r, c) ==
  /\ sub[r] = Fresh
  /\ c.run = r
  /\ sub' = [sub EXCEPT ![r] =
               [step |-> "confirming", kind |-> c.kind, scope |-> c.scope,
                about |-> c.about, confirmed |-> NoSnapshot, tries |-> 0,
                told |-> "nothing"]]
  /\ UNCHANGED <<authVars, sessionVars, signedFor, request, written>>

NoRequest == [at |-> "nowhere"]

At(r, step) == sub[r].step = step

(* The window shows how the submission ended.                              *)
Ended(r, what) == [sub[r] EXCEPT !.step = "over", !.tries = 0, !.told = what]

Refetch(r) == [sub[r] EXCEPT !.step = "fetching", !.tries = @ + 1]

(* Mutant: the answer of the dialog is not looked at.                      *)
Decline_PostsAnyway(r) ==
  /\ At(r, "confirming")
  /\ sub' = [sub EXCEPT ![r] = Refetch(r)]
  /\ UNCHANGED <<authVars, sessionVars, signedFor, request, written>>

(* confirmSnapshot, whose dialog may also fail.                            *)
Decline(r) ==
  /\ At(r, "confirming")
  /\ sub' = [sub EXCEPT ![r] = Ended(r, "cancelled")]
  /\ UNCHANGED <<authVars, sessionVars, signedFor, request, written>>

Confirm(r) ==
  /\ At(r, "confirming")
  /\ sub' = [sub EXCEPT ![r] = [Refetch(r) EXCEPT !.confirmed = Snapshot(r)]]
  /\ UNCHANGED <<authVars, sessionVars, signedFor, request, written>>

Posted(r, j) ==
  /\ sub' = [sub EXCEPT ![r].step = "posting"]
  /\ request' = [request EXCEPT ![r] = [at |-> "route", token |-> j]]

(* The token provider is the host's: it may hold on to any token it was    *)
(* given, for another session too, or ask the service for a new one.       *)
FetchHeld(r, j) ==
  /\ At(r, "fetching")
  /\ j \in Issued
  /\ Posted(r, j)
  /\ UNCHANGED <<authVars, sessionVars, signedFor, written>>

AskForToken(r) ==
  /\ At(r, "fetching")
  /\ sub' = [sub EXCEPT ![r].step = "establishing"]
  /\ UNCHANGED <<authVars, sessionVars, signedFor, request, written>>

(* What a window makes of an answer, or of an error of its provider: the   *)
(* first 401 has it fetch a token once more and post the same bytes.       *)
Shown(r, code) ==
  CASE code = 401 /\ sub[r].tries = 1 -> Refetch(r)
    [] code = 200 /\ sub[r].kind = Write -> Ended(r, "saved")
    [] code = 200 /\ sub[r].kind = Explain -> Ended(r, "explained")
    [] code = 409 /\ sub[r].kind = Write -> Ended(r, "conflict")
    [] code = 410 /\ sub[r].kind = Write -> Ended(r, "unavailable")
    [] OTHER -> Ended(r, "error")

ProviderFails(r, code) ==
  /\ sub[r].step \in {"fetching", "establishing", "issuing"}
  /\ sub' = [sub EXCEPT ![r] = Shown(r, code)]
  /\ UNCHANGED <<authVars, sessionVars, signedFor, request, written>>

(* An answer reaches the window unless it stopped waiting.                 *)
Answer(r, code) ==
  /\ request' = [request EXCEPT ![r] = NoRequest]
  /\ sub' = IF At(r, "posting") THEN [sub EXCEPT ![r] = Shown(r, code)]
            ELSE sub

(* webwrite times out; its request goes on.                                *)
GiveUp(r) ==
  /\ At(r, "posting")
  /\ sub' = [sub EXCEPT ![r] = Ended(r, "error")]
  /\ UNCHANGED <<authVars, sessionVars, signedFor, request, written>>

----------------------------------------------------------------------------
(* The routes.                                                             *)

Holder(scope) == [owner |-> scope.owner, gen |-> generation]

HeldBy(scope) == holder[scope.session] = Holder(scope)

OfAnotherOwner(scope) ==
  holder[scope.session] # NoHolder /\ holder[scope.session].owner # scope.owner

(* establish_session at the head of issue_dev_bridge_token.                *)
EstablishNew(r) ==
  /\ At(r, "establishing")
  /\ holder[sub[r].scope.session] = NoHolder
  /\ Ledger!Open(sub[r].scope.session)
  /\ holder' = [holder EXCEPT ![sub[r].scope.session] = Holder(sub[r].scope)]
  /\ sub' = [sub EXCEPT ![r].step = "issuing"]
  /\ UNCHANGED <<authVars, signedFor, request, written>>

EstablishKnown(r) ==
  /\ At(r, "establishing")
  /\ holder[sub[r].scope.session] # NoHolder
  /\ sub' = [sub EXCEPT ![r] =
               IF HeldBy(sub[r].scope) /\ phase[sub[r].scope.session] = "open"
               THEN [@ EXCEPT !.step = "issuing"]
               ELSE Ended(r, "error")]
  /\ UNCHANGED <<authVars, sessionVars, signedFor, request, written>>

(* The token is signed and the window posts with it.  fetchRunStateToken   *)
(* names the capability to ask for; a host that does not listen is one     *)
(* that holds on to a token.                                               *)
Grant(r, j, caps) ==
  /\ At(r, "issuing")
  /\ sub[r].kind \in caps
  /\ Issue(j, caps)
  /\ signedFor' = [signedFor EXCEPT ![j] = sub[r].scope]
  /\ Posted(r, j)
  /\ UNCHANGED <<sessionVars, written>>

(* The session of the body is that of the token: compared by the route and *)
(* once more by persist_run.                                               *)
SameSession(r) == signedFor[request[r].token].session = sub[r].scope.session

(* _verify_run_state_request and its counterpart for coaching, before the  *)
(* body reaches the handler.                                               *)
Verify(r, d) ==
  /\ request[r].at = "route"
  /\ \/ VerifyDenied(request[r].token, d) /\ Answer(r, 401)
     \/ VerifyUnavailable(request[r].token, d) /\ Answer(r, 503)
     \/ /\ VerifyChecked(request[r].token, sub[r].kind, d)
        /\ IF IsRevoked(request[r].token, clock') THEN Answer(r, 401)
           ELSE IF \/ sub[r].kind \notin token[request[r].token].caps
                   \/ ~SameSession(r)
           THEN Answer(r, 403)
           ELSE /\ request' = [request EXCEPT ![r].at = "handler"]
                /\ UNCHANGED sub
  /\ UNCHANGED <<sessionVars, signedFor, written>>

(* The handler is left with the claims: they are the scope of the call.    *)
Claimed(r) == signedFor[request[r].token]

Admitted(r) == HeldBy(Claimed(r)) /\ phase[Claimed(r).session] = "open"

Collides(r) ==
  \E f \in entries[Claimed(r).session] : Ledger!Collide(Row(r), f)

(* bridge_run_state and consume: a new snapshot is appended and receipted. *)
(* No window posts again what may have been stored, so that no submission  *)
(* is its own duplicate.                                                   *)
Persist(r) ==
  /\ request[r].at = "handler" /\ sub[r].kind = Write
  /\ Admitted(r)
  /\ ~Collides(r)
  /\ Ledger!Append(Claimed(r).session, Row(r))
  /\ written' = [written EXCEPT ![r] = request[r].token]
  /\ Answer(r, 200)
  /\ UNCHANGED <<authVars, holder, signedFor>>

(* Mutant: every decision of the store is receipted.                       *)
Conflict_Receipted(r) ==
  /\ request[r].at = "handler" /\ sub[r].kind = Write
  /\ Admitted(r)
  /\ Collides(r)
  /\ Answer(r, 200)
  /\ UNCHANGED <<authVars, sessionVars, signedFor, written>>

Conflict(r) ==
  /\ request[r].at = "handler" /\ sub[r].kind = Write
  /\ Admitted(r)
  /\ Collides(r)
  /\ Answer(r, 409)
  /\ UNCHANGED <<authVars, sessionVars, signedFor, written>>

(* A session of another owner is forbidden; one that ended, is gone or     *)
(* belongs to an earlier process is not available any more.                *)
SessionRejected(r) ==
  /\ request[r].at = "handler"
  /\ ~Admitted(r)
  /\ Answer(r, IF OfAnotherOwner(Claimed(r)) THEN 403 ELSE 410)
  /\ UNCHANGED <<authVars, sessionVars, signedFor, written>>

(* bridge_run_state_coaching: the run asked about is read from the session *)
(* of the token.  What may go wrong with the provider is in BridgeCoaching.*)
Coach(r) ==
  /\ request[r].at = "handler" /\ sub[r].kind = Explain
  /\ Admitted(r)
  /\ Answer(r, IF \E e \in entries[Claimed(r).session] : e.run = sub[r].about
               THEN 200 ELSE 410)
  /\ UNCHANGED <<authVars, sessionVars, signedFor, written>>

(* The store does not get its lock, or the coaching fails: 502 to 504.     *)
CallFails(r) ==
  /\ request[r].at = "handler"
  /\ Answer(r, 503)
  /\ UNCHANGED <<authVars, sessionVars, signedFor, written>>

----------------------------------------------------------------------------
(* What goes on around the requests.                                       *)

outsideAuth == <<sessionVars, signedFor, sub, request, written>>

RevokeToken(j, d) == Revoke(j, d) /\ UNCHANGED outsideAuth

RevocationsToggle == Toggle /\ UNCHANGED outsideAuth

TimePasses == Tick /\ UNCHANGED outsideAuth

(* The process goes down with its requests and comes back; the sessions    *)
(* stay in the database.                                                   *)
RestartService ==
  /\ Restart
  /\ request' = [r \in Submissions |-> NoRequest]
  /\ sub' = [r \in Submissions |->
               IF sub[r].step \in {"establishing", "issuing", "posting"}
               THEN Ended(r, "error") ELSE sub[r]]
  /\ UNCHANGED <<sessionVars, signedFor, written>>

(* Sessions end, are purged or deleted with their projects.                *)
CloseSession(s) ==
  /\ phase[s] = "open"
  /\ Ledger!Close({s})
  /\ UNCHANGED <<authVars, holder, signedFor, sub, request, written>>

ForgetSession(s) ==
  /\ phase[s] # "none"
  /\ Ledger!Forget({s})
  /\ holder' = [holder EXCEPT ![s] = NoHolder]
  /\ UNCHANGED <<authVars, signedFor, sub, request, written>>

ServiceInit ==
  /\ Init
  /\ Ledger!Init
  /\ holder = [s \in Sessions |-> NoHolder]
  /\ signedFor = [j \in TokenIds |-> NoScope]
  /\ sub = [r \in Submissions |-> Fresh]
  /\ request = [r \in Submissions |-> NoRequest]
  /\ written = [r \in Submissions |-> NoToken]
  /\ trouble = 0

WindowStep(r) ==
  \/ \E c \in Clicks : Capture(r, c)
  \/ Decline(r) \/ Confirm(r)
  \/ \E j \in TokenIds : FetchHeld(r, j)
  \/ AskForToken(r)

RouteStep(r) ==
  \/ EstablishNew(r) \/ EstablishKnown(r)
  \/ \E j \in TokenIds, caps \in Grants : Grant(r, j, caps)
  \/ \E d \in 0..MaxDrift : Verify(r, d)
  \/ Persist(r) \/ Conflict(r) \/ SessionRejected(r) \/ Coach(r)

Trouble ==
  \/ \E r \in Submissions :
       \/ \E code \in {401, 503} : ProviderFails(r, code)
       \/ GiveUp(r) \/ CallFails(r)
  \/ \E j \in TokenIds, d \in 0..MaxDrift : RevokeToken(j, d)
  \/ RevocationsToggle \/ RestartService
  \/ \E s \in Sessions : CloseSession(s) \/ ForgetSession(s)

ServiceNext ==
  \/ /\ \/ \E r \in Submissions : WindowStep(r) \/ RouteStep(r)
        \/ TimePasses
     /\ UNCHANGED trouble
  \/ /\ Trouble
     /\ trouble < MaxTrouble
     /\ trouble' = trouble + 1

ServiceSpec == ServiceInit /\ [][ServiceNext]_serviceVars

----------------------------------------------------------------------------

(* An entry is what some user saw in the dialog and agreed to, for that    *)
(* session and under that number; its token allows writing and was signed  *)
(* for the owner and in the process that hold the session.                 *)
EntryConfirmed(s, e) ==
  LET j == written[e.run]
  IN  /\ sub[e.run].confirmed = [kind |-> Write, session |-> s, about |-> e.seq]
      /\ Write \in token[j].caps
      /\ holder[s] = [owner |-> signedFor[j].owner, gen |-> token[j].gen]

(* Whatever is in a session's ledger was agreed to as it is and came from  *)
(* the holder, although sessions are closed, forgotten and established     *)
(* anew while requests that were verified before wait for the store.  And  *)
(* nothing is on its way to the server, for the store or for a model, that *)
(* differs from what was agreed to, in the first post or in the one after  *)
(* a refused token.                                                        *)
OnlyConfirmedWrites ==
  /\ \A s \in Sessions : \A e \in entries[s] : EntryConfirmed(s, e)
  /\ \A r \in Submissions :
       request[r] # NoRequest => sub[r].confirmed = Snapshot(r)

Stored == {r \in Submissions : written[r] # NoToken}

(* What a window tells its user is so, through refused tokens that are     *)
(* fetched again, requests nobody waits for any more, other windows with   *)
(* the same session and sequence number, and restarts: saved was stored;   *)
(* cancelled, in conflict or unavailable was not, and is not stored later; *)
(* a conflict is one with another stored run; explained is a stored run of *)
(* the session.                                                            *)
ReceiptsAreTrue ==
  \A r \in Submissions : sub[r] # Fresh =>
    LET told == sub[r].told
        stored(about) ==
          {q \in Stored : /\ sub[q].scope.session = sub[r].scope.session
                          /\ q = about \/ sub[q].about = about}
    IN  /\ told = "saved" => r \in Stored
        /\ told \in {"cancelled", "conflict", "unavailable"} => r \notin Stored
        /\ told \in {"conflict", "explained"} => stored(sub[r].about) # {}
==============================================================================
