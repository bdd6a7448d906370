----------------------------- MODULE KisClient -----------------------------
(***************************************************************************)
(* Requests to KIS (client.py) and the credentials they carry (auth.py).   *)
(* The daemon and the commands run as processes of their own; each takes   *)
(* its access token, or the key of the web socket, from a file they share, *)
(* or has KIS issue a new one, which puts the one before it out of force.  *)
(* A request is repeated where that cannot do the same thing twice.        *)
(***************************************************************************)
EXTENDS Integers, Sequences, FiniteSets

CONSTANTS
  None,
  Procs,         \* processes that send requests
  Accounts,      \* a base URL and an application key: "real", "paper"
  Path,          \* account -> the cache file configured for it
  RETRIES,       \* _RETRIES
  Validity,      \* how long KIS honours a credential
  Margin,        \* _EXPIRY_MARGIN
  MaxCallTime,   \* timeouts and pauses of one call, from its credential to its end
  MaxTime,       \* bound: time
  MaxIssued,     \* bound: credentials issued
  MayRace        \* may two processes of an account renew the same credential at once?

\* The margin covers a whole call twice: the key's time of issue is taken by the
\* client, when the answer has arrived.
ASSUME KisClientAssumption ==
  /\ RETRIES \in Nat \ {0} /\ MaxCallTime \in Nat
  /\ Margin \in Nat /\ Margin >= 2 * MaxCallTime
  /\ Validity \in Nat /\ Validity > Margin
  /\ {MaxTime, MaxIssued} \subseteq Nat
  /\ Accounts \subseteq {"real", "paper"} /\ DOMAIN Path = Accounts
  /\ MayRace \in BOOLEAN

\* No value is mistaken for a missing one.
ASSUME NoneAssumption ==
  None \notin Int \cup {"query", "real_only", "order", "connect", "ok", "error", "lost"}

Paths == {Path[a] : a \in Accounts}
Kinds == {"token", "approval"}

\* A query, one that only a real account may make, an order, and the opening of
\* the stream.
Calls == {"query", "real_only", "order", "connect"}

VARIABLES
  now,
  issued,      \* the credentials KIS has issued: [kind, account, expires]
  file,        \* kind -> (path -> what can be read there, or None)
  account,     \* process -> the account its settings name
  pc,          \* process -> where it is in _request()
  call,        \* process -> the call it makes
  credential,  \* process -> the number of the credential it carries
  since,       \* process -> when it looked for a credential
  attempt,     \* process -> attempts of the call
  outcome,     \* process -> how the call has ended
  accepted     \* Ghost: process -> how often KIS has executed the call

local == <<pc, call, credential, since, attempt, outcome, accepted>>
vars == <<now, issued, file, account, local>>

Init ==
  /\ now = 0 /\ issued = <<>>
  /\ file = [k \in Kinds |-> [x \in Paths |-> None]]
  /\ account \in [Procs -> Accounts]
  /\ pc = [p \in Procs |-> "idle"]
  /\ call = [p \in Procs |-> None]
  /\ credential = [p \in Procs |-> None]
  /\ since = [p \in Procs |-> None]
  /\ attempt = [p \in Procs |-> 0]
  /\ outcome = [p \in Procs |-> None]
  /\ accepted = [p \in Procs |-> 0]

\* Which of the two managers a call asks, and the file it keeps.
Kind(c) == IF c = "connect" THEN "approval" ELSE "token"
File(p) == file[Kind(call[p])][Path[account[p]]]

\* KIS honours the last credential it issued of a kind to an account, until it
\* expires.
Live(id) ==
  /\ now < issued[id].expires
  /\ \A later \in (id + 1)..Len(issued) :
       \/ issued[later].kind # issued[id].kind
       \/ issued[later].account # issued[id].account

-----------------------------------------------------------------------------
(* The credential of a call. *)

\* KIS says when a token expires; of a key the client knows when it got it.
TokenFresh(written) == now < written.stamp - Margin
KeyFresh(written)   == now < written.stamp + Validity - Margin

Fresh(k, written) == IF k = "token" THEN TokenFresh(written) ELSE KeyFresh(written)

\* Faulty variant: a file is used whoever's key it was written with.
UsableByAnyKey(k, written, a) == written # None /\ Fresh(k, written)

\* _read_cache(): a file that is missing, half written, of another base URL or
\* another key, or close to its expiry is as good as none.
Usable(k, written, a) ==
  /\ written # None
  /\ written.account = a
  /\ Fresh(k, written)

Renewing(p) == pc[p] \in {"issue", "open", "write"}

\* The call ends; its caller has still to see how.
End(p, result) ==
  /\ pc' = [pc EXCEPT ![p] = "done"]
  /\ outcome' = [outcome EXCEPT ![p] = result]
  /\ credential' = [credential EXCEPT ![p] = None]
  /\ since' = [since EXCEPT ![p] = None]
  /\ attempt' = [attempt EXCEPT ![p] = 0]

\* Minute bars and holidays are refused for a paper account before any request.
Supported(c, a) == c = "real_only" => a = "real"

Begin(p, c) ==
  /\ pc[p] = "idle"
  /\ call' = [call EXCEPT ![p] = c]
  /\ IF ~Supported(c, account[p]) THEN End(p, "error")
     ELSE /\ pc' = [pc EXCEPT ![p] = "read"]
          /\ UNCHANGED <<outcome, credential, since, attempt>>
  /\ UNCHANGED <<now, issued, file, account, accepted>>

ReadCache(p) ==
  /\ pc[p] = "read"
  /\ MayRace \/ ~ \E q \in Procs \ {p} :
       Renewing(q) /\ account[q] = account[p] /\ Kind(call[q]) = Kind(call[p])
  /\ since' = [since EXCEPT ![p] = now]
  /\ IF Usable(Kind(call[p]), File(p), account[p])
     THEN /\ credential' = [credential EXCEPT ![p] = File(p).id]
          /\ attempt' = [attempt EXCEPT ![p] = 1]
          /\ pc' = [pc EXCEPT ![p] = "send"]
     ELSE pc' = [pc EXCEPT ![p] = "issue"] /\ UNCHANGED <<credential, attempt>>
  /\ UNCHANGED <<now, issued, file, account, call, outcome, accepted>>

\* What KIS grants to whom.
Grant(p) == [kind |-> Kind(call[p]), account |-> account[p], expires |-> now + Validity]

\* _issue(): KIS refuses, cannot be reached, or issues a credential whose
\* answer may still be lost.
Issue(p) ==
  /\ pc[p] = "issue"
  /\ \/ \E result \in {"error", "lost"} : End(p, result)
        /\ UNCHANGED issued
     \/ /\ Len(issued) < MaxIssued
        /\ issued' = Append(issued, Grant(p))
        /\ \/ End(p, "lost")
           \/ /\ credential' = [credential EXCEPT ![p] = Len(issued')]
              /\ pc' = [pc EXCEPT ![p] = "open"]
              /\ UNCHANGED <<outcome, since, attempt>>
  /\ UNCHANGED <<now, file, account, call, accepted>>

Write(p, content) ==
  file' = [file EXCEPT ![Kind(call[p])][Path[account[p]]] = content]

\* write_text() empties the file before it fills it: until then it reads as none.
OpenFile(p) ==
  /\ pc[p] = "open" /\ pc' = [pc EXCEPT ![p] = "write"]
  /\ Write(p, None)
  /\ UNCHANGED <<now, issued, account, call, credential, since, attempt,
                 outcome, accepted>>

Stamp(p) == IF Kind(call[p]) = "token" THEN issued[credential[p]].expires ELSE now

WriteFile(p) ==
  /\ pc[p] = "write" /\ pc' = [pc EXCEPT ![p] = "send"]
  /\ attempt' = [attempt EXCEPT ![p] = 1]
  /\ Write(p, [id |-> credential[p], account |-> account[p], stamp |-> Stamp(p)])
  /\ UNCHANGED <<now, issued, account, call, credential, since, outcome,
                 accepted>>

-----------------------------------------------------------------------------
(* The request. *)

\* What can come of an attempt: KIS never gets it, turns it down for now, for
\* good or for its credential, or executes it; its answer gets lost, or a gateway
\* answers in its place.
Replies(p) ==
  [executed : {FALSE}, reply : {"none", "throttled", "refused", "garbled"}]
  \cup IF Live(credential[p]) THEN [executed : {TRUE}, reply : {"none", "served", "garbled"}]
       ELSE {}

Method(c) == IF c = "order" THEN "POST" ELSE "GET"

\* TRANSIENT_ERROR_CODES: KIS turns the request down before it looks at it.
Transient(r) == r = "throttled"

\* Faulty variant: whatever got no answer is sent again.
RepeatsAll(p, r) ==
  /\ attempt[p] < RETRIES /\ call[p] # "connect"
  /\ Transient(r) \/ r = "none"

\* Faulty variant: one attempt too many.
RepeatsOnceMore(p, r) ==
  /\ attempt[p] <= RETRIES /\ call[p] # "connect"
  /\ Transient(r) \/ (r = "none" /\ Method(call[p]) = "GET")

\* An order that got no answer is not sent again, it may have been accepted; one
\* that was throttled was not.  The stream has its own way to connect again.
Repeats(p, r) ==
  /\ attempt[p] < RETRIES /\ call[p] # "connect"
  /\ Transient(r) \/ (r = "none" /\ Method(call[p]) = "GET")

\* What the caller gets: the answer, a KisError, or an exception of the transport.
Result(r) ==
  CASE r = "served"                   -> "ok"
    [] r \in {"throttled", "refused"} -> "error"
    [] r \in {"none", "garbled"}      -> "lost"

Attempt(p) ==
  /\ pc[p] = "send"
  /\ \E x \in Replies(p) :
       /\ accepted' = [accepted EXCEPT ![p] = IF x.executed THEN @ + 1 ELSE @]
       /\ IF Repeats(p, x.reply)
          THEN /\ attempt' = [attempt EXCEPT ![p] = @ + 1]
               /\ UNCHANGED <<pc, outcome, credential, since>>
          ELSE End(p, Result(x.reply))
  /\ UNCHANGED <<now, issued, file, account, call>>

-----------------------------------------------------------------------------
\* The caller has the outcome, or the process has died in the call: what it had
\* in memory is gone.
Forget(p) ==
  /\ pc[p] # "idle" /\ pc' = [pc EXCEPT ![p] = "idle"]
  /\ call' = [call EXCEPT ![p] = None]
  /\ credential' = [credential EXCEPT ![p] = None]
  /\ since' = [since EXCEPT ![p] = None]
  /\ attempt' = [attempt EXCEPT ![p] = 0]
  /\ outcome' = [outcome EXCEPT ![p] = None]
  /\ accepted' = [accepted EXCEPT ![p] = 0]
  /\ UNCHANGED <<now, issued, file, account>>

\* A process is started again with other settings: another mode or another key.
Reconfigure(p, a) ==
  /\ pc[p] = "idle" /\ account[p] # a
  /\ account' = [account EXCEPT ![p] = a]
  /\ UNCHANGED <<now, issued, file, local>>

Tick ==
  /\ now < MaxTime
  /\ \A p \in Procs : pc[p] \notin {"idle", "read", "done"} => now < since[p] + MaxCallTime
  /\ now' = now + 1
  /\ UNCHANGED <<issued, file, account, local>>

Next ==
  \/ Tick
  \/ \E p \in Procs :
       \/ \E c \in Calls : Begin(p, c)
       \/ ReadCache(p) \/ Issue(p) \/ OpenFile(p) \/ WriteFile(p)
       \/ Attempt(p) \/ Forget(p)
       \/ \E a \in Accounts : Reconfigure(p, a)

Spec == Init /\ [][Next]_vars

-----------------------------------------------------------------------------
(* Properties. *)

Written == [id : Nat \ {0}, account : Accounts, stamp : Nat]

\* Well-formedness; the attempts of a call are counted to RETRIES.
TypeOK ==
  /\ now \in 0..MaxTime
  /\ issued \in Seq([kind : Kinds, account : Accounts, expires : Nat])
  /\ DOMAIN file = Kinds
  /\ \A k \in Kinds : DOMAIN file[k] = Paths /\ \A x \in Paths :
       LET f == file[k][x]
       IN f = None \/ (f \in Written /\ f.id \in DOMAIN issued)
  /\ account \in [Procs -> Accounts]
  /\ pc \in [Procs -> {"idle", "read", "issue", "open", "write", "send", "done"}]
  /\ call \in [Procs -> Calls \cup {None}]
  /\ credential \in [Procs -> DOMAIN issued \cup {None}]
  /\ since \in [Procs -> (0..now) \cup {None}]
  /\ attempt \in [Procs -> 0..RETRIES]
  /\ outcome \in [Procs -> {None, "ok", "error", "lost"}]
  /\ accepted \in [Procs -> Nat]

\* What a caller is told of an order is true: it was executed once if it was
\* answered, never if it was refused, and at most once if nobody knows
\* (client.py, _request(): orders.status REJECTED and UNKNOWN rest on it).
OrderOutcomeIsTrue ==
  \A p \in Procs :
    call[p] = "order" =>
      /\ accepted[p] <= 1
      /\ outcome[p] = "ok" => accepted[p] = 1
      /\ outcome[p] = "error" => accepted[p] = 0

\* A credential that the file gives to a process is in force and stays so to the
\* end of the call, whatever crashed, was lost or was reconfigured before
\* (auth.py: it is cached and reused until shortly before its expiry).
CachedCredentialIsLive ==
  \A k \in Kinds, a \in Accounts :
    LET f == file[k][Path[a]]
    IN Usable(k, f, a) =>
         /\ issued[f.id].account = a /\ issued[f.id].kind = k
         /\ Live(f.id)
         /\ now + MaxCallTime < issued[f.id].expires
=============================================================================
