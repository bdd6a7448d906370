-------------------------- MODULE KisClientProofs --------------------------
(***************************************************************************)
(* Theorems about KisClient, for every set of processes and accounts, every *)
(* number of attempts and every margin.                                    *)
(***************************************************************************)
EXTENDS KisClient, TLAPS

-----------------------------------------------------------------------------
(* The inductive invariant.                                                *)

\* The local variables of a process are set while the call is where it uses them.
LocalsInPlace ==
  \A p \in Procs :
    /\ pc[p] = "idle" => call[p] = None /\ outcome[p] = None /\ accepted[p] = 0
    /\ pc[p] # "idle" => call[p] \in Calls
    /\ pc[p] \notin {"idle", "done"} => outcome[p] = None
    /\ pc[p] = "done" => outcome[p] # None
    /\ pc[p] \in {"issue", "open", "write", "send"} => since[p] # None
    /\ pc[p] \in {"open", "write", "send"} => credential[p] # None
    /\ pc[p] = "send" => attempt[p] >= 1

\* An order that is still to be sent has not been executed.
NothingSentTwice ==
  \A p \in Procs :
    call[p] = "order" /\ pc[p] # "done" => accepted[p] = 0

OrderInv == TypeOK /\ LocalsInPlace /\ NothingSentTwice /\ OrderOutcomeIsTrue

-----------------------------------------------------------------------------
LEMMA ElementOf ==
  ASSUME NEW S, NEW q \in Seq(S), NEW i \in DOMAIN q
  PROVE  q[i] \in S
OBVIOUS

LEMMA InitOrderInv == Init => OrderInv
<1> SUFFICES ASSUME Init PROVE OrderInv
  OBVIOUS
<1>1. TypeOK
  BY KisClientAssumption DEF Init, TypeOK
<1>2. LocalsInPlace /\ NothingSentTwice /\ OrderOutcomeIsTrue
  BY NoneAssumption DEF Init, LocalsInPlace, NothingSentTwice, OrderOutcomeIsTrue
<1> QED
  BY <1>1, <1>2 DEF OrderInv

\* The types of the variables of a process, given those of the others.
LocalTypes ==
  /\ pc \in [Procs -> {"idle", "read", "issue", "open", "write", "send", "done"}]
  /\ call \in [Procs -> Calls \cup {None}]
  /\ credential \in [Procs -> DOMAIN issued \cup {None}]
  /\ since \in [Procs -> (0..now) \cup {None}]
  /\ attempt \in [Procs -> 0..RETRIES]
  /\ outcome \in [Procs -> {None, "ok", "error", "lost"}]
  /\ accepted \in [Procs -> Nat]

\* The types of the files.
FileTypes ==
  /\ DOMAIN file = Kinds
  /\ \A k \in Kinds : DOMAIN file[k] = Paths
  /\ \A k \in Kinds, x \in Paths :
    file[k][x] = None \/ (file[k][x] \in Written /\ file[k][x].id \in DOMAIN issued)

LEMMA TypeParts == TypeOK => LocalTypes /\ FileTypes
BY DEF TypeOK, LocalTypes, FileTypes

LEMMA TypesKept ==
  ASSUME TypeOK, UNCHANGED <<now, issued, file, account>>, LocalTypes'
  PROVE  TypeOK'
<1>1. FileTypes'
  BY TypeParts DEF FileTypes
<1> QED
  BY <1>1 DEF TypeOK, LocalTypes, FileTypes

\* A call that ends leaves its variables well-formed.
LEMMA EndTypes ==
  ASSUME LocalTypes, NEW p \in Procs, NEW result \in {"ok", "error", "lost"}, End(p, result)
  PROVE  /\ pc' \in [Procs -> {"idle", "read", "issue", "open", "write", "send", "done"}]
         /\ credential' \in [Procs -> DOMAIN issued \cup {None}]
         /\ since' \in [Procs -> (0..now) \cup {None}]
         /\ attempt' \in [Procs -> 0..RETRIES]
         /\ outcome' \in [Procs -> {None, "ok", "error", "lost"}]
BY KisClientAssumption DEF LocalTypes, End

\* Every step keeps the types.
LEMMA TypeStep == TypeOK /\ LocalsInPlace /\ [Next]_vars => TypeOK'
<1> SUFFICES ASSUME TypeOK, LocalsInPlace, [Next]_vars PROVE TypeOK'
  OBVIOUS
<1>0. LocalTypes /\ FileTypes
  BY TypeParts
<1>1. CASE Tick
  <2>1. LocalTypes' /\ FileTypes' /\ now' \in 0..MaxTime
    BY <1>0, <1>1, KisClientAssumption DEF Tick, local, LocalTypes, FileTypes, TypeOK
  <2> QED
    BY <1>1, <2>1 DEF TypeOK, LocalTypes, FileTypes, Tick
<1>2. ASSUME NEW p \in Procs, NEW c \in Calls, Begin(p, c) PROVE TypeOK'
  <2>1. CASE End(p, "error")
    <3>1. LocalTypes'
      BY <1>0, <1>2, <2>1, EndTypes DEF Begin, LocalTypes
    <3> QED
      BY <1>2, <3>1, TypesKept DEF Begin
  <2>2. CASE pc' = [pc EXCEPT ![p] = "read"] /\ UNCHANGED <<outcome, credential, since, attempt>>
    <3>1. LocalTypes'
      BY <1>0, <1>2, <2>2 DEF Begin, LocalTypes
    <3> QED
      BY <1>2, <3>1, TypesKept DEF Begin
  <2> QED
    BY <1>2, <2>1, <2>2 DEF Begin
<1>3. ASSUME NEW p \in Procs, ReadCache(p) PROVE TypeOK'
  <2>1. call[p] \in Calls /\ File(p) = file[Kind(call[p])][Path[account[p]]]
        /\ Kind(call[p]) \in Kinds /\ Path[account[p]] \in Paths
    BY <1>3 DEF ReadCache, LocalsInPlace, File, Kind, Kinds, Paths, TypeOK
  <2>2. now \in 0..now
    BY DEF TypeOK
  <2>3. Usable(Kind(call[p]), File(p), account[p]) => File(p).id \in DOMAIN issued
    BY <1>0, <2>1 DEF Usable, FileTypes
  <2>4. LocalTypes'
    <3>1. since' \in [Procs -> (0..now) \cup {None}]
      BY <1>0, <1>3, <2>2 DEF ReadCache, LocalTypes
    <3>2. CASE Usable(Kind(call[p]), File(p), account[p])
      BY <1>0, <1>3, <2>3, <3>1, <3>2, KisClientAssumption DEF ReadCache, LocalTypes
    <3>3. CASE ~Usable(Kind(call[p]), File(p), account[p])
      BY <1>0, <1>3, <3>1, <3>3 DEF ReadCache, LocalTypes
    <3> QED
      BY <3>2, <3>3
  <2> QED
    BY <1>3, <2>4, TypesKept DEF ReadCache
<1>4. ASSUME NEW p \in Procs, Issue(p) PROVE TypeOK'
  <2>1. CASE UNCHANGED issued /\ \E result \in {"error", "lost"} : End(p, result)
    <3>1. LocalTypes'
      BY <1>0, <1>4, <2>1, EndTypes DEF Issue, LocalTypes
    <3> QED
      BY <1>4, <2>1, <3>1, TypesKept DEF Issue
  <2>2. CASE issued' = Append(issued, Grant(p))
    <3>1. Grant(p) \in [kind : Kinds, account : Accounts, expires : Nat]
      BY <1>4, KisClientAssumption DEF Issue, Grant, Kind, Kinds, TypeOK
    <3>2. /\ issued' \in Seq([kind : Kinds, account : Accounts, expires : Nat])
          /\ DOMAIN issued \subseteq DOMAIN issued' /\ Len(issued') \in DOMAIN issued'
      BY <2>2, <3>1 DEF TypeOK
    <3>3. FileTypes'
      BY <1>0, <1>4, <3>2 DEF FileTypes, Issue
    <3>4. LocalTypes'
      <4>1. CASE End(p, "lost")
        BY <1>0, <1>4, <3>2, <4>1, EndTypes DEF Issue, LocalTypes
      <4>2. CASE UNCHANGED <<outcome, since, attempt>>
                 /\ credential' = [credential EXCEPT ![p] = Len(issued')]
                 /\ pc' = [pc EXCEPT ![p] = "open"]
        BY <1>0, <1>4, <3>2, <4>2 DEF Issue, LocalTypes
      <4> QED
        BY <1>4, <2>2, <4>1, <4>2 DEF Issue
    <3> QED
      BY <1>4, <3>2, <3>3, <3>4 DEF TypeOK, LocalTypes, FileTypes, Issue
  <2> QED
    BY <1>4, <2>1, <2>2 DEF Issue
<1>5. ASSUME NEW p \in Procs, OpenFile(p) PROVE TypeOK'
  <2>1. FileTypes'
    BY <1>0, <1>5 DEF OpenFile, Write, FileTypes
  <2>2. LocalTypes'
    BY <1>0, <1>5 DEF OpenFile, LocalTypes
  <2> QED
    BY <1>5, <2>1, <2>2 DEF TypeOK, LocalTypes, FileTypes, OpenFile
<1>6. ASSUME NEW p \in Procs, WriteFile(p) PROVE TypeOK'
  <2> DEFINE content == [id |-> credential[p], account |-> account[p], stamp |-> Stamp(p)]
  <2>1. credential[p] \in DOMAIN issued
    BY <1>0, <1>6 DEF WriteFile, LocalsInPlace, LocalTypes
  <2>2. Stamp(p) \in Nat
    <3>1. issued[credential[p]] \in [kind : Kinds, account : Accounts, expires : Nat]
      <4>1. issued \in Seq([kind : Kinds, account : Accounts, expires : Nat])
        BY DEF TypeOK
      <4> QED
        BY <2>1, <4>1, ElementOf
    <3>2. issued[credential[p]].expires \in Nat /\ now \in Nat
      BY <3>1, KisClientAssumption DEF TypeOK
    <3> QED
      BY <3>2 DEF Stamp
  <2>3. content \in Written /\ content.id \in DOMAIN issued
    <3>1. credential[p] \in Nat \ {0} /\ account[p] \in Accounts
      BY <2>1 DEF TypeOK
    <3> QED
      BY <2>1, <2>2, <3>1 DEF Written
  <2> HIDE DEF content
  <2>4. file' = [file EXCEPT ![Kind(call[p])][Path[account[p]]] = content]
    BY <1>6 DEF WriteFile, Write, content
  <2>5. /\ DOMAIN file' = Kinds
        /\ \A k \in Kinds : DOMAIN file'[k] = Paths
        /\ \A k \in Kinds, x \in Paths : file'[k][x] \in {file[k][x], content}
    <3> DEFINE k0 == Kind(call[p])
               x0 == Path[account[p]]
    <3>1. k0 \in Kinds /\ x0 \in Paths
      BY DEF Kind, Kinds, Paths, TypeOK
    <3> HIDE DEF k0, x0
    <3>2. DOMAIN file = Kinds /\ \A k \in Kinds : DOMAIN file[k] = Paths
      BY DEF TypeOK
    <3>3. file' = [file EXCEPT ![k0][x0] = content]
      BY <2>4 DEF k0, x0
    <3>4. file'[k0] = [file[k0] EXCEPT ![x0] = content]
          /\ \A k \in Kinds \ {k0} : file'[k] = file[k]
      BY <3>1, <3>2, <3>3
    <3> QED
      BY <3>1, <3>2, <3>3, <3>4
  <2>6. FileTypes'
    BY <1>0, <1>6, <2>3, <2>5 DEF FileTypes, WriteFile
  <2>7. LocalTypes'
    BY <1>0, <1>6, KisClientAssumption DEF WriteFile, LocalTypes
  <2> QED
    BY <1>6, <2>6, <2>7 DEF TypeOK, LocalTypes, FileTypes, WriteFile
<1>7. ASSUME NEW p \in Procs, Attempt(p) PROVE TypeOK'
  <2> PICK x \in Replies(p) :
        /\ accepted' = [accepted EXCEPT ![p] = IF x.executed THEN @ + 1 ELSE @]
        /\ IF Repeats(p, x.reply)
           THEN /\ attempt' = [attempt EXCEPT ![p] = @ + 1]
                /\ UNCHANGED <<pc, outcome, credential, since>>
           ELSE End(p, Result(x.reply))
    BY <1>7 DEF Attempt
  <2>1. accepted' \in [Procs -> Nat]
    BY <1>0 DEF LocalTypes
  <2>2. CASE Repeats(p, x.reply)
    <3>1. LocalTypes'
      BY <1>0, <1>7, <2>1, <2>2, KisClientAssumption DEF Attempt, Repeats, LocalTypes
    <3> QED
      BY <1>7, <3>1, TypesKept DEF Attempt
  <2>3. CASE ~Repeats(p, x.reply)
    <3>1. x.reply \in {"none", "throttled", "refused", "garbled", "served"}
      BY DEF Replies
    <3>2. Result(x.reply) \in {"ok", "error", "lost"}
      BY <3>1 DEF Result
    <3>3. End(p, Result(x.reply))
      BY <2>3
    <3>4. LocalTypes'
      BY <1>0, <1>7, <2>1, <3>2, <3>3, EndTypes DEF Attempt, LocalTypes
    <3> QED
      BY <1>7, <3>4, TypesKept DEF Attempt
  <2> QED
    BY <2>2, <2>3
<1>8. ASSUME NEW p \in Procs, Forget(p) PROVE TypeOK'
  <2>1. LocalTypes'
    BY <1>0, <1>8, KisClientAssumption DEF Forget, LocalTypes
  <2> QED
    BY <1>8, <2>1, TypesKept DEF Forget
<1>9. ASSUME NEW p \in Procs, NEW a \in Accounts, Reconfigure(p, a) PROVE TypeOK'
  <2>1. LocalTypes' /\ FileTypes'
    BY <1>0, <1>9 DEF Reconfigure, local, LocalTypes, FileTypes
  <2> QED
    BY <1>9, <2>1 DEF TypeOK, LocalTypes, FileTypes, Reconfigure
<1>10. CASE UNCHANGED vars
  <2>1. LocalTypes'
    BY <1>0, <1>10 DEF vars, local, LocalTypes
  <2> QED
    BY <1>10, <2>1, TypesKept DEF vars
<1> QED
  BY <1>1, <1>2, <1>3, <1>4, <1>5, <1>6, <1>7, <1>8, <1>9, <1>10 DEF Next

\* A call ends as it was answered, and an order is sent again only after an
\* answer that says that it was not executed.
LEMMA OrderStep == OrderInv /\ [Next]_vars => (LocalsInPlace /\ NothingSentTwice /\ OrderOutcomeIsTrue)'
<1> SUFFICES ASSUME OrderInv, [Next]_vars
             PROVE  (LocalsInPlace /\ NothingSentTwice /\ OrderOutcomeIsTrue)'
  OBVIOUS
<1> USE DEF OrderInv, TypeOK, LocalsInPlace, NothingSentTwice, OrderOutcomeIsTrue, local, vars
<1>1. CASE Tick
  BY <1>1 DEF Tick
<1>2. ASSUME NEW p \in Procs, NEW c \in Calls, Begin(p, c)
      PROVE  (LocalsInPlace /\ NothingSentTwice /\ OrderOutcomeIsTrue)'
  BY <1>2, NoneAssumption DEF Begin, End, Supported, Calls
<1>3. ASSUME NEW p \in Procs, ReadCache(p)
      PROVE  (LocalsInPlace /\ NothingSentTwice /\ OrderOutcomeIsTrue)'
  <2>1. CASE Usable(Kind(call[p]), File(p), account[p])
    <3>1. File(p).id \in Nat
      BY <1>3, <2>1 DEF ReadCache, Usable, File, Kind, Kinds, Paths, Written
    <3> QED
      BY <1>3, <2>1, <3>1, NoneAssumption DEF ReadCache
  <2>2. CASE ~Usable(Kind(call[p]), File(p), account[p])
    BY <1>3, <2>2, NoneAssumption DEF ReadCache
  <2> QED
    BY <2>1, <2>2
<1>4. ASSUME NEW p \in Procs, Issue(p)
      PROVE  (LocalsInPlace /\ NothingSentTwice /\ OrderOutcomeIsTrue)'
  <2>1. issued' # issued => Len(issued') \in Nat
    BY <1>4 DEF Issue
  <2> QED
    BY <1>4, <2>1, NoneAssumption DEF Issue, End
<1>5. ASSUME NEW p \in Procs, OpenFile(p)
      PROVE  (LocalsInPlace /\ NothingSentTwice /\ OrderOutcomeIsTrue)'
  BY <1>5 DEF OpenFile
<1>6. ASSUME NEW p \in Procs, WriteFile(p)
      PROVE  (LocalsInPlace /\ NothingSentTwice /\ OrderOutcomeIsTrue)'
  BY <1>6 DEF WriteFile
<1>7. ASSUME NEW p \in Procs, Attempt(p)
      PROVE  (LocalsInPlace /\ NothingSentTwice /\ OrderOutcomeIsTrue)'
  <2> PICK x \in Replies(p) :
        /\ accepted' = [accepted EXCEPT ![p] = IF x.executed THEN @ + 1 ELSE @]
        /\ IF Repeats(p, x.reply)
           THEN /\ attempt' = [attempt EXCEPT ![p] = @ + 1]
                /\ UNCHANGED <<pc, outcome, credential, since>>
           ELSE End(p, Result(x.reply))
    BY <1>7 DEF Attempt
  <2>1. /\ x.executed => x.reply \in {"none", "served", "garbled"}
        /\ ~x.executed => x.reply \in {"none", "throttled", "refused", "garbled"}
        /\ x.executed \in BOOLEAN
    BY DEF Replies
  <2>2. CASE Repeats(p, x.reply)
    <3>1. call[p] = "order" => ~x.executed
      BY <2>1, <2>2 DEF Repeats, Transient, Method
    <3> QED
      BY <1>7, <2>2, <3>1 DEF Attempt
  <2>3. CASE ~Repeats(p, x.reply)
    <3>1. /\ Result(x.reply) = "ok" => x.executed
          /\ Result(x.reply) = "error" => ~x.executed
          /\ Result(x.reply) \in {"ok", "error", "lost"}
      BY <2>1 DEF Result
    <3> QED
      BY <1>7, <2>1, <2>3, <3>1, NoneAssumption DEF Attempt, End
  <2> QED
    BY <2>2, <2>3
<1>8. ASSUME NEW p \in Procs, Forget(p)
      PROVE  (LocalsInPlace /\ NothingSentTwice /\ OrderOutcomeIsTrue)'
  BY <1>8, NoneAssumption DEF Forget
<1>9. ASSUME NEW p \in Procs, NEW a \in Accounts, Reconfigure(p, a)
      PROVE  (LocalsInPlace /\ NothingSentTwice /\ OrderOutcomeIsTrue)'
  BY <1>9 DEF Reconfigure
<1>10. CASE UNCHANGED vars
  BY <1>10
<1> QED
  BY <1>1, <1>2, <1>3, <1>4, <1>5, <1>6, <1>7, <1>8, <1>9, <1>10 DEF Next

LEMMA OrderInvariant == Spec => []OrderInv
<1>1. Init => OrderInv
  BY InitOrderInv
<1>2. OrderInv /\ [Next]_vars => OrderInv'
  BY TypeStep, OrderStep DEF OrderInv
<1> QED
  BY <1>1, <1>2, PTL DEF Spec

\* The variables are well-formed, and no call makes more than RETRIES attempts
\* (client.py, _request()).
THEOREM TypesAreCorrect == Spec => []TypeOK
BY OrderInvariant, PTL DEF OrderInv

\* What a caller is told of an order is true, for any number of processes and
\* attempts (client.py, _request()).
THEOREM OrdersAreReportedTruly == Spec => []OrderOutcomeIsTrue
BY OrderInvariant, PTL DEF OrderInv

-----------------------------------------------------------------------------
(* The files, if no two processes of an account renew a credential at once. *)

\* No credential of the kind and the account has been issued since.
Latest(id, k, a) ==
  \A later \in (id + 1)..Len(issued) :
    issued[later].kind = k => issued[later].account # a

\* A file says of its credential what KIS would say, the time of a key up to
\* the length of a call.
FilesAreTrue ==
  \A k \in Kinds, x \in Paths :
    LET f == file[k][x]
    IN f # None =>
         /\ issued[f.id].kind = k /\ issued[f.id].account = f.account
         /\ k = "token" => f.stamp <= issued[f.id].expires
         /\ k = "approval" => f.stamp + Validity <= issued[f.id].expires + MaxCallTime

\* The time a call may take runs from its look at the file.
CallsEndInTime ==
  \A p \in Procs :
    pc[p] \in {"issue", "open", "write", "send"} =>
      since[p] \in Nat /\ since[p] <= now /\ now <= since[p] + MaxCallTime

RenewalIsAlone ==
  \A p, q \in Procs :
    p # q /\ Renewing(p) /\ Renewing(q) /\ account[p] = account[q]
      => Kind(call[p]) # Kind(call[q])

RenewalFindsNothing ==
  \A p \in Procs : Renewing(p) => ~Usable(Kind(call[p]), File(p), account[p])

\* What is about to be written is in force.
RenewalIsLatest ==
  \A p \in Procs :
    pc[p] \in {"open", "write"} =>
      /\ issued[credential[p]].kind = Kind(call[p])
      /\ issued[credential[p]].account = account[p]
      /\ issued[credential[p]].expires >= since[p] + Validity
      /\ Latest(credential[p], Kind(call[p]), account[p])

\* What can be used has not been put out of force.
FilesAreLatest ==
  \A k \in Kinds, a \in Accounts :
    Usable(k, file[k][Path[a]], a) => Latest(file[k][Path[a]].id, k, a)

CacheInv ==
  /\ OrderInv
  /\ FilesAreTrue /\ CallsEndInTime
  /\ RenewalIsAlone /\ RenewalFindsNothing /\ RenewalIsLatest
  /\ FilesAreLatest

\* The numbers of a file and of a credential.
LEMMA FileNumbers ==
  ASSUME OrderInv, NEW k \in Kinds, NEW x \in Paths, file[k][x] # None
  PROVE  /\ file[k][x] \in Written /\ file[k][x].id \in 1..Len(issued)
         /\ file[k][x].stamp \in Nat /\ issued[file[k][x].id].expires \in Nat
<1>1. file[k][x] \in Written /\ file[k][x].id \in DOMAIN issued
  BY DEF OrderInv, TypeOK
<1>2. issued \in Seq([kind : Kinds, account : Accounts, expires : Nat])
  BY DEF OrderInv, TypeOK
<1>3. issued[file[k][x].id] \in [kind : Kinds, account : Accounts, expires : Nat]
  BY <1>1, <1>2, ElementOf
<1> QED
  BY <1>1, <1>2, <1>3 DEF Written

LEMMA CacheInvIsEnough == CacheInv => CachedCredentialIsLive
<1> SUFFICES ASSUME CacheInv, NEW k \in Kinds, NEW a \in Accounts,
                    Usable(k, file[k][Path[a]], a)
             PROVE  LET f == file[k][Path[a]]
                    IN /\ issued[f.id].account = a /\ issued[f.id].kind = k
                       /\ Live(f.id)
                       /\ now + MaxCallTime < issued[f.id].expires
  BY DEF CachedCredentialIsLive
<1> DEFINE f == file[k][Path[a]]
<1>1. f # None /\ f.account = a /\ Fresh(k, f) /\ Path[a] \in Paths
  BY DEF Usable, Paths
<1>2. f.id \in 1..Len(issued) /\ f.stamp \in Nat /\ issued[f.id].expires \in Nat
  BY <1>1, FileNumbers DEF CacheInv
<1>3. issued[f.id].account = a /\ issued[f.id].kind = k
  BY <1>1 DEF CacheInv, FilesAreTrue
<1>4. now + MaxCallTime < issued[f.id].expires
  <2>1. now \in Nat
    BY KisClientAssumption DEF CacheInv, OrderInv, TypeOK
  <2>2. CASE k = "token"
    <3>1. now < f.stamp - Margin /\ f.stamp <= issued[f.id].expires
      BY <1>1, <2>2 DEF Fresh, TokenFresh, CacheInv, FilesAreTrue
    <3> HIDE DEF f
    <3> QED
      BY <1>2, <2>1, <3>1, KisClientAssumption
  <2>3. CASE k = "approval"
    <3>1. /\ now < f.stamp + Validity - Margin
          /\ f.stamp + Validity <= issued[f.id].expires + MaxCallTime
      BY <1>1, <2>3 DEF Fresh, KeyFresh, CacheInv, FilesAreTrue
    <3> HIDE DEF f
    <3> QED
      BY <1>2, <2>1, <3>1, KisClientAssumption
  <2> QED
    BY <2>2, <2>3 DEF Kinds
<1>5. Live(f.id)
  <2>1. Latest(f.id, k, a)
    BY DEF CacheInv, FilesAreLatest
  <2>2. now < issued[f.id].expires
    <3> HIDE DEF f
    <3> QED
      BY <1>2, <1>4, KisClientAssumption DEF CacheInv, OrderInv, TypeOK
  <2> QED
    BY <1>3, <2>1, <2>2 DEF Live, Latest
<1> QED
  BY <1>3, <1>4, <1>5

LEMMA InitCacheInv == Init => CacheInv
<1> SUFFICES ASSUME Init PROVE CacheInv
  OBVIOUS
<1>1. FilesAreTrue /\ FilesAreLatest
  BY DEF Init, FilesAreTrue, FilesAreLatest, Usable, Paths
<1>2. CallsEndInTime /\ RenewalIsAlone /\ RenewalFindsNothing /\ RenewalIsLatest
  BY DEF Init, CallsEndInTime, RenewalIsAlone, RenewalFindsNothing, RenewalIsLatest,
         Renewing
<1> QED
  BY <1>1, <1>2, InitOrderInv DEF CacheInv

CacheParts ==
  /\ FilesAreTrue /\ CallsEndInTime
  /\ RenewalIsAlone /\ RenewalFindsNothing /\ RenewalIsLatest
  /\ FilesAreLatest

\* A step that leaves clock, credentials, files and accounts alone, and begins
\* no renewal, keeps everything.
LEMMA QuietStep ==
  ASSUME CacheInv, UNCHANGED <<now, issued, file, account>>,
         \A p \in Procs :
           \/ /\ pc'[p] = pc[p] /\ call'[p] = call[p]
              /\ since'[p] = since[p] /\ credential'[p] = credential[p]
           \/ pc'[p] \in {"idle", "read", "done"}
           \/ /\ pc'[p] = "send"
              /\ since'[p] = since[p] \/ since'[p] = now
              /\ pc[p] \in {"issue", "open", "write", "send"} \/ since'[p] = now
  PROVE  CacheParts'
<1> USE DEF CacheInv
<1>1. FilesAreTrue' /\ FilesAreLatest'
  BY DEF FilesAreTrue, FilesAreLatest, Usable, Fresh, TokenFresh, KeyFresh, Latest
<1>2. CallsEndInTime'
  <2>1. now \in Nat
    BY KisClientAssumption DEF OrderInv, TypeOK
  <2> QED
    BY <2>1, KisClientAssumption DEF CallsEndInTime
<1>3. \A p \in Procs : Renewing(p)' => /\ Renewing(p) /\ pc'[p] = pc[p] /\ call'[p] = call[p]
                                       /\ since'[p] = since[p] /\ credential'[p] = credential[p]
  BY DEF Renewing
<1>4. RenewalIsAlone'
  BY <1>3 DEF RenewalIsAlone, Kind
<1>5. RenewalFindsNothing'
  BY <1>3 DEF RenewalFindsNothing, Kind, File, Usable, Fresh, TokenFresh, KeyFresh
<1>6. RenewalIsLatest'
  BY <1>3 DEF RenewalIsLatest, Renewing, Kind, Latest
<1> QED
  BY <1>1, <1>2, <1>4, <1>5, <1>6 DEF CacheParts

LEMMA CacheStep ==
  ASSUME MayRace = FALSE, CacheInv, OrderInv', [Next]_vars
  PROVE  CacheParts'
<1> USE DEF CacheInv
<1>0. now \in Nat /\ OrderInv /\ TypeOK /\ LocalsInPlace
  BY KisClientAssumption DEF OrderInv, TypeOK
<1>1. CASE Tick
  <2>1. \A k \in Kinds, a \in Accounts :
          Usable(k, file[k][Path[a]], a)' => Usable(k, file[k][Path[a]], a)
    <3> SUFFICES ASSUME NEW k \in Kinds, NEW a \in Accounts,
                        Usable(k, file[k][Path[a]], a)'
                 PROVE  Usable(k, file[k][Path[a]], a)
      OBVIOUS
    <3>1. file' = file /\ now' = now + 1 /\ file[k][Path[a]] # None /\ Path[a] \in Paths
      BY <1>1 DEF Tick, Usable, Paths
    <3>2. file[k][Path[a]].stamp \in Nat
      BY <1>0, <3>1, FileNumbers
    <3> QED
      BY <1>0, <3>1, <3>2, KisClientAssumption DEF Usable, Fresh, TokenFresh, KeyFresh, Kinds
  <2>2. FilesAreTrue' /\ FilesAreLatest'
    BY <1>1, <2>1 DEF Tick, FilesAreTrue, FilesAreLatest, Latest
  <2>3. CallsEndInTime'
    BY <1>0, <1>1, KisClientAssumption DEF Tick, local, CallsEndInTime
  <2>4. RenewalIsAlone' /\ RenewalIsLatest'
    BY <1>1 DEF Tick, local, RenewalIsAlone, RenewalIsLatest, Renewing, Kind, Latest
  <2>5. RenewalFindsNothing'
    <3> SUFFICES ASSUME NEW p \in Procs, Renewing(p)', Usable(Kind(call[p]), File(p), account[p])'
                 PROVE  FALSE
      BY DEF RenewalFindsNothing
    <3>1. Renewing(p) /\ Kind(call[p]) \in Kinds /\ account[p] \in Accounts
      BY <1>0, <1>1 DEF Tick, local, Renewing, Kind, Kinds, TypeOK
    <3>2. Usable(Kind(call[p]), File(p), account[p])
      BY <1>1, <2>1, <3>1 DEF Tick, local, File, Kind
    <3> QED
      BY <3>1, <3>2 DEF RenewalFindsNothing
  <2> QED
    BY <2>2, <2>3, <2>4, <2>5 DEF CacheParts
<1>2. ASSUME NEW p \in Procs, NEW c \in Calls, Begin(p, c) PROVE CacheParts'
  BY <1>0, <1>2, QuietStep DEF Begin, End, TypeOK
<1>3. ASSUME NEW p \in Procs, ReadCache(p) PROVE CacheParts'
  <2>1. CASE Usable(Kind(call[p]), File(p), account[p])
    BY <1>0, <1>3, <2>1, QuietStep DEF ReadCache, TypeOK
  <2>2. CASE ~Usable(Kind(call[p]), File(p), account[p])
    <3>1. /\ pc' = [pc EXCEPT ![p] = "issue"] /\ since' = [since EXCEPT ![p] = now]
          /\ UNCHANGED <<now, issued, file, account, call, credential>>
          /\ ~ \E q \in Procs \ {p} : Renewing(q) /\ account[q] = account[p]
                                      /\ Kind(call[q]) = Kind(call[p])
      BY <1>3, <2>2 DEF ReadCache
    <3>2. FilesAreTrue' /\ FilesAreLatest'
      BY <3>1 DEF FilesAreTrue, FilesAreLatest, Usable, Fresh, TokenFresh, KeyFresh, Latest
    <3>3. CallsEndInTime'
      BY <1>0, <3>1, KisClientAssumption DEF CallsEndInTime, TypeOK
    <3>4. RenewalIsAlone'
      BY <1>0, <3>1 DEF RenewalIsAlone, Renewing, Kind, TypeOK
    <3>5. RenewalFindsNothing'
      BY <1>0, <2>2, <3>1 DEF RenewalFindsNothing, Renewing, Kind, File, Usable, Fresh,
                             TokenFresh, KeyFresh, TypeOK
    <3>6. RenewalIsLatest'
      BY <1>0, <3>1 DEF RenewalIsLatest, Kind, Latest, TypeOK
    <3> QED
      BY <3>2, <3>3, <3>4, <3>5, <3>6 DEF CacheParts
  <2> QED
    BY <2>1, <2>2
<1>7. ASSUME NEW p \in Procs, Attempt(p) PROVE CacheParts'
  BY <1>0, <1>7, QuietStep DEF Attempt, End, TypeOK
<1>8. ASSUME NEW p \in Procs, Forget(p) PROVE CacheParts'
  BY <1>0, <1>8, QuietStep DEF Forget, TypeOK
<1>9. ASSUME NEW p \in Procs, NEW a \in Accounts, Reconfigure(p, a) PROVE CacheParts'
  <2>1. /\ pc[p] = "idle" /\ account' = [account EXCEPT ![p] = a]
        /\ UNCHANGED <<now, issued, file, pc, call, credential, since>>
    BY <1>9 DEF Reconfigure, local
  <2>2. FilesAreTrue' /\ FilesAreLatest'
    BY <2>1 DEF FilesAreTrue, FilesAreLatest, Usable, Fresh, TokenFresh, KeyFresh, Latest
  <2>3. CallsEndInTime'
    BY <2>1 DEF CallsEndInTime
  <2>4. \A q \in Procs : Renewing(q)' => Renewing(q) /\ account'[q] = account[q]
    BY <1>0, <2>1 DEF Renewing, TypeOK
  <2>5. RenewalIsAlone' /\ RenewalIsLatest'
    BY <2>1, <2>4 DEF RenewalIsAlone, RenewalIsLatest, Renewing, Kind, Latest
  <2>6. RenewalFindsNothing'
    BY <2>1, <2>4 DEF RenewalFindsNothing, Kind, File, Usable, Fresh, TokenFresh, KeyFresh
  <2> QED
    BY <2>2, <2>3, <2>5, <2>6 DEF CacheParts
<1>10. CASE UNCHANGED vars
  BY <1>10, QuietStep DEF vars, local
<1>4. ASSUME NEW p \in Procs, Issue(p) PROVE CacheParts'
  <2> DEFINE k0 == Kind(call[p])
             a0 == account[p]
             S  == [kind : Kinds, account : Accounts, expires : Nat]
  <2>0. pc[p] = "issue" /\ Renewing(p) /\ UNCHANGED <<now, file, account, call>>
    BY <1>4 DEF Issue, Renewing
  <2>1. CASE UNCHANGED issued
    BY <1>0, <1>4, <2>0, <2>1, QuietStep DEF Issue, End, TypeOK
  <2>2. CASE issued' = Append(issued, Grant(p))
    <3>1. issued \in Seq(S) /\ Grant(p) \in S
      BY <1>0, <2>0, KisClientAssumption DEF Grant, Kind, Kinds, TypeOK
    <3>2. /\ Len(issued) \in Nat /\ Len(issued') = Len(issued) + 1
          /\ \A i \in 1..Len(issued) : issued'[i] = issued[i]
          /\ issued'[Len(issued) + 1] = Grant(p)
      BY <2>2, <3>1
    <3>3. \A q \in Procs \ {p} : /\ pc'[q] = pc[q] /\ since'[q] = since[q]
                                 /\ credential'[q] = credential[q]
      BY <1>0, <1>4, <2>2 DEF Issue, End, TypeOK
    <3>4. \/ pc'[p] = "done"
          \/ /\ pc'[p] = "open" /\ since'[p] = since[p]
             /\ credential'[p] = Len(issued) + 1
      BY <1>0, <1>4, <2>2, <3>2 DEF Issue, End, TypeOK
    <3>5. ASSUME NEW id \in 1..Len(issued), NEW k \in Kinds, NEW a \in Accounts,
                 Latest(id, k, a), k # k0 \/ a # a0
          PROVE  Latest(id, k, a)'
      BY <3>2, <3>5 DEF Latest, Grant
    <3>6. ASSUME NEW k \in Kinds, NEW x \in Paths, file[k][x] # None
          PROVE  file[k][x].id \in 1..Len(issued)
                 /\ issued'[file[k][x].id] = issued[file[k][x].id]
      BY <3>2, <3>6, FileNumbers
    <3>7. FilesAreTrue'
      BY <2>0, <3>6 DEF FilesAreTrue
    <3>8. FilesAreLatest'
      <4> SUFFICES ASSUME NEW k \in Kinds, NEW a \in Accounts,
                          Usable(k, file[k][Path[a]], a)'
                   PROVE  Latest(file[k][Path[a]].id, k, a)'
        BY <2>0 DEF FilesAreLatest
      <4>1. Usable(k, file[k][Path[a]], a) /\ Path[a] \in Paths
        BY <2>0 DEF Usable, Fresh, TokenFresh, KeyFresh, Paths
      <4>2. k # k0 \/ a # a0
        BY <2>0, <4>1 DEF RenewalFindsNothing, File
      <4>3. file[k][Path[a]].id \in 1..Len(issued)
        BY <3>6, <4>1 DEF Usable
      <4>4. Latest(file[k][Path[a]].id, k, a)
        BY <4>1 DEF FilesAreLatest
      <4> QED
        BY <2>0, <3>5, <4>2, <4>3, <4>4
    <3>9. CallsEndInTime'
      BY <2>0, <3>3, <3>4 DEF CallsEndInTime
    <3>10. \A q \in Procs : Renewing(q)' => Renewing(q)
      BY <2>0, <3>3 DEF Renewing
    <3>11. RenewalIsAlone'
      BY <2>0, <3>10 DEF RenewalIsAlone, Kind
    <3>12. RenewalFindsNothing'
      BY <2>0, <3>10 DEF RenewalFindsNothing, Kind, File, Usable, Fresh, TokenFresh, KeyFresh
    <3>13. RenewalIsLatest'
      <4> SUFFICES ASSUME NEW q \in Procs, pc'[q] \in {"open", "write"}
                   PROVE  /\ issued'[credential'[q]].kind = Kind(call[q])
                          /\ issued'[credential'[q]].account = account[q]
                          /\ issued'[credential'[q]].expires >= since'[q] + Validity
                          /\ Latest(credential[q], Kind(call[q]), account[q])'
        BY <2>0 DEF RenewalIsLatest, Kind
      <4>1. CASE q = p
        <5>1. since'[p] = since[p] /\ credential'[p] = Len(issued) + 1
          BY <3>4, <4>1
        <5>2. since[p] \in Nat /\ since[p] <= now
          BY <2>0 DEF CallsEndInTime
        <5>3. Latest(credential[p], Kind(call[p]), account[p])'
          BY <3>2, <5>1 DEF Latest
        <5>4. Grant(p).expires >= since[p] + Validity
          BY <1>0, <5>2, KisClientAssumption DEF Grant
        <5> QED
          BY <3>2, <4>1, <5>1, <5>3, <5>4 DEF Grant
      <4>2. CASE q # p
        <5>1. Renewing(q) /\ pc[q] \in {"open", "write"} /\ credential'[q] = credential[q]
              /\ since'[q] = since[q]
          BY <3>3, <4>2 DEF Renewing
        <5>2. Kind(call[q]) # k0 \/ account[q] # a0
          BY <2>0, <4>2, <5>1 DEF RenewalIsAlone
        <5>3. credential[q] \in 1..Len(issued)
          BY <1>0, <3>1, <5>1 DEF LocalsInPlace, TypeOK
        <5>4. Latest(credential[q], Kind(call[q]), account[q])
          BY <5>1 DEF RenewalIsLatest
        <5>5. Kind(call[q]) \in Kinds /\ account[q] \in Accounts
          BY <1>0 DEF Kind, Kinds, TypeOK
        <5>6. Latest(credential[q], Kind(call[q]), account[q])'
          BY <2>0, <3>5, <5>1, <5>2, <5>3, <5>4, <5>5 DEF Kind
        <5> QED
          BY <3>2, <5>1, <5>3, <5>6 DEF RenewalIsLatest
      <4> QED
        BY <4>1, <4>2
    <3> QED
      BY <3>7, <3>8, <3>9, <3>11, <3>12, <3>13 DEF CacheParts
  <2> QED
    BY <1>4, <2>1, <2>2 DEF Issue
<1>5. ASSUME NEW p \in Procs, OpenFile(p) PROVE CacheParts'
  <2>1. /\ pc[p] = "open" /\ pc' = [pc EXCEPT ![p] = "write"]
        /\ UNCHANGED <<now, issued, account, call, credential, since>>
        /\ \A k \in Kinds, x \in Paths : file'[k][x] \in {file[k][x], None}
    BY <1>0, <1>5 DEF OpenFile, Write, TypeOK
  <2>2. FilesAreTrue' /\ FilesAreLatest'
    BY <2>1 DEF FilesAreTrue, FilesAreLatest, Usable, Fresh, TokenFresh, KeyFresh, Latest, Paths
  <2>3. CallsEndInTime'
    BY <1>0, <2>1 DEF CallsEndInTime, TypeOK
  <2>4. \A q \in Procs : /\ Renewing(q)' => Renewing(q)
                         /\ pc'[q] \in {"open", "write"} => pc[q] \in {"open", "write"}
    BY <1>0, <2>1 DEF Renewing, TypeOK
  <2>5. RenewalIsAlone' /\ RenewalIsLatest'
    BY <2>1, <2>4 DEF RenewalIsAlone, RenewalIsLatest, Kind, Latest
  <2>6. RenewalFindsNothing'
    <3> SUFFICES ASSUME NEW q \in Procs, Renewing(q)'
                 PROVE  ~Usable(Kind(call[q]), File(q), account[q])'
      BY DEF RenewalFindsNothing
    <3>1. File(q)' \in {File(q), None}
      BY <1>0, <2>1 DEF File, Kind, Kinds, Paths, TypeOK
    <3> QED
      BY <2>1, <2>4, <3>1 DEF RenewalFindsNothing, Usable, Fresh, TokenFresh, KeyFresh, Kind
  <2> QED
    BY <2>2, <2>3, <2>5, <2>6 DEF CacheParts
<1>6. ASSUME NEW p \in Procs, WriteFile(p) PROVE CacheParts'
  <2> DEFINE k0 == Kind(call[p])
             x0 == Path[account[p]]
             content == [id |-> credential[p], account |-> account[p], stamp |-> Stamp(p)]
  <2>1. /\ pc[p] = "write" /\ pc' = [pc EXCEPT ![p] = "send"] /\ Renewing(p)
        /\ UNCHANGED <<now, issued, account, call, credential, since>>
        /\ file' = [file EXCEPT ![k0][x0] = content]
    BY <1>6 DEF WriteFile, Write, Renewing
  <2>2. k0 \in Kinds /\ x0 \in Paths /\ account[p] \in Accounts
    BY <1>0 DEF Kind, Kinds, Paths, TypeOK
  <2>3. \A k \in Kinds, x \in Paths :
          file'[k][x] = IF k = k0 /\ x = x0 THEN content ELSE file[k][x]
    <3> HIDE DEF k0, x0, content
    <3>1. DOMAIN file = Kinds /\ \A k \in Kinds : DOMAIN file[k] = Paths
      BY <1>0 DEF TypeOK
    <3>2. file'[k0] = [file[k0] EXCEPT ![x0] = content]
          /\ \A k \in Kinds \ {k0} : file'[k] = file[k]
      BY <2>1, <2>2, <3>1
    <3> QED
      BY <2>2, <3>1, <3>2
  <2>4. /\ issued[credential[p]].kind = k0 /\ issued[credential[p]].account = account[p]
        /\ issued[credential[p]].expires >= since[p] + Validity
        /\ Latest(credential[p], k0, account[p])
    BY <2>1 DEF RenewalIsLatest
  <2>5. content.id = credential[p] /\ content.account = account[p] /\ content.stamp = Stamp(p)
    OBVIOUS
  <2> HIDE DEF content
  <2>6. FilesAreTrue'
    <3>1. /\ k0 = "token" => content.stamp <= issued[credential[p]].expires
          /\ k0 = "approval" =>
               content.stamp + Validity <= issued[credential[p]].expires + MaxCallTime
      <4>1. since[p] \in Nat /\ now <= since[p] + MaxCallTime
        BY <2>1 DEF CallsEndInTime
      <4>2. issued[credential[p]].expires \in Nat
        <5>1. credential[p] \in DOMAIN issued
          BY <1>0, <2>1 DEF LocalsInPlace, TypeOK
        <5>2. issued \in Seq([kind : Kinds, account : Accounts, expires : Nat])
          BY <1>0 DEF TypeOK
        <5>3. issued[credential[p]] \in [kind : Kinds, account : Accounts, expires : Nat]
          BY <5>1, <5>2, ElementOf
        <5> QED
          BY <5>3
      <4>3. content.stamp = IF k0 = "token" THEN issued[credential[p]].expires ELSE now
        BY <2>5 DEF Stamp
      <4> QED
        BY <1>0, <2>4, <4>1, <4>2, <4>3, KisClientAssumption
    <3> QED
      BY <2>1, <2>3, <2>4, <2>5, <3>1 DEF FilesAreTrue
  <2>7. FilesAreLatest'
    <3> SUFFICES ASSUME NEW k \in Kinds, NEW a \in Accounts, Usable(k, file[k][Path[a]], a)'
                 PROVE  Latest(file[k][Path[a]].id, k, a)'
      BY DEF FilesAreLatest
    <3>1. Path[a] \in Paths
      BY DEF Paths
    <3>2. CASE k = k0 /\ Path[a] = x0
      <4>1. file'[k][Path[a]] = content /\ content.account = a
        BY <2>3, <3>1, <3>2 DEF Usable
      <4> QED
        BY <2>1, <2>4, <2>5, <3>2, <4>1 DEF Latest
    <3>3. CASE ~(k = k0 /\ Path[a] = x0)
      <4>1. file'[k][Path[a]] = file[k][Path[a]]
        BY <2>3, <3>1, <3>3
      <4>2. Usable(k, file[k][Path[a]], a)
        BY <2>1, <4>1 DEF Usable, Fresh, TokenFresh, KeyFresh
      <4> QED
        BY <2>1, <4>1, <4>2 DEF FilesAreLatest, Latest
    <3> QED
      BY <3>2, <3>3
  <2>8. CallsEndInTime'
    BY <1>0, <2>1 DEF CallsEndInTime, TypeOK
  <2>9. \A q \in Procs : /\ Renewing(q)' => q # p /\ Renewing(q)
                         /\ pc'[q] \in {"open", "write"} => pc[q] \in {"open", "write"}
    BY <1>0, <2>1 DEF Renewing, TypeOK
  <2>10. RenewalIsAlone' /\ RenewalIsLatest'
    BY <2>1, <2>9 DEF RenewalIsAlone, RenewalIsLatest, Kind, Latest
  <2>11. RenewalFindsNothing'
    <3> SUFFICES ASSUME NEW q \in Procs, Renewing(q)',
                        Usable(Kind(call[q]), File(q), account[q])'
                 PROVE  FALSE
      BY DEF RenewalFindsNothing
    <3>1. q # p /\ Renewing(q) /\ Kind(call[q]) \in Kinds /\ Path[account[q]] \in Paths
      BY <1>0, <2>9 DEF Kind, Kinds, Paths, TypeOK
    <3>2. CASE Kind(call[q]) = k0 /\ Path[account[q]] = x0
      <4>1. File(q)' = content
        BY <2>1, <2>3, <3>1, <3>2 DEF File, Kind
      <4>2. account[q] = account[p]
        BY <2>1, <2>5, <4>1 DEF Usable
      <4> QED
        BY <2>1, <3>1, <3>2, <4>2 DEF RenewalIsAlone
    <3>3. CASE ~(Kind(call[q]) = k0 /\ Path[account[q]] = x0)
      <4>1. File(q)' = File(q)
        BY <2>1, <2>3, <3>1, <3>3 DEF File, Kind
      <4> QED
        BY <2>1, <3>1, <4>1 DEF RenewalFindsNothing, Usable, Fresh, TokenFresh, KeyFresh, Kind
    <3> QED
      BY <3>2, <3>3
  <2> QED
    BY <2>6, <2>7, <2>8, <2>10, <2>11 DEF CacheParts
<1> QED
  BY <1>1, <1>2, <1>3, <1>4, <1>5, <1>6, <1>7, <1>8, <1>9, <1>10 DEF Next

\* As long as no two processes of an account renew a credential at once, what a
\* file gives to a process is in force to the end of the call, for any number of
\* processes, accounts and files (auth.py, get_token()).
THEOREM CredentialsAreLive ==
  ASSUME MayRace = FALSE PROVE Spec => []CachedCredentialIsLive
<1>1. Init => CacheInv
  BY InitCacheInv
<1>2. CacheInv /\ OrderInv' /\ [Next]_vars => CacheInv'
  BY CacheStep DEF CacheInv, CacheParts
<1>3. CacheInv => CachedCredentialIsLive
  BY CacheInvIsEnough
<1> QED
  BY <1>1, <1>2, <1>3, OrderInvariant, PTL DEF Spec
=============================================================================
