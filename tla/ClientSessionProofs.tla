------------------------ MODULE ClientSessionProofs ------------------------
(***************************************************************************)
(* Proofs about ClientSession for every number of users, tokens, logins,   *)
(* cleanups and requests, whatever the token store may reject.             *)
(***************************************************************************)
EXTENDS ClientSession, TLAPS

(* The chain of completions loses its head and grows at its end.           *)
LEMMA TailContains ==
    ASSUME NEW S, NEW s \in Seq(S), s # <<>>,
           \A i, j \in 1..Len(s) : i < j => s[i] # s[j]
    PROVE  /\ Tail(s) \in Seq(S) /\ Len(Tail(s)) = Len(s) - 1
           /\ \A i \in 1..Len(Tail(s)) : i + 1 \in 1..Len(s) /\ Tail(s)[i] = s[i + 1]
           /\ \A e : Contains(Tail(s), e) <=> e # s[1] /\ Contains(s, e)
  <1>1. /\ Tail(s) \in Seq(S) /\ Len(Tail(s)) = Len(s) - 1 /\ Len(s) \in Nat \ {0}
        /\ \A i \in 1..Len(Tail(s)) : i + 1 \in 1..Len(s) /\ Tail(s)[i] = s[i + 1]
    OBVIOUS
  <1>2. ASSUME NEW e, Contains(Tail(s), e)
        PROVE  e # s[1] /\ Contains(s, e)
    BY <1>1, <1>2 DEF Contains
  <1>3. ASSUME NEW e, e # s[1], Contains(s, e)
        PROVE  Contains(Tail(s), e)
    <2>1. PICK i \in 1..Len(s) : s[i] = e
      BY <1>3 DEF Contains
    <2>2. i - 1 \in 1..Len(Tail(s)) /\ Tail(s)[i - 1] = e
      BY <1>1, <1>3, <2>1
    <2>. QED  BY <2>2 DEF Contains
  <1>. QED  BY <1>1, <1>2, <1>3

LEMMA AppendContains ==
    ASSUME NEW S, NEW s \in Seq(S), NEW x \in S
    PROVE  /\ Append(s, x) \in Seq(S) /\ Len(Append(s, x)) = Len(s) + 1
           /\ \A i \in 1..Len(s) : Append(s, x)[i] = s[i]
           /\ Append(s, x)[Len(s) + 1] = x
           /\ \A e : Contains(Append(s, x), e) <=> e = x \/ Contains(s, e)
  <1>1. /\ Append(s, x) \in Seq(S) /\ Len(Append(s, x)) = Len(s) + 1 /\ Len(s) \in Nat
        /\ \A i \in 1..Len(s) : Append(s, x)[i] = s[i]
        /\ Append(s, x)[Len(s) + 1] = x
    OBVIOUS
  <1>2. ASSUME NEW e
        PROVE  Contains(Append(s, x), e) <=> e = x \/ Contains(s, e)
    BY <1>1 DEF Contains
  <1>. QED  BY <1>1, <1>2

-----------------------------------------------------------------------------
(* While the launch effect runs there is no session, and what it found in  *)
(* the store is still there when it is probed.                             *)
Launching ==
    /\ restore.pc # "done" =>
          /\ status = "unknown" /\ live = None /\ listed = None /\ chain = <<>>
          /\ \A a \in Attempts : attempt[a] = Idle
          /\ \A c \in Cleanups : cleanup[c] = Idle
          /\ \A r \in Requests : request[r] = Idle
    /\ restore.pc = "probe" => storage = restore.token

(* Completions run in the order of their logins' replies, each of a later  *)
(* epoch than the one before it, and only the first is past its first      *)
(* await.                                                                  *)
InOrder ==
    /\ \A i, j \in 1..Len(chain) : i < j => attempt[chain[i]].epoch < attempt[chain[j]].epoch
    /\ \A i \in 1..Len(chain) : attempt[chain[i]].epoch <= epoch
    /\ \A a \in Attempts : attempt[a].pc = "storing" => chain # <<>> /\ chain[1] = a

(* What a completion that is not overtaken has stored is still stored, and *)
(* if the last of the chain is overtaken, a sign-out did it.               *)
StoredStands ==
    /\ \A a \in Attempts :
          attempt[a].pc = "storing" /\ attempt[a].epoch = epoch => storage = attempt[a].token
    /\ chain # <<>> /\ attempt[chain[Len(chain)]].epoch # epoch => live = None

(* What is shown as signed in is the live session, which is the stored one *)
(* when no completion is left; or its sign-out is about to end.            *)
Shows ==
    status = "signed-in" =>
        IF live = None THEN \E c \in Cleanups : cleanup[c].pc = "clearing"
        ELSE /\ user = Owner[live]
             /\ chain = <<>> => storage = live \/ rejected

(* A list that may still be put in the cache is one of the user it will be *)
(* shown to.                                                               *)
Answerable ==
    \A r \in Requests : request[r].pc = "sent" =>
        /\ request[r].epoch <= epoch
        /\ request[r].accepted => request[r].token \in Tokens
        /\ request[r].accepted /\ request[r].cached => user = Owner[request[r].token]

(* In a browser nothing comes between a reply and the end of what it       *)
(* completes.                                                              *)
Undisturbed ==
    ~onDevice =>
        /\ chain # <<>> => \A c \in Cleanups : cleanup[c].pc # "clearing"
        /\ \A c \in Cleanups : cleanup[c].pc = "clearing" => live = None
        /\ \A r \in Requests, i \in 1..Len(chain) :
              request[r].pc = "sent" => request[r].epoch < attempt[chain[i]].epoch

SessionInv ==
    /\ Launching /\ InOrder /\ StoredStands /\ Shows /\ Answerable /\ Undisturbed
    /\ ListedRowsAreOwn /\ EpochMeansSession

LEMMA Shapes ==
    ASSUME TypeOK
    PROVE  /\ \A a \in Attempts :
                /\ attempt[a].pc \in {"queued", "storing"} => attempt[a] \in Completing
                /\ attempt[a].pc = "asking" => attempt[a] \in Asking
           /\ \A c \in Cleanups :
                cleanup[c].pc \in {"logout", "clearing"} => cleanup[c] \in Cleaning
           /\ \A r \in Requests : request[r].pc = "sent" => request[r] \in Sent
           /\ \A i \in 1..Len(chain) :
                chain[i] \in Attempts /\ attempt[chain[i]] \in Completing
  <1>1. \A a \in Attempts :
           /\ attempt[a].pc \in {"queued", "storing"} => attempt[a] \in Completing
           /\ attempt[a].pc = "asking" => attempt[a] \in Asking
    BY DEF TypeOK, Idle, Asking, Completing
  <1>2. /\ \A c \in Cleanups :
              cleanup[c].pc \in {"logout", "clearing"} => cleanup[c] \in Cleaning
        /\ \A r \in Requests : request[r].pc = "sent" => request[r] \in Sent
    BY DEF TypeOK, Idle, Cleaning, Sent
  <1>3. \A i \in 1..Len(chain) : chain[i] \in Attempts /\ Contains(chain, chain[i])
    BY DEF TypeOK, Contains
  <1>. QED  BY <1>1, <1>2, <1>3 DEF TypeOK

(* The completion that leaves the chain is its head, and the rest is as it *)
(* was.                                                                    *)
LEMMA LeavesChain ==
    ASSUME TypeOK, InOrder, NEW a \in Attempts, chain # <<>>, chain[1] = a,
           chain' = Tail(chain)
    PROVE  /\ chain' \in Seq(Attempts) /\ Len(chain') = Len(chain) - 1
           /\ \A i \in 1..Len(chain') : i + 1 \in 1..Len(chain) /\ chain'[i] = chain[i + 1]
           /\ \A b \in Attempts : Contains(chain', b) <=> b # a /\ Contains(chain, b)
           /\ \A i \in 1..Len(chain') : chain'[i] # a
  <1>1. chain \in Seq(Attempts)
    BY DEF TypeOK
  <1>2. ASSUME NEW i \in 1..Len(chain), NEW j \in 1..Len(chain), i < j
        PROVE  chain[i] # chain[j]
    <2>1. /\ attempt[chain[i]].epoch \in Nat /\ attempt[chain[j]].epoch \in Nat
          /\ attempt[chain[i]].epoch < attempt[chain[j]].epoch
      BY <1>2, Shapes DEF InOrder, Completing
    <2>. QED  BY <2>1
  <1>3. /\ chain' \in Seq(Attempts) /\ Len(chain') = Len(chain) - 1
        /\ \A i \in 1..Len(chain') : i + 1 \in 1..Len(chain) /\ chain'[i] = chain[i + 1]
        /\ \A b : Contains(chain', b) <=> b # a /\ Contains(chain, b)
    BY <1>1, <1>2, TailContains
  <1>4. ASSUME NEW i \in 1..Len(chain')
        PROVE  chain'[i] # a
    <2>1. Contains(chain', chain'[i])
      BY <1>3 DEF Contains
    <2>. QED  BY <1>3, <2>1
  <1>. QED  BY <1>3, <1>4

LEMMA NoneCompletes ==
    /\ \A a : ~ Contains(<<>>, a)
    /\ Idle \notin Completing
  BY DEF Contains, Idle, Completing

LEMMA SessionInit == Init => TypeOK /\ SessionInv
  <1>. SUFFICES ASSUME Init PROVE TypeOK /\ SessionInv
    OBVIOUS
  <1>1. TypeOK
    <2>1. chain \in Seq(Attempts) /\ attempt \in [Attempts -> {Idle}]
      BY DEF Init
    <2>2. \A a \in Attempts : attempt[a] \in Completing <=> Contains(chain, a)
      BY NoneCompletes DEF Init
    <2>3. /\ restore \in [pc : {"get", "done"}] /\ epoch \in Nat
          /\ cleanup \in [Cleanups -> {Idle}] /\ request \in [Requests -> {Idle}]
      BY DEF Init
    <2>. QED  BY <2>1, <2>2, <2>3 DEF Init, TypeOK, Maybe
  <1>2. Len(chain) = 0
    BY DEF Init
  <1>. QED
    BY <1>1, <1>2 DEF Init, SessionInv, Launching, InOrder, StoredStands, Shows,
             Answerable, Undisturbed, ListedRowsAreOwn, EpochMeansSession, Idle

-----------------------------------------------------------------------------
LEMMA LaunchStep ==
    TypeOK /\ SessionInv /\ (Restore \/ Restart) => TypeOK' /\ SessionInv'
  <1>. SUFFICES ASSUME TypeOK, SessionInv, Restore \/ Restart
                PROVE  TypeOK' /\ SessionInv'
    OBVIOUS
  <1>. USE DEF server, store, cache, provider
  <1>0. \A i \in 1..Len(<<>>) : FALSE
    OBVIOUS
  <1>1. CASE RestoreGet
    BY <1>1 DEF RestoreGet, TypeOK, SessionInv, Maybe, Launching, InOrder, StoredStands,
                Shows, Answerable, Undisturbed, ListedRowsAreOwn, EpochMeansSession
  <1>2. CASE RestoreFindsNothing
    BY <1>0, <1>2 DEF RestoreFindsNothing, SettleSignedOut, Bump, TypeOK, SessionInv,
                Launching, InOrder, StoredStands, Shows, Answerable, Undisturbed, Idle,
                ListedRowsAreOwn, EpochMeansSession
  <1>3. CASE RestoreSignsIn
    BY <1>0, <1>3, ClientSessionAssumption
       DEF RestoreSignsIn, Bump, TypeOK, SessionInv, Maybe, Launching, InOrder,
           StoredStands, Shows, Answerable, Undisturbed, ListedRowsAreOwn, Idle,
           EpochMeansSession
  <1>4. CASE RestoreFails
    BY <1>0, <1>4 DEF RestoreFails, Stores, Rejects, TypeOK, SessionInv, Maybe, Launching,
                InOrder, StoredStands, Shows, Answerable, Undisturbed, Idle,
                ListedRowsAreOwn, EpochMeansSession
  <1>5. CASE RestoreForgets
    BY <1>0, <1>5 DEF RestoreForgets, SettleSignedOut, Bump, TypeOK, SessionInv,
                Launching, InOrder, StoredStands, Shows, Answerable, Undisturbed, Idle,
                ListedRowsAreOwn, EpochMeansSession
  <1>6. CASE Restart
    <2>1. TypeOK'
      <3>1. chain' \in Seq(Attempts) /\ attempt' \in [Attempts -> {Idle}]
        BY <1>6 DEF Restart
      <3>2. \A a \in Attempts : attempt'[a] \in Completing <=> Contains(chain', a)
        BY <1>6, NoneCompletes DEF Restart
      <3>3. /\ restore' \in [pc : {"get", "done"}] /\ epoch' \in Nat
            /\ cleanup' \in [Cleanups -> {Idle}] /\ request' \in [Requests -> {Idle}]
        BY <1>6 DEF Restart
      <3>. QED  BY <1>6, <3>1, <3>2, <3>3 DEF Restart, TypeOK, Maybe
    <2>2. SessionInv'
      BY <1>0, <1>6 DEF Restart, SessionInv, Launching, InOrder, StoredStands,
                Shows, Answerable, Undisturbed, Idle, ListedRowsAreOwn, EpochMeansSession
    <2>. QED  BY <2>1, <2>2
  <1>. QED  BY <1>1, <1>2, <1>3, <1>4, <1>5, <1>6 DEF Restore

(* A login asks, or gets no session: nothing but its own request moves.    *)
LEMMA AskStep ==
    ASSUME TypeOK, SessionInv, NEW a \in Attempts,
           \/ Submit(a)
           \/ LoginFails(a)
           \/ \E t \in Tokens : LoginReplies(a, t) /\ attempt[a].flag
    PROVE  TypeOK' /\ SessionInv'
  <1>. USE DEF server, store, cache, provider
  <1>. DEFINE OnlyAsks ==
        /\ attempt[a] \in {Idle} \cup Asking /\ attempt'[a] \in {Idle} \cup Asking
        /\ attempt' = [attempt EXCEPT ![a] = attempt'[a]]
        /\ restore.pc = "done"
        /\ valid' \subseteq issued' /\ issued' \subseteq Tokens
        /\ UNCHANGED <<onDevice, storage, rejected, live, status, user,
                      epoch, signingOut, restore, chain, cleanup, request, listed, written>>
  <1>1. OnlyAsks
    <2>1. CASE Submit(a)
      BY <2>1, Shapes DEF Submit, TypeOK, Asking, SessionInv, Launching
    <2>2. CASE LoginFails(a)
      BY <2>2, Shapes DEF LoginFails, TypeOK, Idle, SessionInv, Launching
    <2>3. ASSUME NEW t \in Tokens, LoginReplies(a, t), attempt[a].flag
          PROVE  OnlyAsks
      BY <2>3, Shapes DEF LoginReplies, TypeOK, Idle, SessionInv, Launching
    <2>. QED  BY <2>1, <2>2, <2>3
  <1>2. attempt[a] \notin Completing /\ attempt'[a] \notin Completing
    BY <1>1 DEF Idle, Asking, Completing
  <1>3. \A b \in Attempts : b # a => attempt'[b] = attempt[b]
    BY <1>1 DEF TypeOK
  <1>4. \A i \in 1..Len(chain) :
           chain[i] # a /\ attempt'[chain[i]] = attempt[chain[i]]
    BY <1>2, <1>3, Shapes
  <1>5. attempt'[a].pc # "storing"
    BY <1>1 DEF Idle, Asking
  <1>6. TypeOK'
    BY <1>1, <1>2, <1>3 DEF TypeOK
  <1>7. InOrder' /\ StoredStands'
    <2>1. chain # <<>> => Len(chain) \in 1..Len(chain)
      BY DEF TypeOK
    <2>. QED  BY <1>1, <1>3, <1>4, <1>5, <2>1 DEF SessionInv, InOrder, StoredStands
  <1>8. Launching' /\ Shows' /\ Answerable' /\ ListedRowsAreOwn' /\ EpochMeansSession'
    BY <1>1 DEF SessionInv, Launching, Shows, Answerable, ListedRowsAreOwn, EpochMeansSession
  <1>9. Undisturbed'
    BY <1>1, <1>4 DEF SessionInv, Undisturbed
  <1>. QED  BY <1>6, <1>7, <1>8, <1>9 DEF SessionInv

(* A reply opens a new epoch and its completion joins the chain at the end *)
(* of it.                                                                  *)
LEMMA ReplyStep ==
    ASSUME TypeOK, SessionInv, NEW a \in Attempts, NEW t \in Tokens,
           LoginReplies(a, t), ~attempt[a].flag
    PROVE  TypeOK' /\ SessionInv'
  <1>. USE DEF server, store, cache, provider
  <1>1. /\ attempt[a] \in Asking /\ epoch' = epoch + 1 /\ epoch \in Nat
        /\ attempt' = [attempt EXCEPT ![a] = [pc |-> "queued", token |-> t, epoch |-> epoch + 1]]
        /\ chain' = Append(chain, a) /\ chain \in Seq(Attempts)
        /\ valid' \subseteq issued' /\ issued' \subseteq Tokens
        /\ restore.pc = "done" /\ Quiet
        /\ UNCHANGED <<onDevice, storage, rejected, live, status, user,
                      signingOut, restore, cleanup, request, listed, written>>
    BY Shapes DEF LoginReplies, Joins, Bump, TypeOK, SessionInv, Launching, Idle
  <1>2. /\ attempt'[a] = [pc |-> "queued", token |-> t, epoch |-> epoch + 1]
        /\ attempt'[a] \in Completing
        /\ \A b \in Attempts : b # a => attempt'[b] = attempt[b]
    BY <1>1 DEF TypeOK, Completing
  <1>3. /\ chain' \in Seq(Attempts) /\ Len(chain') = Len(chain) + 1 /\ Len(chain) \in Nat
        /\ \A i \in 1..Len(chain) : chain'[i] = chain[i]
        /\ chain'[Len(chain')] = a
        /\ \A b \in Attempts : Contains(chain', b) <=> b = a \/ Contains(chain, b)
    BY <1>1, AppendContains
  <1>4. \A i \in 1..Len(chain) :
           /\ chain[i] # a /\ attempt'[chain[i]] = attempt[chain[i]]
           /\ attempt[chain[i]].epoch \in Nat /\ attempt[chain[i]].epoch <= epoch
    BY <1>1, <1>2, Shapes DEF Asking, Completing, SessionInv, InOrder
  <1>5. TypeOK'
    BY <1>1, <1>2, <1>3 DEF TypeOK
  <1>6. InOrder'
    <2>1. ASSUME NEW i \in 1..Len(chain'), NEW j \in 1..Len(chain'), i < j
          PROVE  attempt'[chain'[i]].epoch < attempt'[chain'[j]].epoch
      <3>1. i \in 1..Len(chain)
        BY <1>3, <2>1
      <3>2. CASE j \in 1..Len(chain)
        BY <1>3, <1>4, <2>1, <3>1, <3>2 DEF SessionInv, InOrder
      <3>3. CASE j = Len(chain')
        BY <1>1, <1>2, <1>3, <1>4, <3>1, <3>3
      <3>. QED  BY <1>3, <3>2, <3>3
    <2>2. ASSUME NEW i \in 1..Len(chain')
          PROVE  attempt'[chain'[i]].epoch <= epoch'
      <3>1. CASE i \in 1..Len(chain)
        BY <1>1, <1>3, <1>4, <3>1
      <3>2. CASE i = Len(chain')
        BY <1>1, <1>2, <1>3, <3>2
      <3>. QED  BY <1>3, <3>1, <3>2
    <2>3. ASSUME NEW b \in Attempts, attempt'[b].pc = "storing"
          PROVE  chain' # <<>> /\ chain'[1] = b
      <3>1. b # a /\ attempt[b].pc = "storing"
        BY <1>2, <2>3
      <3>2. chain # <<>> /\ chain[1] = b
        BY <3>1 DEF SessionInv, InOrder
      <3>. QED  BY <1>3, <3>2
    <2>. QED  BY <2>1, <2>2, <2>3 DEF InOrder
  <1>7. StoredStands'
    <2>1. ASSUME NEW b \in Attempts, attempt'[b].pc = "storing"
          PROVE  attempt'[b].epoch # epoch'
      <3>1. b # a /\ attempt[b].pc = "storing" /\ attempt'[b] = attempt[b]
        BY <1>2, <2>1
      <3>2. chain # <<>> /\ chain[1] = b
        BY <3>1 DEF SessionInv, InOrder
      <3>3. 1 \in 1..Len(chain)
        BY <1>1, <3>2
      <3>. QED  BY <1>1, <1>4, <3>1, <3>2, <3>3
    <2>. QED  BY <1>1, <1>2, <1>3, <2>1 DEF StoredStands
  <1>8. Launching' /\ Answerable' /\ ListedRowsAreOwn' /\ EpochMeansSession'
    <2>1. \A r \in Requests : request[r].pc = "sent" =>
             request[r].epoch \in Nat /\ request[r].epoch <= epoch
      BY Shapes DEF Sent, SessionInv, Answerable
    <2>. QED
      BY <1>1, <2>1 DEF SessionInv, Launching, Answerable, ListedRowsAreOwn, EpochMeansSession
  <1>9. Shows'
    <2>1. chain' # <<>>
      BY <1>3
    <2>. QED  BY <1>1, <2>1 DEF SessionInv, Shows
  <1>10. Undisturbed'
    <2>. SUFFICES ASSUME ~onDevice
                  PROVE  /\ \A c \in Cleanups : cleanup[c].pc # "clearing"
                         /\ \A r \in Requests, i \in 1..Len(chain') :
                               request[r].pc = "sent" =>
                                 request[r].epoch < attempt'[chain'[i]].epoch
      BY <1>1 DEF Undisturbed
    <2>1. chain = <<>> /\ \A c \in Cleanups : cleanup[c].pc # "clearing"
      BY <1>1 DEF Quiet
    <2>2. \A i \in 1..Len(chain') : attempt'[chain'[i]].epoch = epoch + 1
      BY <1>2, <1>3, <2>1
    <2>3. \A r \in Requests : request[r].pc = "sent" =>
             request[r].epoch \in Nat /\ request[r].epoch <= epoch
      BY Shapes DEF Sent, SessionInv, Answerable
    <2>. QED  BY <1>1, <2>1, <2>2, <2>3
  <1>. QED  BY <1>5, <1>6, <1>7, <1>8, <1>9, <1>10 DEF SessionInv

(* The first of the chain stores its token.                                *)
LEMMA StoreStep ==
    ASSUME TypeOK, SessionInv, NEW a \in Attempts, SetToken(a)
    PROVE  TypeOK' /\ SessionInv'
  <1>. USE DEF server, store, cache, provider
  <1>1. /\ chain # <<>> /\ chain[1] = a /\ attempt[a].pc = "queued"
        /\ attempt[a] \in Completing
        /\ storage' = attempt[a].token /\ rejected' = FALSE
        /\ attempt' = [attempt EXCEPT ![a].pc = "storing"]
        /\ restore.pc = "done"
        /\ UNCHANGED <<onDevice, issued, valid, live, status, user, epoch,
                      signingOut, restore, chain, cleanup, request, listed, written>>
    BY Shapes DEF SetToken, Stores, TypeOK, SessionInv, Launching
  <1>2. /\ attempt'[a] \in Completing /\ attempt'[a].pc = "storing"
        /\ attempt'[a].token = attempt[a].token /\ attempt'[a].epoch = attempt[a].epoch
        /\ \A b \in Attempts : b # a => attempt'[b] = attempt[b]
    BY <1>1 DEF TypeOK, Completing
  <1>3. \A i \in 1..Len(chain) :
           chain[i] \in Attempts /\ attempt'[chain[i]].epoch = attempt[chain[i]].epoch
    BY <1>2, Shapes
  <1>4. \A b \in Attempts : attempt'[b].pc = "storing" => b = a
    BY <1>1, <1>2 DEF SessionInv, InOrder
  <1>5. TypeOK'
    BY <1>1, <1>2 DEF TypeOK, Completing, Maybe
  <1>6. InOrder'
    BY <1>1, <1>3, <1>4 DEF SessionInv, InOrder
  <1>7. StoredStands'
    <2>1. Len(chain) \in 1..Len(chain)
      BY <1>1 DEF TypeOK
    <2>. QED  BY <1>1, <1>2, <1>3, <1>4, <2>1 DEF SessionInv, StoredStands
  <1>8. Launching' /\ Shows' /\ Answerable' /\ ListedRowsAreOwn' /\ EpochMeansSession'
    BY <1>1 DEF SessionInv, Launching, Shows, Answerable, ListedRowsAreOwn, EpochMeansSession
  <1>9. Undisturbed'
    BY <1>1, <1>3 DEF SessionInv, Undisturbed
  <1>. QED  BY <1>5, <1>6, <1>7, <1>8, <1>9 DEF SessionInv

(* The first of the chain gives way, or finds that the store rejects: the  *)
(* last one to do so leaves a store that rejected, or no live session.     *)
LEMMA LeaveStep ==
    ASSUME TypeOK, SessionInv, NEW a \in Attempts, SetFails(a) \/ GivesWay(a)
    PROVE  TypeOK' /\ SessionInv'
  <1>. USE DEF server, store, cache, provider
  <1>1. /\ chain # <<>> /\ chain[1] = a /\ attempt[a] \in Completing
        /\ attempt' = [attempt EXCEPT ![a] = Idle] /\ chain' = Tail(chain)
        /\ restore.pc = "done" /\ rejected' \in BOOLEAN
        /\ rejected' \/ (rejected' = rejected /\ epoch # attempt[a].epoch)
        /\ UNCHANGED <<onDevice, issued, valid, storage, live, status, user, epoch,
                      signingOut, restore, cleanup, request, listed, written>>
    <2>1. CASE SetFails(a)
      BY <2>1, Shapes DEF SetFails, Rejects, Leaves, SessionInv, Launching, TypeOK
    <2>2. CASE GivesWay(a)
      BY <2>2, Shapes DEF GivesWay, Overtaken, Leaves, SessionInv, Launching, InOrder, TypeOK
    <2>. QED  BY <2>1, <2>2
  <1>2. /\ attempt'[a] = Idle
        /\ \A b \in Attempts : b # a => attempt'[b] = attempt[b]
    BY <1>1 DEF TypeOK
  <1>3. /\ chain' \in Seq(Attempts) /\ Len(chain') = Len(chain) - 1 /\ Len(chain) \in Nat
        /\ \A i \in 1..Len(chain') : i + 1 \in 1..Len(chain) /\ chain'[i] = chain[i + 1]
        /\ \A b \in Attempts : Contains(chain', b) <=> b # a /\ Contains(chain, b)
        /\ \A i \in 1..Len(chain') : chain'[i] \in Attempts /\ chain'[i] # a
    BY <1>1, LeavesChain DEF SessionInv, TypeOK
  <1>4. \A i \in 1..Len(chain') : i + 1 \in 1..Len(chain)
                                /\ attempt'[chain'[i]] = attempt[chain[i + 1]]
    BY <1>2, <1>3
  <1>5. \A b \in Attempts : attempt'[b].pc # "storing"
    BY <1>1, <1>2 DEF SessionInv, InOrder, Idle
  <1>6. TypeOK'
    BY <1>1, <1>2, <1>3, NoneCompletes DEF TypeOK
  <1>7. InOrder'
    <2>1. ASSUME NEW i \in 1..Len(chain'), NEW j \in 1..Len(chain'), i < j
          PROVE  attempt'[chain'[i]].epoch < attempt'[chain'[j]].epoch
      <3>1. i + 1 \in 1..Len(chain) /\ j + 1 \in 1..Len(chain) /\ i + 1 < j + 1
        BY <1>4, <2>1
      <3>. QED  BY <1>4, <3>1 DEF SessionInv, InOrder
    <2>2. ASSUME NEW i \in 1..Len(chain')
          PROVE  attempt'[chain'[i]].epoch <= epoch'
      BY <1>1, <1>4 DEF SessionInv, InOrder
    <2>. QED  BY <1>5, <2>1, <2>2 DEF InOrder
  <1>8. StoredStands'
    <2>1. ASSUME chain' # <<>>
          PROVE  attempt'[chain'[Len(chain')]] = attempt[chain[Len(chain)]]
      <3>1. Len(chain') \in 1..Len(chain') /\ Len(chain') + 1 = Len(chain)
        BY <1>3, <2>1
      <3>. QED  BY <1>4, <3>1
    <2>. QED  BY <1>1, <1>5, <2>1 DEF SessionInv, StoredStands
  <1>9. Shows'
    <2>1. CASE rejected'
      BY <1>1, <2>1 DEF SessionInv, Shows
    <2>2. CASE rejected' = rejected /\ epoch # attempt[a].epoch
      <3>1. chain' = <<>> => live = None
        <4>. SUFFICES ASSUME chain' = <<>> PROVE live = None
          OBVIOUS
        <4>1. Len(chain) = 1
          BY <1>3
        <4>. QED  BY <1>1, <2>2, <4>1 DEF SessionInv, StoredStands
      <3>. QED  BY <1>1, <2>2, <3>1 DEF SessionInv, Shows
    <2>. QED  BY <1>1, <2>1, <2>2
  <1>10. Launching' /\ Answerable' /\ ListedRowsAreOwn' /\ EpochMeansSession'
    BY <1>1 DEF SessionInv, Launching, Answerable, ListedRowsAreOwn, EpochMeansSession
  <1>11. Undisturbed'
    BY <1>1, <1>3, <1>4 DEF SessionInv, Undisturbed
  <1>. QED  BY <1>6, <1>7, <1>8, <1>9, <1>10, <1>11 DEF SessionInv

(* queryClient.clear() forgets which requests are in the cache, no more.   *)
LEMMA ClearsQueries ==
    ASSUME TypeOK, ClearQueries
    PROVE  /\ listed' = None /\ written' = {}
           /\ request' \in [Requests -> {Idle} \cup Sent]
           /\ \A r \in Requests : request'[r].pc = "sent" =>
                /\ request[r].pc = "sent" /\ ~request'[r].cached
                /\ request'[r].epoch = request[r].epoch
                /\ request'[r].token = request[r].token
                /\ request'[r].accepted = request[r].accepted
  <1>1. ASSUME NEW r \in Requests
        PROVE  /\ request'[r] \in {Idle} \cup Sent
               /\ request'[r].pc = "sent" =>
                    /\ request[r].pc = "sent" /\ ~request'[r].cached
                    /\ request'[r].epoch = request[r].epoch
                    /\ request'[r].token = request[r].token
                    /\ request'[r].accepted = request[r].accepted
    <2>1. request'[r] = Uncached(request[r])
      BY DEF ClearQueries
    <2>2. CASE request[r].pc = "sent"
      <3>1. request[r] \in Sent
        BY <2>2, Shapes
      <3>. QED  BY <2>1, <2>2, <3>1 DEF Uncached, Sent
    <2>3. CASE request[r].pc # "sent"
      BY <2>1, <2>3 DEF Uncached, TypeOK
    <2>. QED  BY <2>2, <2>3
  <1>2. request' = [r \in Requests |-> request'[r]]
    BY DEF ClearQueries
  <1>. QED  BY <1>1, <1>2 DEF ClearQueries

(* A completion that is not overtaken is the last of the chain.            *)
LEMMA InstallStep ==
    ASSUME TypeOK, SessionInv, NEW a \in Attempts, Install(a)
    PROVE  TypeOK' /\ SessionInv'
  <1>. USE DEF server, store, cache, provider
  <1>1. /\ chain # <<>> /\ chain[1] = a /\ attempt[a] \in Completing
        /\ attempt[a].epoch = epoch /\ storage = attempt[a].token
        /\ attempt' = [b \in Attempts |-> IF b = a THEN Idle ELSE Disowned(attempt[b])]
        /\ chain' = Tail(chain) /\ live' = attempt[a].token
        /\ user' = Owner[attempt[a].token] /\ status' = "signed-in"
        /\ restore.pc = "done"
        /\ UNCHANGED <<onDevice, issued, valid, storage, rejected, epoch, signingOut,
                      restore, cleanup>>
    BY Shapes DEF Install, Overtaken, SessionInv, Launching, InOrder, StoredStands
  <1>2. attempt[a].token \in Tokens /\ attempt[a].token # None
        /\ Owner[attempt[a].token] \in Users
    BY <1>1, ClientSessionAssumption DEF Completing
  <1>3. Len(chain) = 1
    <2>1. Len(chain) \in Nat \ {0}
      BY <1>1 DEF TypeOK
    <2>2. ASSUME Len(chain) # 1 PROVE FALSE
      <3>1. 1 \in 1..Len(chain) /\ 2 \in 1..Len(chain)
        <4>1. \A n \in Nat \ {0} : n # 1 => 1 \in 1..n /\ 2 \in 1..n
          OBVIOUS
        <4>. QED  BY <2>1, <2>2, <4>1
      <3>2. /\ attempt[chain[1]].epoch < attempt[chain[2]].epoch
            /\ attempt[chain[2]].epoch <= epoch
        BY <3>1 DEF SessionInv, InOrder
      <3>3. attempt[chain[2]].epoch \in Nat /\ epoch \in Nat
        BY <3>1, Shapes DEF Completing, TypeOK
      <3>. QED  BY <1>1, <3>2, <3>3
    <2>. QED  BY <2>2
  <1>4. chain' = <<>>
    BY <1>1, <1>3 DEF TypeOK
  <1>5. \A b \in Attempts : attempt'[b] \in {Idle} \cup Asking
    <2>1. ASSUME NEW b \in Attempts, b # a
          PROVE  attempt[b] \in {Idle} \cup Asking
      <3>1. ~ Contains(chain, b)
        <4>1. \A i \in 1..Len(chain) : chain[i] = a
          BY <1>1, <1>3
        <4>. QED  BY <2>1, <4>1 DEF Contains
      <3>. QED  BY <3>1 DEF TypeOK
    <2>2. \A x \in Asking : Disowned(x) \in Asking
      BY DEF Disowned, Asking
    <2>3. Disowned(Idle) = Idle
      BY DEF Disowned, Idle
    <2>. QED  BY <1>1, <2>1, <2>2, <2>3
  <1>6. \A b \in Attempts : attempt'[b] \notin Completing /\ attempt'[b].pc # "storing"
    BY <1>5 DEF Idle, Asking, Completing
  <1>7. /\ listed' = None /\ written' = {}
        /\ request' \in [Requests -> {Idle} \cup Sent]
        /\ \A r \in Requests : request'[r].pc = "sent" =>
              /\ request[r].pc = "sent" /\ ~request'[r].cached
              /\ request'[r].epoch = request[r].epoch
              /\ request'[r].token = request[r].token
              /\ request'[r].accepted = request[r].accepted
    BY ClearsQueries DEF Install
  <1>8. TypeOK'
    <2>1. attempt' \in [Attempts -> {Idle} \cup Asking]
      BY <1>1, <1>5
    <2>2. \A b \in Attempts : ~ Contains(chain', b)
      BY <1>4, NoneCompletes
    <2>3. chain' \in Seq(Attempts)
      BY <1>4
    <2>. QED  BY <1>1, <1>2, <1>6, <1>7, <2>1, <2>2, <2>3 DEF TypeOK, Maybe
  <1>9. Launching' /\ InOrder' /\ StoredStands'
    <2>1. \A i \in 1..Len(chain') : FALSE
      BY <1>4
    <2>. QED  BY <1>1, <1>4, <1>6, <2>1 DEF Launching, InOrder, StoredStands
  <1>10. Shows' /\ ListedRowsAreOwn'
    BY <1>1, <1>2, <1>7 DEF Shows, ListedRowsAreOwn
  <1>11. Answerable'
    BY <1>1, <1>7 DEF SessionInv, Answerable
  <1>12. \A r \in Requests : ~onDevice /\ request'[r].pc = "sent" => request'[r].epoch # epoch
    <2>. SUFFICES ASSUME NEW r \in Requests, ~onDevice, request'[r].pc = "sent"
                  PROVE  request'[r].epoch # epoch
      OBVIOUS
    <2>1. request[r].epoch < attempt[chain[1]].epoch
      BY <1>3, <1>7 DEF SessionInv, Undisturbed
    <2>2. request[r].epoch \in Nat /\ epoch \in Nat
      BY <1>7, Shapes DEF Sent, TypeOK
    <2>. QED  BY <1>1, <1>7, <2>1, <2>2
  <1>13. EpochMeansSession'
    BY <1>1, <1>12 DEF EpochMeansSession
  <1>14. Undisturbed'
    <2>1. \A i \in 1..Len(chain') : FALSE
      BY <1>4
    <2>2. ~onDevice => \A c \in Cleanups : cleanup[c].pc # "clearing"
      BY <1>1 DEF SessionInv, Undisturbed
    <2>. QED  BY <1>1, <1>4, <2>1, <2>2 DEF Undisturbed
  <1>. QED  BY <1>8, <1>9, <1>10, <1>11, <1>13, <1>14 DEF SessionInv

-----------------------------------------------------------------------------
(* A cleanup begins, is served, or ends beside a newer session; a token    *)
(* expires.                                                                *)
LEMMA AsideStep ==
    ASSUME TypeOK, SessionInv,
           \/ \E c \in Cleanups : SignOut(c) \/ LogoutServed(c) \/ LeaveNewer(c)
           \/ \E t \in Tokens : Expire(t)
    PROVE  TypeOK' /\ SessionInv'
  <1>. USE DEF server, store, cache, provider
  <1>. DEFINE OnlyAside ==
        /\ cleanup' \in [Cleanups -> {Idle} \cup Cleaning]
        /\ \A c \in Cleanups : cleanup'[c].pc = "clearing" <=> cleanup[c].pc = "clearing"
        /\ restore.pc # "done" => cleanup' = cleanup
        /\ valid' \subseteq valid /\ signingOut' \in BOOLEAN
        /\ UNCHANGED <<onDevice, issued, storage, rejected, live, status, user, epoch,
                      restore, attempt, chain, request, listed, written>>
  <1>1. ASSUME NEW c \in Cleanups, SignOut(c)
        PROVE  OnlyAside
    <2>1. live \in Tokens /\ restore.pc = "done"
      BY <1>1 DEF SignOut, TypeOK, Maybe, SessionInv, Launching
    <2>. QED  BY <1>1, <2>1 DEF SignOut, StartCleanup, TypeOK, Idle, Cleaning
  <1>2. ASSUME NEW c \in Cleanups, LogoutServed(c)
        PROVE  OnlyAside
    BY <1>2 DEF LogoutServed, TypeOK
  <1>3. ASSUME NEW c \in Cleanups, LeaveNewer(c)
        PROVE  OnlyAside
    BY <1>3 DEF LeaveNewer, EndCleanup, TypeOK, Idle, SessionInv, Launching
  <1>4. ASSUME NEW t \in Tokens, Expire(t)
        PROVE  OnlyAside
    BY <1>4 DEF Expire, TypeOK
  <1>5. OnlyAside
    BY <1>1, <1>2, <1>3, <1>4
  <1>6. TypeOK'
    BY <1>5 DEF TypeOK
  <1>7. Launching' /\ InOrder' /\ StoredStands' /\ Answerable' /\ ListedRowsAreOwn'
        /\ EpochMeansSession'
    BY <1>5 DEF SessionInv, Launching, InOrder, StoredStands, Answerable,
                ListedRowsAreOwn, EpochMeansSession
  <1>8. Shows' /\ Undisturbed'
    BY <1>5 DEF SessionInv, Shows, Undisturbed
  <1>. QED  BY <1>6, <1>7, <1>8 DEF SessionInv

(* A sign-out drops the live session and opens a new epoch ...             *)
LEMMA DropStep ==
    ASSUME TypeOK, SessionInv, NEW c \in Cleanups, DropSession(c)
    PROVE  TypeOK' /\ SessionInv'
  <1>. USE DEF server, store, cache, provider
  <1>1. /\ Quiet /\ live' = None /\ epoch' = epoch + 1 /\ epoch \in Nat
        /\ storage' \in Maybe(Tokens) /\ rejected' \in BOOLEAN
        /\ cleanup[c] \in Cleaning
        /\ cleanup' = [cleanup EXCEPT ![c].pc = "clearing"]
        /\ restore.pc = "done"
        /\ UNCHANGED <<onDevice, issued, valid, status, user, signingOut, restore, attempt,
                      chain, request, listed, written>>
    <2>1. cleanup[c] \in Cleaning /\ cleanup[c] # Idle
      BY Shapes DEF DropSession, Idle
    <2>2. restore.pc = "done"
      BY <2>1 DEF SessionInv, Launching
    <2>3. storage' \in Maybe(Tokens) /\ rejected' \in BOOLEAN
      BY DEF DropSession, Stores, Rejects, TypeOK, Maybe
    <2>. QED  BY <2>1, <2>2, <2>3 DEF DropSession, Bump, TypeOK
  <1>2. cleanup' \in [Cleanups -> {Idle} \cup Cleaning] /\ cleanup'[c].pc = "clearing"
    BY <1>1 DEF TypeOK, Cleaning
  <1>3. \A i \in 1..Len(chain) :
           /\ chain[i] \in Attempts /\ attempt[chain[i]].epoch \in Nat
           /\ attempt[chain[i]].epoch <= epoch
    BY Shapes DEF Completing, SessionInv, InOrder
  <1>4. TypeOK'
    BY <1>1, <1>2 DEF TypeOK, Maybe
  <1>5. InOrder'
    BY <1>1, <1>3 DEF SessionInv, InOrder
  <1>6. StoredStands'
    <2>1. ASSUME NEW a \in Attempts, attempt[a].pc = "storing"
          PROVE  attempt[a].epoch # epoch + 1
      <3>1. chain[1] = a /\ 1 \in 1..Len(chain)
        BY <2>1 DEF SessionInv, InOrder, TypeOK
      <3>. QED  BY <1>1, <1>3, <3>1
    <2>. QED  BY <1>1, <2>1 DEF StoredStands
  <1>7. Launching' /\ Shows' /\ ListedRowsAreOwn'
    BY <1>1, <1>2 DEF SessionInv, Launching, Shows, ListedRowsAreOwn
  <1>8. Answerable' /\ EpochMeansSession'
    <2>1. \A r \in Requests : request[r].pc = "sent" =>
             request[r].epoch \in Nat /\ request[r].epoch <= epoch
      BY Shapes DEF Sent, SessionInv, Answerable
    <2>. QED  BY <1>1, <2>1 DEF SessionInv, Answerable, EpochMeansSession
  <1>9. Undisturbed'
    <2>1. ~onDevice => chain = <<>> /\ Len(chain) = 0
      BY <1>1 DEF Quiet
    <2>. QED  BY <1>1, <2>1 DEF Undisturbed
  <1>. QED  BY <1>4, <1>5, <1>6, <1>7, <1>8, <1>9 DEF SessionInv

(* ... and then whatever is shown.                                         *)
LEMMA FinishStep ==
    ASSUME TypeOK, SessionInv, NEW c \in Cleanups, FinishSignOut(c)
    PROVE  TypeOK' /\ SessionInv'
  <1>. USE DEF server, store, cache, provider
  <1>1. /\ user' = None /\ status' = "signed-out" /\ signingOut' = FALSE
        /\ cleanup' = [cleanup EXCEPT ![c] = Idle]
        /\ restore.pc = "done"
        /\ UNCHANGED <<onDevice, issued, valid, storage, rejected, live, epoch, restore,
                      attempt, chain>>
    BY DEF FinishSignOut, EndCleanup, SessionInv, Launching, Idle
  <1>2. /\ listed' = None /\ written' = {}
        /\ request' \in [Requests -> {Idle} \cup Sent]
        /\ \A r \in Requests : request'[r].pc = "sent" =>
              /\ request[r].pc = "sent" /\ ~request'[r].cached
              /\ request'[r].epoch = request[r].epoch
              /\ request'[r].token = request[r].token
              /\ request'[r].accepted = request[r].accepted
    BY ClearsQueries DEF FinishSignOut
  <1>3. /\ cleanup' \in [Cleanups -> {Idle} \cup Cleaning]
        /\ \A d \in Cleanups : cleanup'[d].pc = "clearing" => cleanup[d].pc = "clearing"
    BY <1>1 DEF TypeOK, Idle
  <1>4. TypeOK'
    BY <1>1, <1>2, <1>3 DEF TypeOK, Maybe
  <1>5. Launching' /\ InOrder' /\ StoredStands' /\ Shows' /\ ListedRowsAreOwn'
    BY <1>1, <1>2 DEF SessionInv, Launching, InOrder, StoredStands, Shows, ListedRowsAreOwn
  <1>6. Answerable' /\ EpochMeansSession'
    BY <1>1, <1>2 DEF SessionInv, Answerable, EpochMeansSession
  <1>7. Undisturbed'
    BY <1>1, <1>2, <1>3 DEF SessionInv, Undisturbed
  <1>. QED  BY <1>4, <1>5, <1>6, <1>7 DEF SessionInv

-----------------------------------------------------------------------------
(* A request is sent, from the session that is shown, or from none.        *)
LEMMA SendStep ==
    ASSUME TypeOK, SessionInv, NEW r \in Requests, NEW kind \in Kinds, Send(r, kind)
    PROVE  TypeOK' /\ SessionInv'
  <1>. USE DEF server, store, cache, provider
  <1>. DEFINE new == [pc |-> "sent", kind |-> kind, token |-> live, epoch |-> epoch,
                      flag |-> signingOut, cached |-> TRUE, accepted |-> live \in valid,
                      snapshot |-> IF kind = "complete" THEN Shown ELSE {}]
  <1>1. /\ status = "signed-in" /\ Quiet /\ restore.pc = "done"
        /\ request' = [request EXCEPT ![r] = new]
        /\ UNCHANGED <<onDevice, issued, valid, storage, rejected, live, status, user, epoch,
                      signingOut, restore, attempt, chain, cleanup, listed, written>>
    BY DEF Send, SessionInv, Launching
  <1>2. new \in Sent
    BY DEF Sent, Shown, TypeOK
  <1>3. /\ request'[r] = new
        /\ \A q \in Requests : q # r => request'[q] = request[q]
    BY <1>1 DEF TypeOK
  <1>4. /\ new.epoch = epoch /\ new.token = live
        /\ new.accepted => live \in Tokens /\ live # None
    BY ClientSessionAssumption DEF TypeOK
  <1>. HIDE DEF new
  <1>5. TypeOK'
    BY <1>1, <1>2 DEF TypeOK
  <1>6. Answerable'
    <2>1. new.accepted => user = Owner[new.token]
      BY <1>1, <1>4 DEF SessionInv, Shows
    <2>2. new.epoch <= epoch
      BY <1>4 DEF TypeOK
    <2>. QED  BY <1>1, <1>3, <1>4, <2>1, <2>2 DEF SessionInv, Answerable
  <1>7. Undisturbed'
    <2>1. ~onDevice => chain = <<>> /\ \A i \in 1..Len(chain) : FALSE
      BY <1>1 DEF Quiet
    <2>. QED  BY <1>1, <2>1 DEF SessionInv, Undisturbed
  <1>8. EpochMeansSession'
    BY <1>1, <1>3, <1>4 DEF SessionInv, EpochMeansSession
  <1>9. Launching' /\ InOrder' /\ StoredStands' /\ Shows' /\ ListedRowsAreOwn'
    BY <1>1 DEF SessionInv, Launching, InOrder, StoredStands, Shows, ListedRowsAreOwn
  <1>. QED  BY <1>5, <1>6, <1>7, <1>8, <1>9 DEF SessionInv

(* A request settles: its rows are put in the cache or taken back, and a   *)
(* refused one may begin a sign-out.                                       *)
LEMMA SettleStep ==
    ASSUME TypeOK, SessionInv, NEW r \in Requests, Settle(r)
    PROVE  TypeOK' /\ SessionInv'
  <1>. USE DEF server, store, cache, provider
  <1>1. /\ request[r] \in Sent /\ request[r].pc = "sent" /\ restore.pc = "done"
        /\ request' = [request EXCEPT ![r] = Idle]
        /\ UNCHANGED <<onDevice, issued, valid, storage, rejected, live, status, user, epoch,
                      restore, attempt, chain>>
    BY Shapes DEF Settle, Listed, Written, Lost, Denied, Settled, SessionInv, Launching, Idle
  <1>2. /\ cleanup' \in [Cleanups -> {Idle} \cup Cleaning] /\ signingOut' \in BOOLEAN
        /\ \A c \in Cleanups : cleanup'[c].pc = "clearing" <=> cleanup[c].pc = "clearing"
    <2>1. CASE Listed(r) \/ Written(r) \/ Lost(r)
      BY <2>1 DEF Listed, Written, Lost, TypeOK
    <2>2. CASE Denied(r)
      <3>1. CASE Ignored(r)
        BY <2>2, <3>1 DEF Denied, TypeOK
      <3>2. CASE ~Ignored(r)
        <4>1. PICK c \in Cleanups : StartCleanup(c)
          BY <2>2, <3>2 DEF Denied
        <4>2. live \in Tokens
          BY <3>2 DEF Ignored, TypeOK, Maybe
        <4>. QED  BY <4>1, <4>2 DEF StartCleanup, TypeOK, Idle, Cleaning
      <3>. QED  BY <3>1, <3>2
    <2>. QED  BY <2>1, <2>2 DEF Settle
  <1>3. /\ request'[r] = Idle
        /\ \A q \in Requests : q # r => request'[q] = request[q]
    BY <1>1 DEF TypeOK
  <1>4. /\ listed' \in Maybe(Users) /\ written' \subseteq Users
        /\ listed' = listed \/ listed' = None
              \/ (request[r].accepted /\ request[r].cached /\ listed' = Owner[request[r].token])
    <2>1. request[r].accepted => request[r].token \in Tokens
      BY <1>1 DEF SessionInv, Answerable
    <2>2. request[r].accepted => Owner[request[r].token] \in Users
      BY <2>1, ClientSessionAssumption
    <2>3. request[r].snapshot \subseteq Users
      BY <1>1 DEF Sent
    <2>4. CASE Listed(r)
      BY <2>2, <2>4 DEF Listed, TypeOK, Maybe
    <2>5. CASE Written(r)
      BY <2>2, <2>5 DEF Written, TypeOK
    <2>6. CASE Lost(r) \/ Denied(r)
      BY <2>3, <2>6 DEF Lost, Denied, Rollback, TypeOK, Maybe
    <2>. QED  BY <2>4, <2>5, <2>6 DEF Settle
  <1>5. TypeOK'
    BY <1>1, <1>2, <1>3, <1>4 DEF TypeOK
  <1>6. ListedRowsAreOwn'
    BY <1>1, <1>4 DEF SessionInv, Answerable, ListedRowsAreOwn
  <1>7. \A q \in Requests : request'[q].pc = "sent" => request'[q] = request[q]
    BY <1>3 DEF Idle
  <1>8. Answerable' /\ EpochMeansSession'
    BY <1>1, <1>7 DEF SessionInv, Answerable, EpochMeansSession
  <1>9. Shows' /\ Undisturbed'
    BY <1>1, <1>2, <1>7 DEF SessionInv, Shows, Undisturbed
  <1>10. Launching' /\ InOrder' /\ StoredStands'
    BY <1>1 DEF SessionInv, Launching, InOrder, StoredStands
  <1>. QED  BY <1>5, <1>6, <1>8, <1>9, <1>10 DEF SessionInv

LEMMA SessionStep == TypeOK /\ SessionInv /\ [Next]_vars => TypeOK' /\ SessionInv'
  <1>. SUFFICES ASSUME TypeOK, SessionInv, [Next]_vars PROVE TypeOK' /\ SessionInv'
    OBVIOUS
  <1>1. CASE Restore \/ Restart
    BY <1>1, LaunchStep
  <1>2. ASSUME NEW a \in Attempts, Submit(a) \/ LoginFails(a) \/ Completion(a)
        PROVE  TypeOK' /\ SessionInv'
    BY <1>2, AskStep, StoreStep, LeaveStep, InstallStep DEF Completion
  <1>3. ASSUME NEW a \in Attempts, NEW t \in Tokens, LoginReplies(a, t)
        PROVE  TypeOK' /\ SessionInv'
    BY <1>3, AskStep, ReplyStep
  <1>4. ASSUME NEW c \in Cleanups, SignOut(c) \/ Cleanup(c)
        PROVE  TypeOK' /\ SessionInv'
    BY <1>4, AsideStep, DropStep, FinishStep DEF Cleanup
  <1>5. ASSUME NEW t \in Tokens, Expire(t)
        PROVE  TypeOK' /\ SessionInv'
    BY <1>5, AsideStep
  <1>6. ASSUME NEW r \in Requests, NEW kind \in Kinds, Send(r, kind)
        PROVE  TypeOK' /\ SessionInv'
    BY <1>6, SendStep
  <1>7. ASSUME NEW r \in Requests, Settle(r)
        PROVE  TypeOK' /\ SessionInv'
    BY <1>7, SettleStep
  <1>8. CASE UNCHANGED vars
    BY <1>8 DEF vars, TypeOK, SessionInv, Launching, InOrder, StoredStands, Shows,
                Answerable, Undisturbed, ListedRowsAreOwn, EpochMeansSession
  <1>. QED  BY <1>1, <1>2, <1>3, <1>4, <1>5, <1>6, <1>7, <1>8 DEF Next

LEMMA SessionInvariant == Spec => [](TypeOK /\ SessionInv)
  BY SessionInit, SessionStep, PTL DEF Spec

(* Type correctness: every variable keeps its type, and the chain holds    *)
(* exactly the completions under way, for every number of users, logins    *)
(* and requests.                                                           *)
THEOREM SessionTypeCorrect == Spec => []TypeOK
  BY SessionInvariant, PTL

(* Once logins and cleanups have settled, the session that is shown is the *)
(* one the next launch would restore, unless the store rejected its last   *)
(* call.                                                                   *)
THEOREM ShownSessionIsStored == Spec => []StoreHoldsSession
  <1>1. TypeOK /\ SessionInv => StoreHoldsSession
    BY DEF SessionInv, Shows, StoreHoldsSession, Idle
  <1>. QED  BY <1>1, SessionInvariant, PTL

(* The rows a list put in the cache are the signed-in user's, whichever    *)
(* session asked for them and however late they came.                      *)
THEOREM ListsAreOwn == Spec => []ListedRowsAreOwn
  <1>1. SessionInv => ListedRowsAreOwn
    BY DEF SessionInv
  <1>. QED  BY <1>1, SessionInvariant, PTL

(* In a browser, work that finds its captured epoch current is of the      *)
(* session it was sent with.                                               *)
THEOREM EpochIsSession == Spec => []EpochMeansSession
  <1>1. SessionInv => EpochMeansSession
    BY DEF SessionInv
  <1>. QED  BY <1>1, SessionInvariant, PTL

(* In a browser, a cleanup that goes on when a newer session is live       *)
(* leaves that session, and what is shown and cached of it, alone.         *)
THEOREM NewerStands == Spec => NewerSessionStands
  <1>. DEFINE Stands ==
        \A c \in Cleanups :
            /\ ~onDevice
            /\ cleanup[c] # Idle /\ cleanup'[c] # cleanup[c]
            /\ live \notin {None, cleanup[c].token}
            /\ restore'.pc = "done"
            => UNCHANGED <<live, storage, status, user, cache>>
  <1>1. TypeOK /\ SessionInv /\ [Next]_vars => Stands
    <2>. SUFFICES ASSUME TypeOK, SessionInv, [Next]_vars, NEW c \in Cleanups, ~onDevice,
                         cleanup[c] # Idle, cleanup'[c] # cleanup[c],
                         live # None, live # cleanup[c].token, restore'.pc = "done"
                  PROVE  UNCHANGED <<live, storage, status, user, cache>>
      OBVIOUS
    <2>1. cleanup[c].pc # "clearing"
      BY DEF SessionInv, Undisturbed
    <2>2. restore.pc = "done"
      BY DEF SessionInv, Launching
    <2>3. ~Restore /\ ~Restart
      BY <2>2 DEF Restore, RestoreGet, RestoreFindsNothing, RestoreSignsIn,
                  RestoreFails, RestoreForgets, Restart
    <2>4. ASSUME NEW a \in Attempts, Submit(a) \/ LoginFails(a) \/ Completion(a)
          PROVE  FALSE
      BY <2>4 DEF Submit, LoginFails, Completion, SetToken, SetFails, GivesWay, Install
    <2>5. ASSUME NEW a \in Attempts, NEW t \in Tokens, LoginReplies(a, t)
          PROVE  FALSE
      BY <2>5 DEF LoginReplies
    <2>6. ASSUME NEW d \in Cleanups, StartCleanup(d) PROVE FALSE
      <3>1. cleanup[d] = Idle /\ d # c
        BY <2>6 DEF StartCleanup
      <3>. QED  BY <2>6, <3>1 DEF StartCleanup, TypeOK
    <2>7. ASSUME NEW d \in Cleanups, SignOut(d) PROVE FALSE
      BY <2>6, <2>7 DEF SignOut
    <2>8. ASSUME NEW d \in Cleanups, Cleanup(d)
          PROVE  UNCHANGED <<live, storage, status, user, cache>>
      <3>1. CASE LogoutServed(d)
        BY <3>1 DEF LogoutServed
      <3>2. CASE LeaveNewer(d)
        BY <3>2 DEF LeaveNewer, store, cache
      <3>3. CASE DropSession(d)
        <4>1. d = c
          BY <3>3 DEF DropSession, TypeOK
        <4>. QED  BY <3>3, <4>1 DEF DropSession, Superseded
      <3>4. CASE FinishSignOut(d)
        <4>1. d = c
          BY <3>4 DEF FinishSignOut, EndCleanup, TypeOK
        <4>. QED  BY <2>1, <3>4, <4>1 DEF FinishSignOut
      <3>. QED  BY <2>8, <3>1, <3>2, <3>3, <3>4 DEF Cleanup
    <2>9. ASSUME NEW t \in Tokens, Expire(t) PROVE FALSE
      BY <2>9 DEF Expire
    <2>10. ASSUME NEW r \in Requests, NEW kind \in Kinds, Send(r, kind) PROVE FALSE
      BY <2>10 DEF Send
    <2>11. ASSUME NEW r \in Requests, Settle(r) PROVE FALSE
      BY <2>6, <2>11 DEF Settle, Listed, Written, Lost, Denied
    <2>12. ~ UNCHANGED vars
      BY DEF vars
    <2>. QED
      BY <2>3, <2>4, <2>5, <2>7, <2>8, <2>9, <2>10, <2>11, <2>12 DEF Next
  <1>2. TypeOK /\ SessionInv /\ [Next]_vars => [Stands]_vars
    BY <1>1
  <1>. QED  BY <1>2, SessionInvariant, PTL DEF Spec, NewerSessionStands
=============================================================================
