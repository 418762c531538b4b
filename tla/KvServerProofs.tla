--------------------------- MODULE KvServerProofs ---------------------------
(***************************************************************************)
(* Proofs about KvServer for every set of requests, keys and values, every *)
(* menu of requests, every database at the first start and any number of   *)
(* restarts and of LevelDB errors.                                         *)
(***************************************************************************)
EXTENDS KvServer, WellFoundedInduction, TLAPS

-----------------------------------------------------------------------------
(* The inductive invariant.                                                 *)

Saves(r) == req[r].kind \in {"add", "batch"}

\* A request has the items its handler expects, and its handler is at one of
\* its own labels; only an acknowledged request has a fiber that saves it.
RequestInv ==
  \A r \in Requests :
    /\ req[r].pc = "none" => req[r].kind = "init" /\ req[r].found = {}
    /\ req[r].kind \in {"query", "add", "del"} => Len(req[r].items) = 1
    /\ Saves(r) => req[r].items \in Seq(Pairs)
    /\ req[r].kind = "list" =>
         \A i \in DOMAIN req[r].items : req[r].items[i].key \in Keys
    /\ req[r].pc = "added" => req[r].kind = "add"
    /\ req[r].pc = "adding" => req[r].kind = "batch"
    /\ req[r].pc = "held" => req[r].found = {1}
    /\ req[r].status # 0 => req[r].pc \in {"replied", "past"}
    /\ r \in tasks => Acked(r) /\ req[r].pc = "replied"

\* A pointer that was not raced points to the node of its key.
PointerInv ==
  \A r \in Requests : \A i \in req[r].found :
    /\ req[r].items[i].key \in Keys
    /\ i \notin req[r].raced => memdb[req[r].items[i].key] # Null

\* What is stored under a key was there at the first start or came from a
\* client that sent it for this key.
Origin(k) == ClientSent(k) \cup {InitialDisk[k], Null}

OriginInv ==
  \A k \in Keys :
    memdb[k] \in Origin(k) /\ disk[k] \in Origin(k) /\ snap[k] \in Origin(k)

Visible(k) == memdb[k] # Null \/ last[k] = Gone

\* A key that a handler has added stays visible while the process runs.
VisibleInv ==
  \A r \in Requests :
    /\ req[r].pc = "added" => Visible(req[r].items[1].key)
    /\ req[r].pc = "adding" =>
         \A i \in DOMAIN req[r].items \ req[r].todo : Visible(req[r].items[i].key)

\* While it loads, the loader still has what is on disk and not in the map.
LoadInv ==
  /\ inited => loader = "done"
  /\ loader = "load" /\ ioErrors = 0 =>
       \A k \in Keys : disk[k] # Null => snap[k] # Null \/ Visible(k)

\* What the loader has yet to store is on disk, or a client's write is.
SnapInv ==
  \A k \in Keys : snap[k] \in {Null, disk[k]} \/ disk[k] \in ClientSent(k)

\* The keys that only request r writes.
Sole(r) ==
  {k \in KeysOf(r) : \A q \in Requests \ {r} : Saves(q) => k \notin KeysOf(q)}

\* The database differs from its first state only where a request has written,
\* and has all or none of what a request alone writes.
DiskInv ==
  /\ \A k \in Keys :
       disk[k] # InitialDisk[k] => \E r \in Requests : Saves(r) /\ k \in KeysOf(r)
  /\ \A r \in Requests :
       Saves(r) =>
         \/ \A k \in Sole(r) : disk[k] = InitialDisk[k]
         \/ \A k \in Sole(r) : disk[k] = Put(InitialDisk, req[r].items)[k]

IInv ==
  /\ TypeOK /\ RequestInv /\ PointerInv /\ OriginInv /\ AnswersAligned
  /\ VisibleInv /\ AckedVisible /\ LoadInv /\ LoadedUnlessFailed
  /\ SnapInv /\ NothingOnlyInMemory /\ DiskInv

-----------------------------------------------------------------------------
(* The operators of the model.                                              *)

\* FiniteSetsExt's Max of a non-empty set of indices is one of them.
LEMMA MaxIn ==
  ASSUME NEW n \in Nat, NEW S \in SUBSET (1 .. n), S # {}
  PROVE  Max(S) \in S
  <1> DEFINE T == {n - i : i \in S}
  <1>1. T \subseteq Nat /\ T # {}
    <2>1. \A i \in S : i \in Nat /\ i <= n /\ n - i \in Nat
      OBVIOUS
    <2> QED
      BY Zenon, <2>1
  <1>2. PICK t \in T : \A u \in T : ~(<<u, t>> \in OpToRel(<, Nat))
    BY <1>1, NatLessThanWellFounded, WFMin
  <1>3. PICK x \in S : t = n - x
    OBVIOUS
  <1>4. \A u \in T : ~(u < t)
    BY Zenon, <1>1, <1>2 DEF OpToRel
  <1>5. \A y \in S : x >= y
    BY <1>3, <1>4
  <1> QED
    BY Zenon, <1>5 DEF Max

\* A key that no pair has keeps its value.
LEMMA PutKept ==
  ASSUME NEW d, NEW items, NEW k \in Keys,
         \A i \in DOMAIN items : items[i].key # k
  PROVE  Put(d, items)[k] = d[k]
  BY DEF Put

\* A key that a pair has gets the value of one of its pairs, whatever the
\* database held.
LEMMA PutHit ==
  ASSUME NEW items \in Seq(Pairs), NEW k \in Keys,
         \E i \in DOMAIN items : items[i].key = k
  PROVE  \E i \in DOMAIN items :
           items[i].key = k /\ \A d : Put(d, items)[k] = items[i].value
  <1> DEFINE at == {i \in DOMAIN items : items[i].key = k}
  <1>1. at \in SUBSET (1 .. Len(items)) /\ at # {} /\ Len(items) \in Nat
    OBVIOUS
  <1>2. Max(at) \in at
    BY Zenon, <1>1, MaxIn
  <1>3. \A d : Put(d, items)[k] = items[Max(at)].value
    BY <1>1 DEF Put
  <1> QED
    BY <1>2, <1>3

LEMMA PutType ==
  ASSUME NEW d \in [Keys -> Values \cup {Null}], NEW items \in Seq(Pairs)
  PROVE  Put(d, items) \in [Keys -> Values \cup {Null}]
  <1>1. \A k \in Keys : Put(d, items)[k] \in Values \cup {Null}
    <2> SUFFICES ASSUME NEW k \in Keys
                 PROVE  Put(d, items)[k] \in Values \cup {Null}
      OBVIOUS
    <2>1. CASE \A i \in DOMAIN items : items[i].key # k
      BY <2>1, PutKept
    <2>2. CASE \E i \in DOMAIN items : items[i].key = k
      <3>1. PICK i \in DOMAIN items : Put(d, items)[k] = items[i].value
        BY <2>2, PutHit
      <3>2. items[i] \in Pairs
        OBVIOUS
      <3> QED
        BY <3>1, <3>2 DEF Pairs
    <2> QED
      BY <2>1, <2>2
  <1> QED
    BY <1>1 DEF Put

\* ClientSent without its nested sets.
LEMMA SentIff ==
  ASSUME NEW k, NEW v
  PROVE  v \in ClientSent(k) <=>
           \E r \in Requests :
             Saves(r) /\ \E i \in DOMAIN req[r].items :
                           req[r].items[i].key = k /\ req[r].items[i].value = v
  BY DEF ClientSent, Saves

LEMMA KeysOfIff ==
  ASSUME NEW k, NEW r
  PROVE  k \in KeysOf(r) <=>
           \E i \in DOMAIN req[r].items : req[r].items[i].key = k
  BY DEF KeysOf

LEMMA RepliedIs ==
  ASSUME NEW q \in Handlers, NEW s \in {0, 200, 400, 404}
  PROVE  /\ Replied(q, s) \in Handlers
         /\ Replied(q, s).pc = "replied" /\ Replied(q, s).status = s
         /\ Replied(q, s).kind = q.kind /\ Replied(q, s).items = q.items
         /\ Replied(q, s).todo = {} /\ Replied(q, s).found = {}
         /\ Replied(q, s).raced = {} /\ Replied(q, s).index = q.index
         /\ Replied(q, s).body = q.body
  <1>1. "replied" \in Labels
    BY DEF Labels
  <1>2. Replied(q, s) \in Handlers
    <2>1. {} \in SUBSET Nat
      OBVIOUS
    <2> QED
      BY ZenonT(30), <1>1, <2>1 DEF Replied, Handlers
  <1> QED
    BY <1>1, <1>2 DEF Replied, Handlers

\* w is req but for the pointers to the node of k, which are raced.
RacedCopy(w, k) ==
  /\ w \in [Requests -> Handlers]
  /\ \A q \in Requests :
       /\ w[q].raced =
            req[q].raced \cup {i \in req[q].found : req[q].items[i].key = k}
       /\ w[q].pc = req[q].pc /\ w[q].kind = req[q].kind
       /\ w[q].items = req[q].items /\ w[q].todo = req[q].todo
       /\ w[q].found = req[q].found /\ w[q].index = req[q].index
       /\ w[q].body = req[q].body /\ w[q].status = req[q].status

LEMMA RacesAre ==
  ASSUME TypeOK, NEW k
  PROVE  RacedCopy(WithRaces(k), k)
  <1>1. \A q \in Requests :
          /\ req[q] \in Handlers
          /\ req[q].raced \cup {i \in req[q].found : req[q].items[i].key = k}
               \in SUBSET Nat
    BY DEF TypeOK, Handlers
  <1> QED
    BY <1>1 DEF WithRaces, RacedCopy, Handlers

-----------------------------------------------------------------------------
(* What a step does to the requests.                                        *)

\* A handler's state has its type, and its sets of indices are indices.
Typed(q) ==
  /\ q \in Handlers
  /\ q.todo \cup q.found \cup q.raced \subseteq DOMAIN q.items
  /\ q.index \in 1 .. Len(q.items) + 1

TypedRequests ==
  req = [r \in Requests |-> req[r]] /\ \A r \in Requests : Typed(req[r])

\* The variables other than req have their types.
TypedStore ==
  /\ alive \in BOOLEAN /\ inited \in BOOLEAN
  /\ memdb \in [Keys -> Values \cup {Null}]
  /\ disk \in [Keys -> Values \cup {Null}]
  /\ snap \in [Keys -> Values \cup {Null}]
  /\ db \in {"null", "open"}
  /\ loader \in {"open", "iterate", "load", "done", "failed"}
  /\ tasks \subseteq Requests
  /\ restarts \in 0 .. MaxRestarts /\ ioErrors \in 0 .. MaxIOErrors
  /\ last \in [Keys -> Values \cup {Null, Gone}]
  /\ unsaved \subseteq Keys

LEMMA TypeOKParts == TypeOK <=> TypedRequests /\ TypedStore
  BY DEF TypeOK, Typed, TypedRequests, TypedStore

\* The updates of a handler's state that the actions make.
LEMMA PcTyped ==
  ASSUME NEW q, Typed(q), NEW p \in Labels
  PROVE  Typed([q EXCEPT !.pc = p])
  <1>1. q \in Handlers
    BY DEF Typed
  <1>4. [q EXCEPT !.pc = p] \in Handlers
    BY Zenon, <1>1 DEF Handlers
  <1> QED
    BY <1>1, <1>4 DEF Typed, Handlers

LEMMA PcTodoTyped ==
  ASSUME NEW q, Typed(q), NEW p \in Labels, NEW t \in SUBSET DOMAIN q.items
  PROVE  Typed([q EXCEPT !.pc = p, !.todo = t])
  <1>1. q \in Handlers
    BY DEF Typed
  <1>2. DOMAIN q.items = 1 .. Len(q.items) /\ Len(q.items) \in Nat
    BY <1>1 DEF Handlers
  <1>3. t \in SUBSET Nat
    BY <1>2
  <1>4. [q EXCEPT !.pc = p, !.todo = t] \in Handlers
    BY Zenon, <1>1, <1>3 DEF Handlers
  <1> QED
    BY <1>1, <1>4 DEF Typed, Handlers

LEMMA PcFoundTyped ==
  ASSUME NEW q, Typed(q), NEW p \in Labels, NEW f \in SUBSET DOMAIN q.items
  PROVE  Typed([q EXCEPT !.pc = p, !.found = f])
  <1>1. q \in Handlers
    BY DEF Typed
  <1>2. DOMAIN q.items = 1 .. Len(q.items) /\ Len(q.items) \in Nat
    BY <1>1 DEF Handlers
  <1>3. f \in SUBSET Nat
    BY <1>2
  <1>4. [q EXCEPT !.pc = p, !.found = f] \in Handlers
    BY Zenon, <1>1, <1>3 DEF Handlers
  <1> QED
    BY <1>1, <1>4 DEF Typed, Handlers

LEMMA TodoTyped ==
  ASSUME NEW q, Typed(q), NEW t \in SUBSET DOMAIN q.items
  PROVE  Typed([q EXCEPT !.todo = t])
  <1>1. q \in Handlers
    BY DEF Typed
  <1>2. DOMAIN q.items = 1 .. Len(q.items) /\ Len(q.items) \in Nat
    BY <1>1 DEF Handlers
  <1>3. t \in SUBSET Nat
    BY <1>2
  <1>4. [q EXCEPT !.todo = t] \in Handlers
    BY <1>1, <1>3 DEF Handlers
  <1> QED
    BY Zenon, <1>1, <1>4 DEF Typed, Handlers

LEMMA TodoFoundTyped ==
  ASSUME NEW q, Typed(q),
         NEW t \in SUBSET DOMAIN q.items,
         NEW f \in SUBSET DOMAIN q.items
  PROVE  Typed([q EXCEPT !.todo = t, !.found = f])
  <1>1. q \in Handlers
    BY DEF Typed
  <1>2. DOMAIN q.items = 1 .. Len(q.items) /\ Len(q.items) \in Nat
    BY <1>1 DEF Handlers
  <1>3. t \in SUBSET Nat /\ f \in SUBSET Nat
    BY <1>2
  <1>4. [q EXCEPT !.todo = t, !.found = f] \in Handlers
    BY Zenon, <1>1, <1>3 DEF Handlers
  <1> QED
    BY <1>1, <1>4 DEF Typed, Handlers

LEMMA BodyTyped ==
  ASSUME NEW q, Typed(q), NEW b \in Seq(Body)
  PROVE  Typed([q EXCEPT !.body = b])
  <1>1. q \in Handlers
    BY DEF Typed
  <1>4. [q EXCEPT !.body = b] \in Handlers
    BY Zenon, <1>1 DEF Handlers
  <1> QED
    BY <1>1, <1>4 DEF Typed, Handlers

LEMMA IndexTyped ==
  ASSUME NEW q, Typed(q), NEW n \in 1 .. Len(q.items) + 1
  PROVE  Typed([q EXCEPT !.index = n])
  <1>1. q \in Handlers
    BY DEF Typed
  <1>2. DOMAIN q.items = 1 .. Len(q.items) /\ Len(q.items) \in Nat
    BY <1>1 DEF Handlers
  <1>3. n \in Nat
    BY <1>2
  <1>4. [q EXCEPT !.index = n] \in Handlers
    BY Zenon, <1>1, <1>3 DEF Handlers
  <1> QED
    BY Zenon, <1>1, <1>4 DEF Typed, Handlers

LEMMA BodyIndexTyped ==
  ASSUME NEW q, Typed(q), NEW b \in Seq(Body), NEW n \in 1 .. Len(q.items) + 1
  PROVE  Typed([q EXCEPT !.body = b, !.index = n])
  <1>1. q \in Handlers
    BY DEF Typed
  <1>2. DOMAIN q.items = 1 .. Len(q.items) /\ Len(q.items) \in Nat
    BY <1>1 DEF Handlers
  <1>3. n \in Nat
    BY <1>2
  <1>4. [q EXCEPT !.body = b, !.index = n] \in Handlers
    BY Zenon, <1>1, <1>3 DEF Handlers
  <1> QED
    BY <1>1, <1>4 DEF Typed, Handlers

LEMMA SentTyped ==
  ASSUME NEW k \in Kinds, NEW s \in Seq(Items)
  PROVE  Typed([NoRequest EXCEPT !.pc = "start", !.kind = k, !.items = s])
  <1>1. NoRequest \in Handlers /\ "start" \in Labels
    BY DEF NoRequest, Handlers, Labels, Kinds
  <1> DEFINE z == [NoRequest EXCEPT !.pc = "start", !.kind = k, !.items = s]
  <1>2. z \in Handlers
    BY Zenon, <1>1 DEF Handlers
  <1>3. z.items = s /\ z.todo = {} /\ z.found = {} /\ z.raced = {} /\ z.index = 1
    BY <1>1 DEF Handlers, NoRequest
  <1>4. Len(s) \in Nat
    OBVIOUS
  <1> QED
    BY <1>2, <1>3, <1>4 DEF Typed

LEMMA NoRequestTyped == Typed(NoRequest)
  BY DEF Typed, NoRequest, Handlers, Labels, Kinds

LEMMA RepliedTyped ==
  ASSUME NEW q, Typed(q), NEW s \in {0, 200, 400, 404}
  PROVE  Typed(Replied(q, s))
  BY SMTT(30), RepliedIs DEF Typed

LEMMA RacesTyped ==
  ASSUME TypeOK, NEW k
  PROVE  \A q \in Requests : Typed(WithRaces(k)[q])
  BY RacesAre DEF TypeOK, Typed, RacedCopy

\* A step keeps the handlers' types.
LEMMA TypedRequestsStep ==
  ASSUME TypeOK, RequestInv, PointerInv, Next
  PROVE  TypedRequests'
  <1>0. TypedRequests /\ TypedStore
    BY TypeOKParts
  <1>a. \A q \in Requests :
          /\ Typed(req[q]) /\ req[q] \in Handlers
          /\ DOMAIN req[q].items = 1 .. Len(req[q].items)
          /\ Len(req[q].items) \in Nat
    BY <1>0 DEF TypedRequests, Typed, Handlers
  <1>b. {"start", "held", "added", "collect", "adding"} \subseteq Labels
    BY DEF Labels
  <1>c. ASSUME NEW r \in Requests, NEW z, Typed(z), req' = [req EXCEPT ![r] = z]
        PROVE  TypedRequests'
    BY <1>0, <1>c DEF TypedRequests
  <1>d. ASSUME NEW r \in Requests, NEW z, Typed(z), NEW k,
               req' = [WithRaces(k) EXCEPT ![r] = z]
        PROVE  TypedRequests'
    BY Zenon, <1>d, RacesTyped DEF TypedRequests, WithRaces
  <1>e. ASSUME NEW r \in Requests, NEW s \in {0, 200, 400, 404},
               req' = [req EXCEPT ![r] = Replied(@, s)]
        PROVE  TypedRequests'
    <2>1. Typed(Replied(req[r], s))
      BY <1>a, RepliedTyped
    <2> QED
      BY ZenonT(30), <1>c, <1>e, <2>1
  <1>1. ASSUME NEW r \in Requests, Send(r) PROVE TypedRequests'
    <2>1. PICK m \in Menu :
            req' = [req EXCEPT ![r] = [NoRequest EXCEPT !.pc = "start",
                                         !.kind = m.kind, !.items = m.items]]
      BY <1>1 DEF Send
    <2>2. m.kind \in Kinds /\ m.items \in Seq(Items)
      BY MenuAssumption
    <2> QED
      BY ZenonT(30), <1>c, <2>1, <2>2, SentTyped
  <1>2. ASSUME NEW r \in Requests, QueryKey(r) PROVE TypedRequests'
    <2>1. {1} \in SUBSET DOMAIN req[r].items
      BY <1>2, <1>a DEF QueryKey, At, RequestInv
    <2>2. Typed([req[r] EXCEPT !.pc = "held", !.found = {1}])
      BY <1>a, <1>b, <2>1, PcFoundTyped
    <2>3. CASE req' = [req EXCEPT ![r].pc = "held", ![r].found = {1}]
      BY <1>0, <2>2, <2>3 DEF TypedRequests
    <2> QED
      BY <1>2, <1>e, <2>3 DEF QueryKey
  <1>3. ASSUME NEW r \in Requests, QueryReply(r) PROVE TypedRequests'
    <2>1. PICK v \in Deref(r, 1) :
            req' = [req EXCEPT ![r] =
                      Replied([req[r] EXCEPT !.body = <<Entry(r, 1, v)>>], 200)]
      BY Zenon, <1>3 DEF QueryReply
    <2>2. 1 \in req[r].found
      BY <1>3 DEF QueryReply, At, RequestInv
    <2>3. <<Entry(r, 1, v)>> \in Seq(Body)
      <3>1. Entry(r, 1, v) \in Body
        BY <1>0, <2>2 DEF TypedStore, PointerInv, Deref, Entry, Body
      <3> QED
        BY <3>1
    <2>4. Typed([req[r] EXCEPT !.body = <<Entry(r, 1, v)>>])
      BY Zenon, <1>a, <2>3, BodyTyped
    <2>5. Typed(Replied([req[r] EXCEPT !.body = <<Entry(r, 1, v)>>], 200))
      BY <2>4, RepliedTyped
    <2> QED
      BY Zenon, <1>c, <2>1, <2>5
  <1>4. ASSUME NEW r \in Requests, AddKey(r) PROVE TypedRequests'
    <2>1. ASSUME NEW k, req' = [WithRaces(k) EXCEPT ![r].pc = "added"]
          PROVE  TypedRequests'
      <3>1. Typed(WithRaces(k)[r])
        BY RacesTyped
      <3>2. Typed([WithRaces(k)[r] EXCEPT !.pc = "added"])
        BY <1>b, <3>1, PcTyped
      <3> QED
        BY Zenon, <1>d, <2>1, <3>2
    <2>2. \/ req' = [req EXCEPT ![r] = Replied(@, 400)]
          \/ \E k : req' = [WithRaces(k) EXCEPT ![r].pc = "added"]
      BY <1>4 DEF AddKey
    <2> QED
      BY <1>e, <2>1, <2>2
  <1>5. ASSUME NEW r \in Requests, AddReply(r) PROVE TypedRequests'
    BY ZenonT(30), <1>e, <1>5 DEF AddReply
  <1>6. ASSUME NEW r \in Requests, DelKey(r) PROVE TypedRequests'
    <2>1. ASSUME NEW k, req' = [WithRaces(k) EXCEPT ![r] = Replied(@, 200)]
          PROVE  TypedRequests'
      <3>1. Typed(WithRaces(k)[r])
        BY RacesTyped
      <3>2. Typed(Replied(WithRaces(k)[r], 200))
        BY <3>1, RepliedTyped
      <3> QED
        BY Zenon, <1>d, <2>1, <3>2
    <2> QED
      BY <1>6, <1>e, <2>1 DEF DelKey
  <1>7. ASSUME NEW r \in Requests, ListStart(r) PROVE TypedRequests'
    <2>1. DOMAIN req[r].items \in SUBSET DOMAIN req[r].items
      OBVIOUS
    <2>2. Typed([req[r] EXCEPT !.pc = "collect", !.todo = DOMAIN req[r].items])
      BY <1>a, <1>b, <2>1, PcTodoTyped
    <2>3. CASE req' = [req EXCEPT ![r].pc = "collect",
                                  ![r].todo = DOMAIN req[r].items]
      BY <1>0, <2>2, <2>3 DEF TypedRequests
    <2> QED
      BY <1>e, <1>7, <2>3 DEF ListStart
  <1>8. ASSUME NEW r \in Requests, ListCollect(r) PROVE TypedRequests'
    <2> DEFINE i == req[r].index
    <2>1. NextIndex(r) \in 1 .. Len(req[r].items) + 1
      BY <1>a, <1>8 DEF ListCollect, NextIndex, Typed
    <2>2. ASSUME i \in req[r].found, NEW v \in Deref(r, i),
                 req' = [req EXCEPT ![r].body = Append(@, Entry(r, i, v)),
                                    ![r].index = NextIndex(r)]
          PROVE  TypedRequests'
      <3>1. Append(req[r].body, Entry(r, i, v)) \in Seq(Body)
        <4>1. Entry(r, i, v) \in Body
          BY <1>0, <2>2 DEF TypedStore, PointerInv, Deref, Entry, Body
        <4>2. req[r].body \in Seq(Body)
          BY <1>a DEF Handlers
        <4> QED
          BY <4>1, <4>2
      <3>2. Typed([req[r] EXCEPT !.body = Append(req[r].body, Entry(r, i, v)),
                                 !.index = NextIndex(r)])
        BY <1>a, <2>1, <3>1, BodyIndexTyped
      <3> QED
        BY Zenon, <1>0, <2>2, <3>2 DEF TypedRequests
    <2>3. CASE req' = [req EXCEPT ![r].index = NextIndex(r)]
      <3>1. Typed([req[r] EXCEPT !.index = NextIndex(r)])
        BY <1>a, <2>1, IndexTyped
      <3> QED
        BY <1>0, <2>3, <3>1 DEF TypedRequests
    <2> QED
      BY Zenon, <1>8, <2>2, <2>3 DEF ListCollect
  <1>9. ASSUME NEW r \in Requests, ListReply(r) PROVE TypedRequests'
    <2>1. PICK s \in {0, 200, 400, 404} :
            req' = [req EXCEPT ![r] = Replied(req[r], s)]
      BY ZenonT(30), <1>9 DEF ListReply
    <2>2. Typed(Replied(req[r], s))
      BY <1>a, RepliedTyped
    <2> QED
      BY <1>c, <2>1, <2>2
  <1>10. ASSUME NEW r \in Requests, BatchStart(r) PROVE TypedRequests'
    <2>1. DOMAIN req[r].items \in SUBSET DOMAIN req[r].items
      OBVIOUS
    <2>2. Typed([req[r] EXCEPT !.pc = "adding", !.todo = DOMAIN req[r].items])
      BY <1>a, <1>b, <2>1, PcTodoTyped
    <2> QED
      BY <1>0, <1>10, <2>2 DEF TypedRequests, BatchStart
  <1>11. ASSUME NEW r \in Requests, BatchReply(r) PROVE TypedRequests'
    BY Zenon, <1>e, <1>11 DEF BatchReply
  <1>12. ASSUME NEW r \in Requests, InitQuery(r) PROVE TypedRequests'
    <2>1. PICK s \in {0, 200, 400, 404} :
            req' = [req EXCEPT ![r] = Replied(req[r], s)]
      BY ZenonT(30), <1>12 DEF InitQuery
    <2>2. Typed(Replied(req[r], s))
      BY <1>a, RepliedTyped
    <2> QED
      BY <1>c, <2>1, <2>2
  <1>13. ASSUME NEW r \in Requests, NEW i \in req[r].todo, ListQuery(r, i)
         PROVE  TypedRequests'
    <2> DEFINE found == IF memdb[req[r].items[i].key] = Null
                        THEN req[r].found ELSE req[r].found \cup {i}
    <2>1. /\ req[r].todo \ {i} \in SUBSET DOMAIN req[r].items
          /\ found \in SUBSET DOMAIN req[r].items
      BY <1>a DEF Typed
    <2>2. Typed([req[r] EXCEPT !.todo = req[r].todo \ {i}, !.found = found])
      BY ZenonT(30), <1>a, <2>1, TodoFoundTyped
    <2> QED
      BY <1>0, <1>13, <2>2 DEF TypedRequests, ListQuery
  <1>14. ASSUME NEW r \in Requests, NEW i \in req[r].todo, BatchAdd(r, i)
         PROVE  TypedRequests'
    <2> DEFINE k == req[r].items[i].key
    <2>1. Typed(WithRaces(k)[r])
      BY SMTT(30), RacesTyped
    <2>2. WithRaces(k)[r].todo \ {i} \in SUBSET DOMAIN WithRaces(k)[r].items
      BY SMTT(30), <2>1 DEF Typed
    <2>3. Typed([WithRaces(k)[r] EXCEPT !.todo = WithRaces(k)[r].todo \ {i}])
      BY <2>1, <2>2, TodoTyped
    <2>4. req' = [WithRaces(k) EXCEPT ![r].todo = @ \ {i}]
      BY <1>14 DEF BatchAdd
    <2> QED
      BY <1>d, <2>3, <2>4
  <1>15. CASE LoadOne
    <2>1. PICK k \in Keys : req' = WithRaces(k)
      BY <1>15 DEF LoadOne
    <2>2. req' = [r \in Requests |-> req'[r]]
      BY <2>1 DEF WithRaces
    <2> QED
      BY <2>1, <2>2, RacesTyped DEF TypedRequests
  <1>16. CASE Die
    <2>1. ASSUME NEW r \in Requests
          PROVE  Typed([Replied(req[r], req[r].status) EXCEPT !.pc = "past"])
      <3>1. req[r].status \in {0, 200, 400, 404}
        BY <1>a DEF Handlers
      <3>2. Typed(Replied(req[r], req[r].status))
        BY <1>a, <3>1, RepliedTyped
      <3>3. "past" \in Labels
        BY DEF Labels
      <3> QED
        BY <3>2, <3>3, PcTyped
    <2> QED
      BY <1>a, <1>16, <2>1 DEF TypedRequests, Die
  <1>17. CASE UNCHANGED req
    BY <1>0, <1>17 DEF TypedRequests
  <1> QED
    BY <1>1, <1>2, <1>3, <1>4, <1>5, <1>6, <1>7, <1>8, <1>9, <1>10, <1>11,
       <1>12, <1>13, <1>14, <1>15, <1>16, <1>17
       DEF Next, Handle, Save, Load, Kill, PersistNull, Persist, OpenDb,
           NewIterator, LoadEnd, Restart

LEMMA TypedStoreStep ==
  ASSUME TypeOK, RequestInv, Next
  PROVE  TypedStore'
  <1>0. TypedRequests /\ TypedStore
    BY TypeOKParts
  <1>a. ASSUME NEW k \in Keys, NEW v \in Values, ClientAdd(k, v),
               UNCHANGED <<alive, tasks, database>>
        PROVE  TypedStore'
    BY <1>0, <1>a DEF TypedStore, ClientAdd, MemAdd, database
  <1>b. ASSUME UNCHANGED <<alive, memdb, last, database>>,
               tasks' \subseteq Requests
        PROVE  TypedStore'
    BY <1>0, <1>b DEF TypedStore, database
  <1>c. ASSUME NEW r \in Requests, Saves(r)
        PROVE  \A i \in DOMAIN req[r].items :
                 req[r].items[i].key \in Keys /\ req[r].items[i].value \in Values
    <2>1. req[r].items \in Seq(Pairs)
      BY <1>c DEF RequestInv
    <2>2. \A i \in DOMAIN req[r].items : req[r].items[i] \in Pairs
      BY <2>1
    <2> QED
      BY <2>2 DEF Pairs
  <1>d. \A r \in Requests :
          /\ DOMAIN req[r].items = 1 .. Len(req[r].items)
          /\ req[r].todo \subseteq DOMAIN req[r].items
    BY SMTT(30) DEF TypeOK, Handlers
  <1>1. ASSUME NEW r \in Requests, AddKey(r) PROVE TypedStore'
    <2>1. Saves(r) /\ 1 \in DOMAIN req[r].items
      <3>1. req[r].kind = "add"
        BY <1>1 DEF AddKey, At
      <3>2. Len(req[r].items) = 1
        BY SMTT(30), <3>1 DEF RequestInv
      <3> QED
        BY SMTT(30), <1>d, <3>1, <3>2 DEF Saves
    <2>2. tasks' \subseteq Requests
      BY <1>0, <1>1 DEF AddKey, TypedStore
    <2> QED
      BY <1>1, <1>a, <1>b, <1>c, <2>1, <2>2 DEF AddKey
  <1>2. ASSUME NEW r \in Requests, DelKey(r) PROVE TypedStore'
    <2>1. req[r].items[1].key \in Keys \cup {Null}
      <3>1. req[r].items \in Seq(Items) /\ Len(req[r].items) = 1
        BY <1>2 DEF DelKey, At, RequestInv, TypeOK, Handlers
      <3>2. req[r].items[1] \in Items
        BY <3>1
      <3> QED
        BY <3>2 DEF Items
    <2> QED
      BY <1>0, <1>2, <2>1 DEF DelKey, TypedStore, database
  <1>3. ASSUME NEW r \in Requests, NEW i \in req[r].todo, BatchAdd(r, i)
        PROVE  TypedStore'
    <2>1. Saves(r) /\ i \in DOMAIN req[r].items
      BY <1>3, <1>d DEF BatchAdd, At, Saves
    <2> QED
      BY <1>3, <1>a, <1>c, <2>1 DEF BatchAdd
  <1>4. ASSUME NEW r \in Requests, Persist(r) PROVE TypedStore'
    <2>1. Saves(r)
      BY <1>4 DEF Persist, RequestInv, Acked, Saves
    <2>2. Written(r) \in [Keys -> Values \cup {Null}]
      <3>1. req[r].items \in Seq(Pairs)
        BY <2>1 DEF RequestInv
      <3> QED
        BY <1>0, <3>1, PutType DEF Written, TypedStore
    <2>3. KeysOf(r) \subseteq Keys
      BY <1>c, <2>1 DEF KeysOf
    <2> QED
      BY <1>0, <1>4, <2>2, <2>3, BoundAssumption DEF Persist, TypedStore, IOError
  <1>5. CASE LoadOne
    BY <1>0, <1>5 DEF LoadOne, MemAdd, TypedStore
  <1>6. CASE OpenDb \/ NewIterator
    BY <1>0, <1>6, BoundAssumption
       DEF OpenDb, NewIterator, IOError, TypedStore
  <1>9. CASE LoadEnd
    BY <1>0, <1>9, BoundAssumption DEF LoadEnd, IOError, TypedStore
  <1>10. CASE Die
    BY <1>0, <1>10 DEF Die, TypedStore
  <1>11. CASE Restart
    BY <1>0, <1>11, BoundAssumption DEF Restart, TypedStore
  <1>7. ASSUME NEW r \in Requests, AddReply(r) \/ BatchReply(r)
        PROVE  TypedStore'
    BY <1>0, <1>7, <1>b DEF AddReply, BatchReply, TypedStore
  <1>8. CASE UNCHANGED <<alive, memdb, tasks, last, database>>
    BY <1>0, <1>8, <1>b DEF TypedStore
  <1> QED
    BY ZenonT(30), <1>1, <1>2, <1>3, <1>4, <1>5, <1>6, <1>7, <1>8, <1>9, <1>10, <1>11
       DEF Next, Handle, Save, Load, Kill, PersistNull, Send, QueryKey,
           QueryReply, ListStart, ListCollect, ListReply, BatchStart,
           InitQuery, ListQuery

LEMMA TypeStep ==
  ASSUME TypeOK, RequestInv, PointerInv, Next
  PROVE  TypeOK'
  <1>1. TypedRequests' /\ TypedStore'
    BY TypedRequestsStep, TypedStoreStep
  <1> QED
    BY <1>1 DEF TypeOK, Typed, TypedRequests, TypedStore

\* The forms of the steps that write to the map or read through a pointer.
LEMMA AddKeyForm ==
  ASSUME TypeOK, RequestInv, NEW r \in Requests, AddKey(r)
  PROVE  \/ /\ req' = [req EXCEPT ![r] = Replied(req[r], 400)]
            /\ UNCHANGED <<memdb, last>>
         \/ \E w : \E k \in Keys : \E v \in Values :
              /\ k = req[r].items[1].key /\ v = req[r].items[1].value
              /\ memdb' = [memdb EXCEPT ![k] = v] /\ last' = [last EXCEPT ![k] = v]
              /\ RacedCopy(w, k) /\ req' = [w EXCEPT ![r].pc = "added"]
  <1>1. req[r].items \in Seq(Pairs) /\ Len(req[r].items) = 1
    BY DEF AddKey, At, RequestInv, Saves
  <1>2. req[r].items[1] \in Pairs
    BY <1>1
  <1>3. req[r].items[1].key \in Keys /\ req[r].items[1].value \in Values
    BY <1>2 DEF Pairs
  <1>4. RacedCopy(WithRaces(req[r].items[1].key), req[r].items[1].key)
    BY RacesAre
  <1> QED
    BY ZenonT(30), <1>3, <1>4 DEF AddKey, ClientAdd, MemAdd

LEMMA DelKeyForm ==
  ASSUME TypeOK, RequestInv, NEW r \in Requests, DelKey(r)
  PROVE  \/ /\ req' = [req EXCEPT ![r] = Replied(req[r], 400)]
            /\ UNCHANGED <<memdb, last>>
         \/ \E w : \E k \in Keys :
              /\ memdb' = [memdb EXCEPT ![k] = Null]
              /\ last' = [last EXCEPT ![k] = Gone]
              /\ RacedCopy(w, k) /\ req' = [w EXCEPT ![r] = Replied(w[r], 200)]
  <1>1. req[r].items \in Seq(Items) /\ Len(req[r].items) = 1
    BY DEF DelKey, At, RequestInv, TypeOK, Handlers
  <1>2. req[r].items[1] \in Items
    BY <1>1
  <1>3. req[r].items[1].key \in Keys \cup {Null}
    BY <1>2 DEF Items
  <1>4. RacedCopy(WithRaces(req[r].items[1].key), req[r].items[1].key)
    BY RacesAre
  <1> QED
    BY SMTT(30), <1>3, <1>4 DEF DelKey

LEMMA BatchAddForm ==
  ASSUME TypeOK, RequestInv, NEW r \in Requests, NEW i \in req[r].todo,
         BatchAdd(r, i)
  PROVE  \E w, k, v, t :
           /\ k \in Keys /\ v \in Values /\ t \in SUBSET Nat
           /\ k = req[r].items[i].key /\ v = req[r].items[i].value
           /\ memdb' = [memdb EXCEPT ![k] = v] /\ last' = [last EXCEPT ![k] = v]
           /\ t = req[r].todo \ {i}
           /\ RacedCopy(w, k) /\ req' = [w EXCEPT ![r].todo = t]
  <1>1. req[r].items \in Seq(Pairs) /\ i \in DOMAIN req[r].items
    BY DEF BatchAdd, At, RequestInv, Saves, TypeOK
  <1>2. req[r].items[i] \in Pairs
    BY <1>1
  <1>3. req[r].items[i].key \in Keys /\ req[r].items[i].value \in Values
    BY <1>2 DEF Pairs
  <1>4. RacedCopy(WithRaces(req[r].items[i].key), req[r].items[i].key)
    BY RacesAre
  <1>5. req[r].todo \ {i} \in SUBSET Nat
    BY DEF TypeOK, Handlers
  <1>6. WithRaces(req[r].items[i].key)[r].todo = req[r].todo
    BY <1>4 DEF RacedCopy
  <1>7. req' = [WithRaces(req[r].items[i].key) EXCEPT ![r].todo = req[r].todo \ {i}]
    BY <1>6 DEF BatchAdd
  <1>8. /\ memdb' = [memdb EXCEPT ![req[r].items[i].key] = req[r].items[i].value]
        /\ last' = [last EXCEPT ![req[r].items[i].key] = req[r].items[i].value]
    BY DEF BatchAdd, ClientAdd, MemAdd
  <1> QED
    BY Zenon, <1>3, <1>4, <1>5, <1>7, <1>8

LEMMA LoadOneForm ==
  ASSUME TypeOK, LoadOne
  PROVE  \E k \in Keys :
           /\ snap[k] # Null
           /\ memdb' = [memdb EXCEPT ![k] = snap[k]]
           /\ snap' = [snap EXCEPT ![k] = Null]
           /\ RacedCopy(req', k)
  BY Zenon, RacesAre DEF LoadOne, MemAdd

\* A pointer of the index that is read was found.
LEMMA QueryReplyForm ==
  ASSUME TypeOK, RequestInv, PointerInv, NEW r \in Requests, QueryReply(r)
  PROVE  \E z \in Handlers : \E v \in Deref(r, 1) :
           /\ 1 \in req[r].found /\ z.body = <<Entry(r, 1, v)>>
           /\ z.kind = req[r].kind /\ z.items = req[r].items
           /\ req' = [req EXCEPT ![r] = Replied(z, 200)]
  <1>1. PICK v \in Deref(r, 1) :
          req' = [req EXCEPT ![r] =
                    Replied([req[r] EXCEPT !.body = <<Entry(r, 1, v)>>], 200)]
    BY Zenon DEF QueryReply
  <1>2. 1 \in req[r].found /\ req[r] \in Handlers
    BY DEF QueryReply, At, RequestInv, TypeOK
  <1>3. <<Entry(r, 1, v)>> \in Seq(Body)
    <2>1. Entry(r, 1, v) \in Body
      BY <1>2 DEF TypeOK, PointerInv, Deref, Entry, Body
    <2> QED
      BY <2>1
  <1> DEFINE z == [req[r] EXCEPT !.body = <<Entry(r, 1, v)>>]
  <1>4. /\ z \in Handlers /\ z.body = <<Entry(r, 1, v)>>
        /\ z.kind = req[r].kind /\ z.items = req[r].items
    BY Zenon, <1>2, <1>3 DEF Handlers
  <1> QED
    BY Zenon, <1>1, <1>2, <1>4

LEMMA ListCollectForm ==
  ASSUME TypeOK, PointerInv, NEW r \in Requests, ListCollect(r)
  PROVE  \E n \in Nat :
           \/ req' = [req EXCEPT ![r].index = n]
           \/ /\ req[r].index \in req[r].found
              /\ \E b \in Seq(Body), v \in Deref(r, req[r].index) :
                   /\ b = Append(req[r].body, Entry(r, req[r].index, v))
                   /\ req' = [req EXCEPT ![r].body = b, ![r].index = n]
  <1> DEFINE i == req[r].index
  <1>1. NextIndex(r) \in Nat /\ req[r].body \in Seq(Body)
    BY DEF TypeOK, Handlers, NextIndex
  <1>2. ASSUME i \in req[r].found, NEW v \in Deref(r, i)
        PROVE  Append(req[r].body, Entry(r, i, v)) \in Seq(Body)
    <2>1. Entry(r, i, v) \in Body
      BY <1>2 DEF TypeOK, PointerInv, Deref, Entry, Body
    <2> QED
      BY <1>1, <2>1
  <1> QED
    BY Zenon, <1>1, <1>2 DEF ListCollect

\* The process dies: the answered requests are past, the others unchanged.
LEMMA DieForm ==
  ASSUME TypeOK, Die
  PROVE  \A q \in Requests :
           \/ req[q].pc = "none" /\ req'[q] = req[q]
           \/ /\ req[q].pc # "none" /\ req'[q].pc = "past"
              /\ req'[q].kind = req[q].kind /\ req'[q].items = req[q].items
              /\ req'[q].found = {} /\ req'[q].body = req[q].body
              /\ req'[q].status = req[q].status
  <1> SUFFICES ASSUME NEW q \in Requests, req[q].pc # "none"
               PROVE  /\ req'[q].pc = "past"
                      /\ req'[q].kind = req[q].kind /\ req'[q].items = req[q].items
                      /\ req'[q].found = {} /\ req'[q].body = req[q].body
                      /\ req'[q].status = req[q].status
    BY Zenon DEF Die
  <1>1. req[q] \in Handlers /\ req[q].status \in {0, 200, 400, 404}
    BY DEF TypeOK, Handlers
  <1>2. PICK z \in Handlers :
          /\ z.kind = req[q].kind /\ z.items = req[q].items /\ z.found = {}
          /\ z.body = req[q].body /\ z.status = req[q].status
          /\ z = Replied(req[q], req[q].status)
    BY <1>1, RepliedIs
  <1>3. req'[q] = [z EXCEPT !.pc = "past"]
    BY <1>2 DEF Die
  <1> QED
    BY <1>2, <1>3 DEF Handlers

LEMMA SendForm ==
  ASSUME NEW r \in Requests, Send(r)
  PROVE  \E z \in Handlers :
           /\ req' = [req EXCEPT ![r] = z]
           /\ z.pc = "start" /\ z.status = 0 /\ z.body = <<>> /\ z.found = {}
           /\ \E m \in Menu : z.kind = m.kind /\ z.items = m.items
  <1>1. PICK m \in Menu :
          req' = [req EXCEPT ![r] = [NoRequest EXCEPT !.pc = "start",
                                       !.kind = m.kind, !.items = m.items]]
    BY DEF Send
  <1> DEFINE z == [NoRequest EXCEPT !.pc = "start", !.kind = m.kind,
                                    !.items = m.items]
  <1>2. z \in Handlers
    BY MenuAssumption, SentTyped DEF Typed
  <1>3. /\ z.pc = "start" /\ z.status = 0 /\ z.body = <<>> /\ z.found = {}
        /\ z.kind = m.kind /\ z.items = m.items
    BY DEF NoRequest
  <1> QED
    BY ZenonT(30), <1>1, <1>2, <1>3

LEMMA RequestStep ==
  ASSUME TypeOK, RequestInv, PointerInv, Next
  PROVE  RequestInv'
  <1>0. req \in [Requests -> Handlers]
    BY DEF TypeOK
  <1> USE <1>0
  <1>1. ASSUME NEW r \in Requests, Send(r) PROVE RequestInv'
    <2>1. UNCHANGED tasks /\ req[r].pc = "none"
      BY <1>1 DEF Send
    <2> QED
      <3>1. PICK z \in Handlers :
              /\ req' = [req EXCEPT ![r] = z]
              /\ z.pc = "start" /\ z.status = 0 /\ z.found = {}
              /\ \E m \in Menu : z.kind = m.kind /\ z.items = m.items
        BY <1>1, SendForm
      <3>2. /\ z.kind \in {"query", "add", "del"} => Len(z.items) = 1
            /\ z.kind \in {"add", "batch"} => z.items \in Seq(Pairs)
            /\ z.kind = "list" => \A i \in DOMAIN z.items : z.items[i].key \in Keys
        BY <3>1, MenuAssumption
      <3> QED
        BY <2>1, <3>1, <3>2 DEF RequestInv, Acked, Saves
  <1>2. ASSUME NEW r \in Requests, QueryKey(r) PROVE RequestInv'
    <2>1. UNCHANGED tasks /\ req[r].kind = "query" /\ req[r].pc = "start"
      BY <1>2 DEF QueryKey, At
    <2>2. ASSUME NEW s \in {400, 404}, req' = [req EXCEPT ![r] = Replied(req[r], s)]
          PROVE  RequestInv'
      BY <2>1, <2>2 DEF RequestInv, Acked, Saves, Handlers, Replied
    <2>3. CASE req' = [req EXCEPT ![r].pc = "held", ![r].found = {1}]
      BY <2>1, <2>3 DEF RequestInv, Acked, Saves, Handlers
    <2> QED
      BY <1>2, <2>2, <2>3 DEF QueryKey
  <1>3. ASSUME NEW r \in Requests, QueryReply(r) PROVE RequestInv'
    <2>1. PICK z \in Handlers :
            /\ z.kind = req[r].kind /\ z.items = req[r].items
            /\ req' = [req EXCEPT ![r] = Replied(z, 200)]
      BY <1>3, QueryReplyForm
    <2> QED
      BY <1>3, <2>1
         DEF RequestInv, Acked, Saves, Handlers, QueryReply, At, Replied
  <1>4. ASSUME NEW r \in Requests, AddKey(r) PROVE RequestInv'
    <2>1. UNCHANGED tasks /\ req[r].kind = "add" /\ req[r].pc = "start"
      BY <1>4 DEF AddKey, At
    <2>2. CASE req' = [req EXCEPT ![r] = Replied(req[r], 400)]
      BY <2>1, <2>2 DEF RequestInv, Acked, Saves, Handlers, Replied
    <2>3. ASSUME NEW w, NEW k, RacedCopy(w, k), req' = [w EXCEPT ![r].pc = "added"]
          PROVE  RequestInv'
      BY <2>1, <2>3 DEF RequestInv, Acked, Saves, Handlers, RacedCopy
    <2> QED
      BY SMTT(30), <1>4, <2>2, <2>3, AddKeyForm
  <1>5. ASSUME NEW r \in Requests, AddReply(r) PROVE RequestInv'
    BY <1>5 DEF RequestInv, Acked, Saves, Handlers, AddReply, At, Replied
  <1>6. ASSUME NEW r \in Requests, DelKey(r) PROVE RequestInv'
    <2>1. UNCHANGED tasks /\ req[r].kind = "del" /\ req[r].pc = "start"
      BY <1>6 DEF DelKey, At
    <2>2. CASE req' = [req EXCEPT ![r] = Replied(req[r], 400)]
      BY <2>1, <2>2 DEF RequestInv, Acked, Saves, Handlers, Replied
    <2>3. ASSUME NEW w, NEW k, RacedCopy(w, k),
                 req' = [w EXCEPT ![r] = Replied(w[r], 200)]
          PROVE  RequestInv'
      BY <2>1, <2>3 DEF RequestInv, Acked, Saves, Handlers, RacedCopy, Replied
    <2> QED
      BY <1>6, <2>2, <2>3, DelKeyForm
  <1>7. ASSUME NEW r \in Requests, ListStart(r) PROVE RequestInv'
    <2>1. UNCHANGED tasks /\ req[r].kind = "list" /\ req[r].pc = "start"
      BY <1>7 DEF ListStart, At
    <2>2. CASE req' = [req EXCEPT ![r] = Replied(req[r], 400)]
      BY <2>1, <2>2 DEF RequestInv, Acked, Saves, Handlers, Replied
    <2>3. CASE req' = [req EXCEPT ![r].pc = "collect",
                                  ![r].todo = DOMAIN req[r].items]
      BY <2>1, <2>3 DEF RequestInv, Acked, Saves, Handlers
    <2> QED
      BY <1>7, <2>2, <2>3 DEF ListStart
  <1>8. ASSUME NEW r \in Requests, ListCollect(r) PROVE RequestInv'
    <2>1. UNCHANGED tasks
      BY <1>8 DEF ListCollect
    <2>2. ASSUME NEW n \in Nat, req' = [req EXCEPT ![r].index = n]
          PROVE  RequestInv'
      BY <2>1, <2>2 DEF RequestInv, Acked, Saves, Handlers
    <2>3. ASSUME NEW n \in Nat, NEW b \in Seq(Body),
                 req' = [req EXCEPT ![r].body = b, ![r].index = n]
          PROVE  RequestInv'
      BY <2>1, <2>3 DEF RequestInv, Acked, Saves, Handlers
    <2> QED
      BY Zenon, <1>8, <2>2, <2>3, ListCollectForm
  <1>9. ASSUME NEW r \in Requests, ListReply(r) PROVE RequestInv'
    BY <1>9 DEF RequestInv, Acked, Saves, Handlers, ListReply, At, Replied
  <1>10. ASSUME NEW r \in Requests, BatchStart(r) PROVE RequestInv'
    BY <1>10 DEF RequestInv, Acked, Saves, Handlers, BatchStart, At
  <1>11. ASSUME NEW r \in Requests, BatchReply(r) PROVE RequestInv'
    BY <1>11 DEF RequestInv, Acked, Saves, Handlers, BatchReply, At, Replied
  <1>12. ASSUME NEW r \in Requests, InitQuery(r) PROVE RequestInv'
    BY <1>12 DEF RequestInv, Acked, Saves, Handlers, InitQuery, At, Replied
  <1>13. ASSUME NEW r \in Requests, NEW i \in req[r].todo, ListQuery(r, i)
         PROVE  RequestInv'
    BY <1>13 DEF RequestInv, Acked, Saves, Handlers, ListQuery, At
  <1>14. ASSUME NEW r \in Requests, NEW i \in req[r].todo, BatchAdd(r, i)
         PROVE  RequestInv'
    <2>1. UNCHANGED tasks
      BY <1>14 DEF BatchAdd
    <2>2. PICK w, k, t : RacedCopy(w, k) /\ req' = [w EXCEPT ![r].todo = t]
      BY <1>14, BatchAddForm
    <2> QED
      BY <2>1, <2>2 DEF RequestInv, Acked, Saves, Handlers, RacedCopy
  <1>15. CASE LoadOne
    <2>1. UNCHANGED tasks
      BY <1>15 DEF LoadOne
    <2>2. PICK k : RacedCopy(req', k)
      BY <1>15, LoadOneForm
    <2> QED
      BY <2>1, <2>2 DEF RequestInv, Acked, Saves, RacedCopy
  <1>16. CASE Die
    <2>1. tasks' = {}
      BY <1>16 DEF Die
    <2> QED
      BY <1>16, <2>1, DieForm DEF RequestInv, Acked, Saves
  <1>17. CASE UNCHANGED <<req, tasks>>
    BY <1>17 DEF RequestInv, Acked, Saves, Handlers
  <1>18. ASSUME NEW r \in Requests, Persist(r) PROVE RequestInv'
    BY SMTT(30), <1>18 DEF RequestInv, Acked, Saves, Handlers, Persist
  <1> QED
    BY SMTT(30), <1>1, <1>2, <1>3, <1>4, <1>5, <1>6, <1>7, <1>8, <1>9, <1>10, <1>11,
       <1>12, <1>13, <1>14, <1>15, <1>16, <1>17, <1>18
       DEF Next, Handle, Save, Load, Kill, PersistNull, OpenDb,
           NewIterator, LoadEnd, Restart

LEMMA PointerStep ==
  ASSUME TypeOK, RequestInv, PointerInv, Next
  PROVE  PointerInv'
  <1>0. /\ req \in [Requests -> Handlers]
        /\ memdb \in [Keys -> Values \cup {Null}] /\ Null \notin Values
        /\ snap \in [Keys -> Values \cup {Null}]
    BY SentinelAssumption DEF TypeOK
  <1>r. ASSUME NEW r \in Requests, NEW z \in Handlers, z.found = {},
               req' = [req EXCEPT ![r] = z], UNCHANGED memdb
        PROVE  PointerInv'
    BY <1>0, <1>r DEF PointerInv
  <1>1. ASSUME NEW r \in Requests, Send(r) PROVE PointerInv'
    <2>1. UNCHANGED memdb
      BY <1>1 DEF Send
    <2> QED
      BY <1>1, <1>r, <2>1, SendForm
  <1>2. ASSUME NEW r \in Requests, QueryKey(r) PROVE PointerInv'
    <2>1. UNCHANGED memdb
      BY <1>2 DEF QueryKey
    <2>2. CASE /\ req[r].items[1].key # Null /\ memdb[req[r].items[1].key] # Null
               /\ req' = [req EXCEPT ![r].pc = "held", ![r].found = {1}]
      <3>1. req[r].items \in Seq(Items) /\ Len(req[r].items) = 1
        BY <1>2 DEF QueryKey, At, RequestInv, TypeOK, Handlers
      <3>2. req[r].items[1] \in Items
        BY <3>1
      <3>3. req[r].items[1].key \in Keys
        BY <2>2, <3>2 DEF Items
      <3> QED
        BY <1>0, <2>1, <2>2, <3>3 DEF PointerInv, Handlers
    <2>3. CASE req' = [req EXCEPT ![r] = Replied(req[r], 400)]
      BY <1>0, <2>1, <2>3 DEF PointerInv, Replied, Handlers
    <2>4. CASE req' = [req EXCEPT ![r] = Replied(req[r], 404)]
      BY <1>0, <2>1, <2>4 DEF PointerInv, Replied, Handlers
    <2> QED
      BY <1>2, <2>2, <2>3, <2>4 DEF QueryKey
  <1>3. ASSUME NEW r \in Requests, QueryReply(r) PROVE PointerInv'
    <2>1. UNCHANGED memdb
      BY <1>3 DEF QueryReply
    <2>2. PICK z \in Handlers : req' = [req EXCEPT ![r] = Replied(z, 200)]
      BY <1>3, QueryReplyForm
    <2>3. Replied(z, 200) \in Handlers /\ Replied(z, 200).found = {}
      BY RepliedIs
    <2> QED
      BY Zenon, <1>r, <2>1, <2>2, <2>3
  <1>4. ASSUME NEW r \in Requests, AddKey(r) PROVE PointerInv'
    <2>1. CASE req' = [req EXCEPT ![r] = Replied(req[r], 400)] /\ UNCHANGED memdb
      BY <1>0, <2>1 DEF PointerInv, Replied, Handlers
    <2>2. ASSUME NEW w, NEW k \in Keys, NEW v \in Values, RacedCopy(w, k),
                 memdb' = [memdb EXCEPT ![k] = v],
                 req' = [w EXCEPT ![r].pc = "added"]
          PROVE  PointerInv'
      BY <1>0, <2>2 DEF PointerInv, RacedCopy, Handlers
    <2> QED
      BY <1>4, <2>1, <2>2, AddKeyForm
  <1>5. ASSUME NEW r \in Requests, AddReply(r) \/ BatchReply(r) PROVE PointerInv'
    <2>1. /\ UNCHANGED memdb
          /\ req' = [req EXCEPT ![r] = Replied(req[r], 200)]
      BY <1>5 DEF AddReply, BatchReply
    <2> QED
      BY <1>0, <2>1 DEF PointerInv, Replied, Handlers
  <1>6. ASSUME NEW r \in Requests, DelKey(r) PROVE PointerInv'
    <2>1. CASE req' = [req EXCEPT ![r] = Replied(req[r], 400)] /\ UNCHANGED memdb
      BY <1>0, <2>1 DEF PointerInv, Replied, Handlers
    <2>2. ASSUME NEW w, NEW k \in Keys, RacedCopy(w, k),
                 memdb' = [memdb EXCEPT ![k] = Null],
                 req' = [w EXCEPT ![r] = Replied(w[r], 200)]
          PROVE  PointerInv'
      <3>1. Replied(w[r], 200).found = {} /\ w \in [Requests -> Handlers]
        BY <2>2, RepliedIs DEF RacedCopy
      <3> QED
        BY <1>0, <2>2, <3>1 DEF PointerInv, RacedCopy
    <2> QED
      BY <1>6, <2>1, <2>2, DelKeyForm
  <1>7. ASSUME NEW r \in Requests, ListStart(r) PROVE PointerInv'
    <2>1. UNCHANGED memdb
      BY <1>7 DEF ListStart
    <2>2. CASE req' = [req EXCEPT ![r].pc = "collect",
                                  ![r].todo = DOMAIN req[r].items]
      BY <1>0, <2>1, <2>2 DEF PointerInv, Handlers
    <2>3. CASE req' = [req EXCEPT ![r] = Replied(req[r], 400)]
      BY <1>0, <2>1, <2>3 DEF PointerInv, Replied, Handlers
    <2> QED
      BY <1>7, <2>2, <2>3 DEF ListStart
  <1>8. ASSUME NEW r \in Requests, ListCollect(r) PROVE PointerInv'
    <2>1. UNCHANGED memdb
      BY <1>8 DEF ListCollect
    <2>2. ASSUME NEW n \in Nat, req' = [req EXCEPT ![r].index = n]
          PROVE  PointerInv'
      BY <1>0, <2>1, <2>2 DEF PointerInv, Handlers
    <2>3. ASSUME NEW n \in Nat, NEW b \in Seq(Body),
                 req' = [req EXCEPT ![r].body = b, ![r].index = n]
          PROVE  PointerInv'
      BY <1>0, <2>1, <2>3 DEF PointerInv, Handlers
    <2> QED
      BY Zenon, <1>8, <2>2, <2>3, ListCollectForm
  <1>9. ASSUME NEW r \in Requests, ListReply(r) \/ InitQuery(r) PROVE PointerInv'
    <2>1. UNCHANGED memdb
      BY <1>9 DEF ListReply, InitQuery
    <2>2. PICK s \in {200, 400, 404} :
            req' = [req EXCEPT ![r] = Replied(req[r], s)]
      BY <1>9 DEF ListReply, InitQuery
    <2>3. Replied(req[r], s) \in Handlers /\ Replied(req[r], s).found = {}
      BY <1>0, RepliedIs
    <2> QED
      BY Zenon, <1>r, <2>1, <2>2, <2>3
  <1>10. ASSUME NEW r \in Requests, BatchStart(r) PROVE PointerInv'
    BY <1>0, <1>10 DEF BatchStart, PointerInv, Handlers
  <1>11. ASSUME NEW r \in Requests, NEW i \in req[r].todo, ListQuery(r, i)
         PROVE  PointerInv'
    <2>1. req[r].items[i].key \in Keys
      BY <1>11 DEF ListQuery, At, RequestInv, TypeOK
    <2> QED
      BY <1>0, <1>11, <2>1 DEF ListQuery, PointerInv, Handlers
  <1>12. ASSUME NEW r \in Requests, NEW i \in req[r].todo, BatchAdd(r, i)
         PROVE  PointerInv'
    <2>1. PICK w, k, v, t :
            /\ k \in Keys /\ v \in Values /\ t \in SUBSET Nat
            /\ k = req[r].items[i].key /\ v = req[r].items[i].value
            /\ memdb' = [memdb EXCEPT ![k] = v] /\ last' = [last EXCEPT ![k] = v]
            /\ t = req[r].todo \ {i}
            /\ RacedCopy(w, k) /\ req' = [w EXCEPT ![r].todo = t]
      BY ZenonT(30), <1>12, BatchAddForm
    <2> QED
      BY <1>0, <2>1 DEF PointerInv, RacedCopy, Handlers
  <1>13. CASE LoadOne
    <2>1. PICK k \in Keys : /\ snap[k] # Null /\ RacedCopy(req', k)
                            /\ memdb' = [memdb EXCEPT ![k] = snap[k]]
      BY <1>13, LoadOneForm
    <2> QED
      BY <1>0, <2>1 DEF PointerInv, RacedCopy
  <1>14. CASE Die
    BY <1>14, DieForm DEF RequestInv, PointerInv
  <1>15. CASE UNCHANGED <<req, memdb>>
    BY <1>15 DEF PointerInv
  <1> QED
    BY SMTT(30), <1>1, <1>2, <1>3, <1>4, <1>5, <1>6, <1>7, <1>8, <1>9, <1>10, <1>11,
       <1>12, <1>13, <1>14, <1>15
       DEF Next, Handle, Save, Load, Kill, PersistNull, OpenDb,
           NewIterator, LoadEnd, Restart, Persist

\* A request keeps its kind and its items, and its answer grows only where
\* a handler reads through a pointer.
Kept(q) == req'[q].kind = req[q].kind /\ req'[q].items = req[q].items

LEMMA KeptStep ==
  ASSUME TypeOK, RequestInv, PointerInv, Next, NEW q \in Requests
  PROVE  \/ Send(q)
         \/ /\ Kept(q)
            /\ req'[q].body = req[q].body \/ QueryReply(q) \/ ListCollect(q)
  <1>0. req \in [Requests -> Handlers]
    BY DEF TypeOK
  <1> DEFINE P == \/ Send(q)
                  \/ /\ Kept(q)
                     /\ req'[q].body = req[q].body \/ QueryReply(q) \/ ListCollect(q)
  <1>1. ASSUME NEW r \in Requests, Send(r) PROVE P
    BY <1>0, <1>1 DEF Send, Kept
  <1>2. ASSUME NEW r \in Requests,
               QueryKey(r) \/ AddReply(r) \/ ListReply(r) \/ InitQuery(r)
        PROVE  P
    <2>1. \/ \E s : req' = [req EXCEPT ![r] = Replied(req[r], s)]
          \/ req' = [req EXCEPT ![r].pc = "held", ![r].found = {1}]
      BY <1>2 DEF QueryKey, AddReply, ListReply, InitQuery
    <2>2. ASSUME NEW s, req' = [req EXCEPT ![r] = Replied(req[r], s)] PROVE P
      BY <1>0, <2>2 DEF Kept, Handlers, Replied
    <2>3. CASE req' = [req EXCEPT ![r].pc = "held", ![r].found = {1}]
      BY <1>0, <2>3 DEF Kept, Handlers
    <2> QED
      BY <2>1, <2>2, <2>3
  <1>3. ASSUME NEW r \in Requests, QueryReply(r) PROVE P
    <2>1. PICK z \in Handlers :
            /\ z.kind = req[r].kind /\ z.items = req[r].items
            /\ req' = [req EXCEPT ![r] = Replied(z, 200)]
      BY <1>3, QueryReplyForm
    <2>2. Kept(q) /\ (q # r => req'[q].body = req[q].body)
      BY <1>0, <2>1 DEF Kept, Handlers, Replied
    <2> QED
      BY <1>3, <2>2
  <1>4. ASSUME NEW r \in Requests, AddKey(r) PROVE P
    <2>1. CASE req' = [req EXCEPT ![r] = Replied(req[r], 400)]
      BY <1>0, <2>1 DEF Kept, Handlers, Replied
    <2>2. ASSUME NEW w, NEW k, RacedCopy(w, k), req' = [w EXCEPT ![r].pc = "added"]
          PROVE  P
      BY <2>2 DEF Kept, Handlers, RacedCopy
    <2> QED
      BY <1>4, <2>1, <2>2, AddKeyForm
  <1>5. ASSUME NEW r \in Requests, DelKey(r) PROVE P
    <2>1. CASE req' = [req EXCEPT ![r] = Replied(req[r], 400)]
      BY <1>0, <2>1 DEF Kept, Handlers, Replied
    <2>2. ASSUME NEW w, NEW k, RacedCopy(w, k),
                 req' = [w EXCEPT ![r] = Replied(w[r], 200)]
          PROVE  P
      BY <2>2 DEF Kept, Handlers, RacedCopy, Replied
    <2> QED
      BY <1>5, <2>1, <2>2, DelKeyForm
  <1>6. ASSUME NEW r \in Requests, ListStart(r) \/ BatchStart(r) \/ BatchReply(r)
        PROVE  P
    <2>1. \/ \E s : req' = [req EXCEPT ![r] = Replied(req[r], s)]
          \/ \E p, t : req' = [req EXCEPT ![r].pc = p, ![r].todo = t]
      BY Zenon, <1>6 DEF ListStart, BatchStart, BatchReply
    <2>2. ASSUME NEW s, req' = [req EXCEPT ![r] = Replied(req[r], s)] PROVE P
      BY <1>0, <2>2 DEF Kept, Handlers, Replied
    <2>3. ASSUME NEW p, NEW t, req' = [req EXCEPT ![r].pc = p, ![r].todo = t]
          PROVE  P
      BY <1>0, <2>3 DEF Kept, Handlers
    <2> QED
      BY Zenon, <2>1, <2>2, <2>3
  <1>7. ASSUME NEW r \in Requests, ListCollect(r) PROVE P
    <2>1. ASSUME NEW n \in Nat, req' = [req EXCEPT ![r].index = n]
          PROVE  P
      BY <1>0, <2>1 DEF Kept, Handlers
    <2>2. ASSUME NEW n \in Nat, NEW b \in Seq(Body),
                 req' = [req EXCEPT ![r].body = b, ![r].index = n]
          PROVE  P
      <3>1. Kept(q) /\ (q # r => req'[q].body = req[q].body)
        BY <1>0, <2>2 DEF Kept, Handlers
      <3> QED
        BY <1>7, <3>1
    <2> QED
      BY Zenon, <1>7, <2>1, <2>2, ListCollectForm
  <1>8. ASSUME NEW r \in Requests, NEW i \in req[r].todo, ListQuery(r, i) PROVE P
    BY <1>0, <1>8 DEF ListQuery, Kept, Handlers
  <1>9. ASSUME NEW r \in Requests, NEW i \in req[r].todo, BatchAdd(r, i) PROVE P
    <2>1. PICK w, k, t : RacedCopy(w, k) /\ req' = [w EXCEPT ![r].todo = t]
      BY <1>9, BatchAddForm
    <2> QED
      BY <2>1 DEF Kept, Handlers, RacedCopy
  <1>10. CASE LoadOne
    BY <1>10, LoadOneForm DEF Kept, RacedCopy
  <1>11. CASE Die
    BY <1>11, DieForm DEF Kept
  <1>12. CASE UNCHANGED req
    BY <1>12 DEF Kept
  <1> QED
    BY <1>1, <1>2, <1>3, <1>4, <1>5, <1>6, <1>7, <1>8, <1>9, <1>10, <1>11, <1>12
       DEF Next, Handle, Save, Load, Kill, PersistNull, OpenDb,
           NewIterator, LoadEnd, Restart, Persist

LEMMA SavesKept ==
  ASSUME TypeOK, RequestInv, PointerInv, Next
  PROVE  \A q \in Requests :
           Saves(q) => Kept(q) /\ Saves(q)' /\ KeysOf(q)' = KeysOf(q)
  <1> SUFFICES ASSUME NEW q \in Requests, Saves(q)
               PROVE  Kept(q) /\ Saves(q)' /\ KeysOf(q)' = KeysOf(q)
    OBVIOUS
  <1>1. ~Send(q)
    BY DEF Send, RequestInv, Saves
  <1>2. Kept(q)
    BY <1>1, KeptStep
  <1> QED
    BY <1>2 DEF Kept, Saves, KeysOf

\* What clients have sent stays sent.
LEMMA SentGrows ==
  ASSUME TypeOK, RequestInv, PointerInv, Next
  PROVE  \A k : ClientSent(k) \subseteq ClientSent(k)'
  <1>1. \A q \in Requests : Saves(q) => Kept(q) /\ Saves(q)'
    BY SMTT(30), SavesKept
  <1> QED
    BY <1>1 DEF ClientSent, Kept, Saves

LEMMA ItemSent ==
  ASSUME NEW r \in Requests, Saves(r), NEW i \in DOMAIN req[r].items
  PROVE  /\ req[r].items[i].value \in ClientSent(req[r].items[i].key)
         /\ req[r].items[i].key \in KeysOf(r)
  BY DEF ClientSent, Saves, KeysOf

\* What a step does to a key of the map: a client's write or delete, the
\* loader's write, or the end of the process.
ClientWrites(k) ==
  /\ memdb'[k] # Null /\ last'[k] = memdb'[k]
  /\ \E r \in Requests :
       /\ Saves(r) /\ k \in KeysOf(r) /\ memdb'[k] \in ClientSent(k)
       /\ req'[r].pc \in {"added", "adding"}

LoaderWrites(k) ==
  /\ loader = "load" /\ snap[k] # Null /\ memdb'[k] = snap[k]
  /\ snap'[k] = Null /\ last'[k] = last[k]

LEMMA MemStep ==
  ASSUME TypeOK, RequestInv, Next, ~Die, NEW k \in Keys
  PROVE  \/ memdb'[k] = memdb[k] /\ last'[k] = last[k]
         \/ memdb'[k] = Null /\ last'[k] = Gone
         \/ ClientWrites(k)
         \/ LoaderWrites(k)
  <1>0. /\ req \in [Requests -> Handlers] /\ Null \notin Values
        /\ memdb \in [Keys -> Values \cup {Null}]
        /\ last \in [Keys -> Values \cup {Null, Gone}]
        /\ snap \in [Keys -> Values \cup {Null}]
    BY SentinelAssumption DEF TypeOK
  <1> DEFINE P == \/ memdb'[k] = memdb[k] /\ last'[k] = last[k]
                  \/ memdb'[k] = Null /\ last'[k] = Gone
                  \/ ClientWrites(k)
                  \/ LoaderWrites(k)
  <1>1. ASSUME NEW r \in Requests, AddKey(r) PROVE P
    <2>1. Saves(r) /\ 1 \in DOMAIN req[r].items
      BY <1>1 DEF AddKey, At, RequestInv, Saves, TypeOK, Handlers
    <2>2. ASSUME NEW w, NEW c \in Keys, NEW v \in Values,
                 c = req[r].items[1].key, v = req[r].items[1].value,
                 memdb' = [memdb EXCEPT ![c] = v], last' = [last EXCEPT ![c] = v],
                 RacedCopy(w, c), req' = [w EXCEPT ![r].pc = "added"]
          PROVE  P
      <3>1. v \in ClientSent(c) /\ c \in KeysOf(r)
        BY <2>1, <2>2, ItemSent
      <3>2. req'[r].pc = "added"
        BY <2>2 DEF RacedCopy, Handlers
      <3> QED
        BY <1>0, <2>1, <2>2, <3>1, <3>2 DEF ClientWrites
    <2> QED
      BY <1>1, <2>2, AddKeyForm
  <1>2. ASSUME NEW r \in Requests, DelKey(r) PROVE P
    BY <1>0, <1>2, DelKeyForm
  <1>3. ASSUME NEW r \in Requests, NEW i \in req[r].todo, BatchAdd(r, i) PROVE P
    <2>1. Saves(r) /\ i \in DOMAIN req[r].items /\ req[r].pc = "adding"
      BY <1>3 DEF BatchAdd, At, Saves, TypeOK
    <2>2. PICK w, c, v, t :
            /\ c \in Keys /\ v \in Values /\ t \in SUBSET Nat
            /\ c = req[r].items[i].key /\ v = req[r].items[i].value
            /\ memdb' = [memdb EXCEPT ![c] = v] /\ last' = [last EXCEPT ![c] = v]
            /\ t = req[r].todo \ {i}
            /\ RacedCopy(w, c) /\ req' = [w EXCEPT ![r].todo = t]
      BY Zenon, <1>3, BatchAddForm
    <2>3. v \in ClientSent(c) /\ c \in KeysOf(r)
      BY <2>1, <2>2, ItemSent
    <2>4. req'[r].pc = "adding"
      BY <2>1, <2>2 DEF RacedCopy, Handlers
    <2> QED
      BY <1>0, <2>1, <2>2, <2>3, <2>4 DEF ClientWrites
  <1>4. CASE LoadOne
    <2>1. loader = "load" /\ UNCHANGED last
      BY <1>4 DEF LoadOne
    <2> QED
      BY <1>0, <1>4, <2>1, LoadOneForm DEF LoaderWrites
  <1>5. CASE UNCHANGED <<memdb, last>>
    BY <1>5
  <1> QED
    BY ZenonT(30), <1>1, <1>2, <1>3, <1>4, <1>5
       DEF Next, Handle, Save, Load, Kill, PersistNull, Send, QueryKey,
           QueryReply, AddReply, ListStart, ListCollect, ListReply, BatchStart,
           BatchReply, InitQuery, ListQuery, Persist, OpenDb, NewIterator,
           LoadEnd, Restart

\* A key becomes invisible only when the process ends.
LEMMA VisibleStays ==
  ASSUME TypeOK, RequestInv, Next, ~Die
  PROVE  \A k \in Keys : Visible(k) => Visible(k)'
  BY MemStep DEF Visible, ClientWrites, LoaderWrites

\* The handlers leave the database and the loader alone.
LEMMA HandlersKeepDatabase ==
  ASSUME NEW r \in Requests, Send(r) \/ Handle(r)
  PROVE  UNCHANGED database
  BY DEF Handle, Send, QueryKey, QueryReply, AddKey, AddReply, DelKey, ListStart,
         ListCollect, ListReply, BatchStart, BatchAdd, BatchReply, InitQuery,
         ListQuery

\* What a step does to a key of the database.
LEMMA DiskStep ==
  ASSUME TypeOK, RequestInv, Next, NEW k \in Keys
  PROVE  \/ disk'[k] = disk[k]
         \/ \E r \in Requests :
              /\ Persist(r) /\ Saves(r) /\ k \in KeysOf(r)
              /\ disk'[k] \in ClientSent(k)
  <1>1. CASE UNCHANGED disk
    BY <1>1
  <1>2. ASSUME NEW r \in Requests, Persist(r), disk' = Written(r)
        PROVE  \/ disk'[k] = disk[k]
               \/ Saves(r) /\ k \in KeysOf(r) /\ disk'[k] \in ClientSent(k)
    <2>1. Saves(r) /\ req[r].items \in Seq(Pairs)
      BY <1>2 DEF Persist, RequestInv, Acked, Saves
    <2>2. CASE \A i \in DOMAIN req[r].items : req[r].items[i].key # k
      BY <1>2, <2>2, PutKept DEF Written
    <2>3. CASE \E i \in DOMAIN req[r].items : req[r].items[i].key = k
      <3>1. PICK i \in DOMAIN req[r].items :
              /\ req[r].items[i].key = k
              /\ Put(disk, req[r].items)[k] = req[r].items[i].value
        BY <2>1, <2>3, PutHit
      <3> QED
        BY <1>2, <2>1, <3>1, ItemSent DEF Written
    <2> QED
      BY <2>2, <2>3
  <1>3. UNCHANGED disk \/ \E r \in Requests : Persist(r)
    BY HandlersKeepDatabase
       DEF Next, Save, Load, Kill, PersistNull, Die, OpenDb, NewIterator,
           LoadOne, LoadEnd, Restart, database
  <1>4. ASSUME NEW r \in Requests, Persist(r)
        PROVE  UNCHANGED disk \/ disk' = Written(r)
    BY <1>4 DEF Persist
  <1> QED
    BY <1>1, <1>2, <1>3, <1>4

LEMMA SnapStep ==
  ASSUME TypeOK, Next, NEW k \in Keys
  PROVE  /\ \/ snap'[k] \in {snap[k], Null}
            \/ snap'[k] = disk[k] /\ UNCHANGED disk
         /\ loader' \in {"load", "done"} => loader' = loader \/ NewIterator \/ LoadEnd
  <1>1. CASE UNCHANGED <<snap, loader>>
    BY <1>1
  <1>2. CASE LoadOne
    <2>1. UNCHANGED loader
      BY <1>2 DEF LoadOne
    <2> QED
      BY <1>2, <2>1, LoadOneForm DEF TypeOK
  <1>3. CASE OpenDb \/ NewIterator \/ LoadEnd \/ Die
    BY <1>3 DEF OpenDb, NewIterator, LoadEnd, Die
  <1> QED
    BY <1>1, <1>2, <1>3, HandlersKeepDatabase
       DEF Next, Save, Load, Kill, PersistNull, Persist, Restart, database

\* What a step does to a handler that writes: it adds its keys, answers when
\* they are visible, and then its pairs are on their way to the database.
LEMMA WriterStep ==
  ASSUME TypeOK, RequestInv, PointerInv, Next, NEW q \in Requests
  PROVE  /\ req'[q].pc = "added" =>
              /\ Kept(q)
              /\ req[q].pc = "added" \/ Visible(req[q].items[1].key)'
         /\ req'[q].pc = "adding" =>
              /\ Kept(q)
              /\ \/ req[q].pc = "adding" /\ req'[q].todo = req[q].todo
                 \/ req'[q].todo = DOMAIN req[q].items
                 \/ /\ req[q].pc = "adding"
                    /\ \E i : /\ req'[q].todo = req[q].todo \ {i}
                              /\ Visible(req[q].items[i].key)'
         /\ Acked(q)' /\ req'[q].pc = "replied" =>
              /\ Kept(q)
              /\ \/ Acked(q) /\ req[q].pc = "replied"
                 \/ req[q].pc = "added"
                 \/ req[q].pc = "adding" /\ req[q].todo = {}
         /\ req[q].pc \in {"added", "adding"} =>
              req'[q].pc \in {"added", "adding"} \/ q \in tasks' \/ Die
  <1>0. /\ req \in [Requests -> Handlers] /\ Null \notin Values
        /\ memdb \in [Keys -> Values \cup {Null}]
    BY SMTT(30), SentinelAssumption DEF TypeOK
  <1>k. Send(q) \/ Kept(q)
    BY KeptStep
  <1> DEFINE P ==
         /\ req'[q].pc = "added" =>
              req[q].pc = "added" \/ Visible(req[q].items[1].key)'
         /\ req'[q].pc = "adding" =>
              \/ req[q].pc = "adding" /\ req'[q].todo = req[q].todo
              \/ req'[q].todo = DOMAIN req[q].items
              \/ /\ req[q].pc = "adding"
                 /\ \E i : /\ req'[q].todo = req[q].todo \ {i}
                           /\ Visible(req[q].items[i].key)'
         /\ Acked(q)' /\ req'[q].pc = "replied" =>
              \/ Acked(q) /\ req[q].pc = "replied"
              \/ req[q].pc = "added"
              \/ req[q].pc = "adding" /\ req[q].todo = {}
         /\ req[q].pc \in {"added", "adding"} =>
              req'[q].pc \in {"added", "adding"} \/ q \in tasks' \/ Die
  <1>1. ASSUME NEW r \in Requests, Send(r) PROVE P
    <2>1. PICK z \in Handlers : req' = [req EXCEPT ![r] = z] /\ z.pc = "start"
      BY SMTT(30), <1>1, SendForm
    <2> QED
      BY <1>0, <1>1, <2>1 DEF Send, Acked
  <1>2. ASSUME NEW r \in Requests,
               QueryKey(r) \/ QueryReply(r) \/ DelKey(r) \/ ListStart(r)
                 \/ ListCollect(r) \/ ListReply(r) \/ InitQuery(r)
                 \/ \E i \in req[r].todo : ListQuery(r, i)
        PROVE  P
    <2>1. req[r].pc \notin {"added", "adding"} /\ ~Saves(r)
      BY <1>2 DEF QueryKey, QueryReply, DelKey, ListStart, ListCollect, ListReply,
                  InitQuery, ListQuery, At, Saves
    <2>2. CASE q # r
      <3>1. /\ req'[q].pc = req[q].pc /\ req'[q].todo = req[q].todo
            /\ req'[q].status = req[q].status /\ req'[q].kind = req[q].kind
        <4>1. CASE DelKey(r)
          <5>1. CASE req' = [req EXCEPT ![r] = Replied(req[r], 400)]
            BY <1>0, <2>2, <5>1
          <5>2. ASSUME NEW w, NEW k, RacedCopy(w, k),
                       req' = [w EXCEPT ![r] = Replied(w[r], 200)]
                PROVE  /\ req'[q].pc = req[q].pc /\ req'[q].todo = req[q].todo
                       /\ req'[q].status = req[q].status
                       /\ req'[q].kind = req[q].kind
            BY <2>2, <5>2 DEF RacedCopy
          <5> QED
            BY <4>1, <5>1, <5>2, DelKeyForm
        <4>2. CASE ~DelKey(r)
          BY ZenonT(30), <1>0, <1>2, <2>2, <4>2
             DEF QueryKey, QueryReply, ListStart, ListCollect, ListReply,
                 InitQuery, ListQuery
        <4> QED
          BY <4>1, <4>2
      <3> QED
        BY <3>1 DEF Acked
    <2>3. CASE q = r
      <3>1. req'[r].pc \notin {"added", "adding"} /\ ~Saves(r)'
        <4>1. ~Send(r)
          BY <1>2 DEF QueryKey, QueryReply, DelKey, ListStart, ListCollect,
                      ListReply, InitQuery, ListQuery, At, Send
        <4>2. ~Saves(r)'
          BY <1>k, <2>1, <2>3, <4>1 DEF Kept, Saves
        <4> QED
          BY <4>2, RequestStep DEF RequestInv, Saves
      <3> QED
        BY <2>1, <2>3, <3>1 DEF Acked, Saves
    <2> QED
      BY <2>2, <2>3
  <1>3. ASSUME NEW r \in Requests, AddKey(r) PROVE P
    <2>1. req[r].pc = "start"
      BY <1>3 DEF AddKey, At
    <2>2. CASE req' = [req EXCEPT ![r] = Replied(req[r], 400)]
      BY <1>0, <2>1, <2>2 DEF Acked, Replied, Handlers
    <2>3. ASSUME NEW w, NEW k \in Keys, NEW v \in Values, RacedCopy(w, k),
                 k = req[r].items[1].key, memdb' = [memdb EXCEPT ![k] = v],
                 req' = [w EXCEPT ![r].pc = "added"]
          PROVE  P
      BY <1>0, <2>1, <2>3 DEF RacedCopy, Acked, Handlers, Visible
    <2> QED
      BY <1>3, <2>2, <2>3, AddKeyForm
  <1>4. ASSUME NEW r \in Requests, AddReply(r) PROVE P
    BY <1>0, <1>4 DEF AddReply, At, Replied, Acked, Handlers
  <1>5. ASSUME NEW r \in Requests, BatchStart(r) PROVE P
    BY <1>0, <1>5 DEF BatchStart, At, Acked, Handlers
  <1>6. ASSUME NEW r \in Requests, BatchReply(r) PROVE P
    BY SMTT(30), <1>0, <1>6 DEF BatchReply, AllAdded, At, Replied, Acked, Handlers
  <1>7. ASSUME NEW r \in Requests, NEW i \in req[r].todo, BatchAdd(r, i) PROVE P
    <2>1. req[r].pc = "adding"
      BY <1>7 DEF BatchAdd, At
    <2>2. PICK w, k, v, t :
            /\ k \in Keys /\ v \in Values /\ t \in SUBSET Nat
            /\ k = req[r].items[i].key /\ v = req[r].items[i].value
            /\ memdb' = [memdb EXCEPT ![k] = v] /\ last' = [last EXCEPT ![k] = v]
            /\ t = req[r].todo \ {i}
            /\ RacedCopy(w, k) /\ req' = [w EXCEPT ![r].todo = t]
      BY <1>7, BatchAddForm
    <2>3. w \in [Requests -> Handlers] /\ memdb'[k] # Null
      BY <1>0, <2>2 DEF RacedCopy
    <2>4. CASE q # r
      BY <2>2, <2>3, <2>4 DEF RacedCopy, Acked
    <2>5. CASE q = r
      <3>1. /\ req'[r].pc = "adding" /\ req'[r].todo = req[r].todo \ {i}
            /\ req'[r].items = req[r].items
        BY <2>1, <2>2, <2>3 DEF RacedCopy, Handlers
      <3>2. Visible(req[r].items[i].key)'
        BY <2>2, <2>3, <3>1 DEF Visible
      <3> QED
        BY <2>1, <2>5, <3>1, <3>2
    <2> QED
      BY <2>4, <2>5
  <1>8. ASSUME LoadOne PROVE P
    BY <1>8, LoadOneForm DEF RacedCopy, Acked
  <1>9. ASSUME Die PROVE P
    BY <1>9, DieForm DEF Acked
  <1>10. ASSUME UNCHANGED req PROVE P
    BY <1>10 DEF Acked
  <1>11. P
    BY ZenonT(30), <1>1, <1>2, <1>3, <1>4, <1>5, <1>6, <1>7, <1>8, <1>9, <1>10
       DEF Next, Handle, Save, Load, Kill, PersistNull, OpenDb,
           NewIterator, LoadEnd, Restart, Persist
  <1>12. Send(q) => req'[q].pc = "start"
    BY <1>0, SendForm
  <1> QED
    BY <1>k, <1>11, <1>12

-----------------------------------------------------------------------------
(* Every step preserves the invariant.                                      *)

LEMMA OriginStep ==
  ASSUME TypeOK, RequestInv, PointerInv, OriginInv, Next
  PROVE  OriginInv'
  <1> SUFFICES ASSUME NEW k \in Keys
               PROVE  /\ memdb'[k] \in Origin(k)' /\ disk'[k] \in Origin(k)'
                      /\ snap'[k] \in Origin(k)'
    BY DEF OriginInv
  <1>1. Origin(k) \subseteq Origin(k)' /\ Null \in Origin(k)
    BY SentGrows DEF Origin
  <1>2. memdb'[k] \in Origin(k)
    <2>1. CASE Die
      BY SMTT(30), <1>1, <2>1 DEF Die
    <2>2. CASE ~Die
      BY <1>1, <2>2, MemStep DEF OriginInv, Origin, ClientWrites, LoaderWrites
    <2> QED
      BY <2>1, <2>2
  <1>3. disk'[k] \in Origin(k)
    BY DiskStep DEF OriginInv, Origin
  <1>4. snap'[k] \in Origin(k)
    BY <1>1, SnapStep DEF OriginInv
  <1> QED
    BY <1>1, <1>2, <1>3, <1>4

\* What a pointer yields comes from where its key's value comes from.
LEMMA EntryOrigin ==
  ASSUME TypeOK, PointerInv, OriginInv, NEW r \in Requests,
         NEW i \in req[r].found, NEW v \in Deref(r, i)
  PROVE  ~Entry(r, i, v).raced =>
           Entry(r, i, v).value \in ClientSent(Entry(r, i, v).key)
                                      \cup {InitialDisk[Entry(r, i, v).key]}
  BY Zenon DEF PointerInv, OriginInv, Origin, Deref, Entry

LEMMA AnswersStep ==
  ASSUME TypeOK, RequestInv, PointerInv, OriginInv, AnswersAligned, Next
  PROVE  AnswersAligned'
  <1> DEFINE Aligned(e) ==
               ~e.raced => e.value \in ClientSent(e.key) \cup {InitialDisk[e.key]}
  <1>1. \A e : Aligned(e) => Aligned(e)'
    BY SentGrows
  <1> SUFFICES ASSUME NEW r \in Requests, NEW n \in DOMAIN req'[r].body
               PROVE  Aligned(req[r].body[n])'
    BY DEF AnswersAligned
  <1>0. req \in [Requests -> Handlers] /\ req[r].body \in Seq(Body)
    BY SMTT(30) DEF TypeOK, Handlers
  <1>2. CASE req'[r].body = req[r].body
    BY <1>1, <1>2 DEF AnswersAligned
  <1>3. CASE Send(r)
    <2>1. req'[r].body = <<>>
      BY <1>0, <1>3, SendForm
    <2> QED
      BY <2>1
  <1>4. CASE QueryReply(r)
    <2>1. PICK z \in Handlers, v \in Deref(r, 1) :
            /\ 1 \in req[r].found /\ z.body = <<Entry(r, 1, v)>>
            /\ req' = [req EXCEPT ![r] = Replied(z, 200)]
      BY <1>4, QueryReplyForm
    <2>2. req'[r].body = <<Entry(r, 1, v)>>
      BY <1>0, <2>1, RepliedIs
    <2>3. req'[r].body[n] = Entry(r, 1, v)
      BY <2>2
    <2>4. Aligned(Entry(r, 1, v))
      BY SMTT(30), <2>1, EntryOrigin
    <2> QED
      BY SMTT(30), <1>1, <2>3, <2>4
  <1>5. CASE ListCollect(r)
    <2>1. ASSUME NEW m \in Nat, req' = [req EXCEPT ![r].index = m]
          PROVE  req'[r].body = req[r].body
      BY <1>0, <2>1 DEF Handlers
    <2>2. ASSUME NEW m \in Nat, NEW b \in Seq(Body), req[r].index \in req[r].found,
                 NEW v \in Deref(r, req[r].index),
                 b = Append(req[r].body, Entry(r, req[r].index, v)),
                 req' = [req EXCEPT ![r].body = b, ![r].index = m]
          PROVE  Aligned(req[r].body[n])'
      <3>1. req'[r].body = Append(req[r].body, Entry(r, req[r].index, v))
        BY <1>0, <2>2 DEF Handlers
      <3>2. \/ req'[r].body[n] = Entry(r, req[r].index, v)
            \/ n \in DOMAIN req[r].body /\ req'[r].body[n] = req[r].body[n]
        BY <1>0, <3>1
      <3>3. Aligned(Entry(r, req[r].index, v))
        BY SMTT(30), <2>2, EntryOrigin
      <3>4. n \in DOMAIN req[r].body => Aligned(req[r].body[n])
        BY DEF AnswersAligned
      <3> QED
        BY <1>1, <3>2, <3>3, <3>4
    <2> QED
      BY <1>2, <1>5, <2>1, <2>2, ListCollectForm
  <1> QED
    BY <1>2, <1>3, <1>4, <1>5, KeptStep

LEMMA VisibleStep ==
  ASSUME TypeOK, RequestInv, PointerInv, VisibleInv, AckedVisible, Next
  PROVE  VisibleInv' /\ AckedVisible'
  <1>1. CASE Die
    BY <1>1, DieForm DEF VisibleInv, AckedVisible
  <1>2. CASE ~Die
    <2>1. ASSUME NEW q \in Requests, Saves(q), NEW i \in DOMAIN req[q].items
          PROVE  req[q].items[i].key \in Keys
      <3>1. req[q].items[i] \in Pairs
        BY <2>1 DEF RequestInv
      <3> QED
        BY <3>1 DEF Pairs
    <2>2. \A k \in Keys : Visible(k) => Visible(k)'
      BY <1>2, VisibleStays
    <2>3. \A q \in Requests :
            /\ req[q].pc = "added" => Saves(q) /\ 1 \in DOMAIN req[q].items
            /\ req[q].pc = "adding" => Saves(q)
            /\ Acked(q) => Saves(q)
            /\ req[q].items \in Seq(Items)
      BY DEF RequestInv, Saves, Acked, TypeOK, Handlers
    <2>4. VisibleInv'
      <3> SUFFICES ASSUME NEW q \in Requests
                   PROVE  /\ req'[q].pc = "added" => Visible(req[q].items[1].key)'
                          /\ req'[q].pc = "adding" =>
                               \A i \in DOMAIN req'[q].items \ req'[q].todo :
                                 Visible(req[q].items[i].key)'
        BY DEF VisibleInv
      <3>1. CASE req'[q].pc = "added"
        <4>1. Kept(q) /\ (req[q].pc = "added" \/ Visible(req[q].items[1].key)')
          BY SMTT(30), <3>1, WriterStep
        <4>2. CASE req[q].pc = "added"
          <5>1. Visible(req[q].items[1].key) /\ req[q].items[1].key \in Keys
            BY <2>1, <2>3, <4>2 DEF VisibleInv
          <5> QED
            BY SMTT(30), <2>2, <3>1, <4>1, <5>1 DEF Kept, Visible
        <4> QED
          BY SMTT(30), <3>1, <4>1, <4>2
      <3>2. CASE req'[q].pc = "adding"
        <4> SUFFICES ASSUME NEW i \in DOMAIN req'[q].items \ req'[q].todo
                     PROVE  Visible(req[q].items[i].key)'
          BY SMTT(30), <3>2
        <4>1. /\ Kept(q)
              /\ \/ req[q].pc = "adding" /\ req'[q].todo = req[q].todo
                 \/ req'[q].todo = DOMAIN req[q].items
                 \/ /\ req[q].pc = "adding"
                    /\ \E j : /\ req'[q].todo = req[q].todo \ {j}
                              /\ Visible(req[q].items[j].key)'
          BY <3>2, WriterStep
        <4>2. i \in DOMAIN req[q].items
          BY SMTT(30), <4>1 DEF Kept
        <4>3. CASE req[q].pc = "adding" /\ i \notin req[q].todo
          <5>1. Visible(req[q].items[i].key) /\ req[q].items[i].key \in Keys
            BY <2>1, <2>3, <4>2, <4>3 DEF VisibleInv
          <5> QED
            BY SMTT(30), <2>2, <4>1, <5>1 DEF Kept, Visible
        <4>4. CASE ~(req[q].pc = "adding" /\ i \notin req[q].todo)
          BY <4>1, <4>2, <4>4
        <4> QED
          BY <4>3, <4>4
      <3> QED
        BY <3>1, <3>2
    <2>5. AckedVisible'
      <3> SUFFICES ASSUME NEW q \in Requests, Acked(q)', req'[q].pc = "replied",
                          NEW k \in KeysOf(q)'
                   PROVE  Visible(k)'
        BY SMTT(30) DEF AckedVisible, Visible
      <3>1. /\ Kept(q)
            /\ \/ Acked(q) /\ req[q].pc = "replied"
               \/ req[q].pc = "added"
               \/ req[q].pc = "adding" /\ req[q].todo = {}
        BY WriterStep
      <3>2. PICK i \in DOMAIN req[q].items : k = req[q].items[i].key
        BY SMTT(30), <3>1 DEF Kept, KeysOf
      <3>3. Saves(q) /\ k \in Keys
        BY <2>1, <2>3, <3>1, <3>2
      <3>4. Visible(k)
        <4>1. CASE Acked(q) /\ req[q].pc = "replied"
          BY <3>2, <4>1 DEF AckedVisible, Visible, KeysOf
        <4>2. CASE req[q].pc = "added"
          <5>1. Len(req[q].items) = 1
            BY <4>2 DEF RequestInv
          <5>2. i = 1
            BY <2>3, <3>2, <5>1
          <5> QED
            BY SMTT(30), <3>2, <4>2, <5>2 DEF VisibleInv
        <4>3. CASE req[q].pc = "adding" /\ req[q].todo = {}
          BY SMTT(30), <3>2, <4>3 DEF VisibleInv
        <4> QED
          BY SMTT(30), <3>1, <4>1, <4>2, <4>3
      <3> QED
        BY <2>2, <3>3, <3>4
    <2> QED
      BY <2>4, <2>5
  <1> QED
    BY SMTT(30), <1>1, <1>2

LEMMA LoaderStep ==
  ASSUME TypeOK, Next, ~Die
  PROVE  /\ ioErrors' = 0 => ioErrors = 0
         /\ inited' => inited \/ LoadEnd
         /\ loader = "done" => loader' = "done"
         /\ loader' = "load" =>
              \/ NewIterator
              \/ /\ loader = "load"
                 /\ \A k \in Keys : snap'[k] = snap[k] \/ memdb'[k] # Null
  <1>1. CASE UNCHANGED <<ioErrors, inited, loader, snap>>
    BY <1>1
  <1>2. CASE LoadOne
    <2>1. UNCHANGED <<ioErrors, inited, loader>> /\ loader = "load"
      BY <1>2 DEF LoadOne
    <2>2. \A k \in Keys : snap'[k] = snap[k] \/ memdb'[k] # Null
      BY <1>2, LoadOneForm DEF TypeOK
    <2> QED
      BY <2>1, <2>2
  <1>3. CASE OpenDb
    BY <1>3 DEF OpenDb, IOError, TypeOK
  <1>4. CASE NewIterator
    BY <1>4 DEF NewIterator
  <1>5. CASE LoadEnd
    BY SMTT(30), <1>5 DEF LoadEnd, IOError, TypeOK
  <1>6. ASSUME NEW r \in Requests, Persist(r)
        PROVE  UNCHANGED <<inited, loader, snap>> /\ (ioErrors' = 0 => ioErrors = 0)
    BY <1>6 DEF Persist, IOError, TypeOK
  <1> QED
    BY <1>1, <1>2, <1>3, <1>4, <1>5, <1>6, HandlersKeepDatabase
       DEF Next, Save, Load, Kill, PersistNull, Restart, database

\* A key that is written to the database is visible, for its request has been
\* answered.
LEMMA SavedVisible ==
  ASSUME TypeOK, RequestInv, AckedVisible, Next, NEW k \in Keys
  PROVE  disk'[k] = disk[k] \/ Visible(k)
  BY DiskStep DEF Persist, RequestInv, AckedVisible, Visible

LEMMA LoadStep ==
  ASSUME TypeOK, RequestInv, AckedVisible, LoadInv, LoadedUnlessFailed, Next
  PROVE  LoadInv' /\ LoadedUnlessFailed'
  <1>1. CASE Die
    BY <1>1 DEF Die, LoadInv, LoadedUnlessFailed
  <1>2. CASE ~Die
    <2>1. \A k \in Keys : Visible(k) => Visible(k)'
      BY <1>2, VisibleStays
    <2>2. (inited => loader = "done")'
      BY <1>2, LoaderStep DEF LoadInv, LoadEnd
    <2>3. ASSUME loader' = "load", ioErrors' = 0, NEW k \in Keys, disk'[k] # Null
          PROVE  snap'[k] # Null \/ Visible(k)'
      <3>1. CASE NewIterator
        BY <2>3, <3>1 DEF NewIterator
      <3>2. CASE loader = "load" /\ (snap'[k] = snap[k] \/ memdb'[k] # Null)
        <4>1. ioErrors = 0
          BY <1>2, <2>3, LoaderStep
        <4>2. snap[k] # Null \/ Visible(k)
          BY <2>3, <3>2, <4>1, SavedVisible DEF LoadInv
        <4> QED
          BY <2>1, <3>2, <4>2 DEF Visible
      <3> QED
        BY <1>2, <2>3, <3>1, <3>2, LoaderStep
    <2>4. ASSUME inited', ioErrors' = 0, NEW k \in Keys, disk'[k] # Null
          PROVE  Visible(k)'
      <3>1. ioErrors = 0
        BY <1>2, <2>4, LoaderStep
      <3>2. CASE inited
        BY <2>1, <2>4, <3>1, <3>2, SavedVisible DEF LoadedUnlessFailed, Visible
      <3>3. CASE LoadEnd
        <4>1. snap[k] = Null /\ loader = "load" /\ UNCHANGED disk
          BY <2>4, <3>1, <3>3 DEF LoadEnd, IOError, Exhausted
        <4> QED
          BY <2>1, <2>4, <3>1, <4>1 DEF LoadInv
      <3> QED
        BY <1>2, <2>4, <3>2, <3>3, LoaderStep
    <2> QED
      BY <2>2, <2>3, <2>4 DEF LoadInv, LoadedUnlessFailed, Visible
  <1> QED
    BY <1>1, <1>2

\* A write that waits to be saved stays so until it is saved or refused.
Waits(k) ==
  \E r \in Requests :
    k \in KeysOf(r) /\ (r \in tasks \/ req[r].pc \in {"added", "adding"})

LEMMA WaitsStep ==
  ASSUME TypeOK, RequestInv, PointerInv, Next, ~Die, NEW k \in Keys
  PROVE  /\ Waits(k) => Waits(k)' \/ disk'[k] \in ClientSent(k) \/ k \in unsaved'
         /\ k \in unsaved => k \in unsaved'
  <1>1. k \in unsaved => k \in unsaved'
    BY SMTT(30), HandlersKeepDatabase
       DEF Next, Save, Load, Kill, PersistNull, Persist, OpenDb, NewIterator,
           LoadOne, LoadEnd, Restart, database
  <1>2. ASSUME NEW r \in Requests, k \in KeysOf(r),
               r \in tasks \/ req[r].pc \in {"added", "adding"}
        PROVE  Waits(k)' \/ disk'[k] \in ClientSent(k) \/ k \in unsaved'
    <2>1. Saves(r) /\ k \in KeysOf(r)' /\ req[r].items \in Seq(Pairs)
      <3>1. Saves(r) /\ req[r].items \in Seq(Pairs)
        BY <1>2 DEF RequestInv, Acked, Saves
      <3> QED
        BY SMTT(30), <1>2, <3>1, SavesKept
    <2>2. CASE Persist(r)
      <3>1. CASE disk' = Written(r)
        <4>1. \E i \in DOMAIN req[r].items : req[r].items[i].key = k
          BY <1>2 DEF KeysOf
        <4>2. PICK i \in DOMAIN req[r].items :
                /\ req[r].items[i].key = k
                /\ Put(disk, req[r].items)[k] = req[r].items[i].value
          BY <2>1, <4>1, PutHit
        <4> QED
          BY <2>1, <3>1, <4>2, ItemSent DEF Written
      <3>2. CASE k \in unsaved'
        BY <3>2
      <3> QED
        BY SMTT(30), <1>2, <2>2, <3>1, <3>2 DEF Persist
    <2>3. CASE ~Persist(r) /\ r \in tasks
      <3>1. r \in tasks'
        <4>1. ASSUME NEW q \in Requests, Send(q) \/ Handle(q)
              PROVE  tasks \subseteq tasks'
          BY <4>1
             DEF Handle, Send, QueryKey, QueryReply, AddKey, AddReply, DelKey,
                 ListStart, ListCollect, ListReply, BatchStart, BatchAdd,
                 BatchReply, InitQuery, ListQuery
        <4>2. ASSUME NEW q \in Requests, Persist(q) PROVE r \in tasks'
          BY <2>3, <4>2 DEF Persist
        <4> QED
          BY SMTT(30), <2>3, <4>1, <4>2
             DEF Next, Save, Load, Kill, PersistNull, OpenDb, NewIterator,
                 LoadOne, LoadEnd, Restart
      <3> QED
        BY SMTT(30), <2>1, <3>1 DEF Waits
    <2>4. CASE req[r].pc \in {"added", "adding"}
      <3>1. req'[r].pc \in {"added", "adding"} \/ r \in tasks'
        BY <2>4, WriterStep
      <3> QED
        BY <2>1, <3>1 DEF Waits
    <2> QED
      BY <1>2, <2>2, <2>3, <2>4
  <1> QED
    BY SMTT(30), <1>1, <1>2 DEF Waits

LEMMA SavedStep ==
  ASSUME TypeOK, RequestInv, PointerInv, SnapInv, NothingOnlyInMemory, Next
  PROVE  SnapInv' /\ NothingOnlyInMemory'
  <1> SUFFICES ASSUME NEW k \in Keys
               PROVE  /\ \/ snap'[k] \in {Null, disk'[k]}
                         \/ disk'[k] \in ClientSent(k)'
                      /\ \/ memdb'[k] \in {Null, disk'[k]}
                         \/ disk'[k] \in ClientSent(k)'
                         \/ k \in unsaved' \/ Waits(k)'
    BY DEF SnapInv, NothingOnlyInMemory, Waits
  <1>1. ClientSent(k) \subseteq ClientSent(k)'
    BY SentGrows
  <1>2. disk'[k] = disk[k] \/ disk'[k] \in ClientSent(k)
    BY DiskStep
  <1>3. snap'[k] \in {Null, disk'[k]} \/ disk'[k] \in ClientSent(k)
    BY <1>2, SnapStep DEF SnapInv
  <1>4. CASE Die
    BY <1>1, <1>3, <1>4 DEF Die
  <1>5. CASE ~Die
    <2>1. CASE ClientWrites(k)
      <3>1. PICK r \in Requests : /\ Saves(r) /\ k \in KeysOf(r)
                                  /\ req'[r].pc \in {"added", "adding"}
        BY <2>1 DEF ClientWrites
      <3>2. k \in KeysOf(r)'
        BY SMTT(30), <3>1, SavesKept
      <3> QED
        BY <1>1, <1>3, <3>1, <3>2 DEF Waits
    <2>2. CASE LoaderWrites(k)
      BY <1>1, <1>2, <1>3, <2>2 DEF LoaderWrites, SnapInv
    <2>3. CASE memdb'[k] = Null
      BY SMTT(30), <1>1, <1>3, <2>3
    <2>4. CASE memdb'[k] = memdb[k]
      <3>1. \/ memdb[k] \in {Null, disk[k]} \/ disk[k] \in ClientSent(k)
            \/ k \in unsaved \/ Waits(k)
        BY DEF NothingOnlyInMemory, Waits
      <3> QED
        BY <1>1, <1>2, <1>3, <1>5, <2>4, <3>1, WaitsStep
    <2> QED
      BY SMTT(30), <1>5, <2>1, <2>2, <2>3, <2>4, MemStep
  <1> QED
    BY SMTT(30), <1>4, <1>5

LEMMA DiskInvStep ==
  ASSUME TypeOK, RequestInv, PointerInv, DiskInv, Next
  PROVE  DiskInv'
  <1>0. \A q \in Requests :
          Saves(q) => Kept(q) /\ Saves(q)' /\ KeysOf(q)' = KeysOf(q)
    BY SMTT(30), SavesKept
  <1>1. ASSUME NEW k \in Keys, disk'[k] # InitialDisk[k]
        PROVE  \E r \in Requests : Saves(r) /\ k \in KeysOf(r)
    BY SMTT(30), <1>1, DiskStep DEF DiskInv
  <1>2. ASSUME NEW r \in Requests, Saves(r)'
        PROVE  \/ \A k \in Sole(r)' : disk'[k] = InitialDisk[k]
               \/ \A k \in Sole(r)' : disk'[k] = Put(InitialDisk, req'[r].items)[k]
    <2>1. Sole(r)' \subseteq Keys
      <3>1. req'[r].items \in Seq(Pairs)
        BY <1>2, RequestStep DEF RequestInv
      <3>2. \A i \in DOMAIN req'[r].items : req'[r].items[i] \in Pairs
        BY <3>1
      <3> QED
        BY <3>2 DEF Sole, KeysOf, Pairs
    <2>2. CASE ~Saves(r)
      <3>1. ASSUME NEW k \in Sole(r)' PROVE disk'[k] = InitialDisk[k]
        <4>1. \A q \in Requests : Saves(q) => k \notin KeysOf(q)
          BY SMTT(30), <1>0, <2>2, <3>1 DEF Sole
        <4> QED
          BY <1>1, <2>1, <4>1
      <3> QED
        BY <3>1
    <2>3. CASE Saves(r)
      <3>1. Kept(r) /\ Sole(r)' \subseteq Sole(r) /\ Sole(r) \subseteq KeysOf(r)
        BY <1>0, <2>3 DEF Sole
      <3>2. CASE Persist(r) /\ disk' = Written(r)
        <4>1. ASSUME NEW k \in Sole(r)'
              PROVE  disk'[k] = Put(InitialDisk, req'[r].items)[k]
          <5>1. req[r].items \in Seq(Pairs) /\ k \in Keys
            BY <2>1, <2>3 DEF RequestInv
          <5>2. \E i \in DOMAIN req[r].items : req[r].items[i].key = k
            BY SMTT(30), <3>1 DEF KeysOf
          <5>3. Put(disk, req[r].items)[k] = Put(InitialDisk, req[r].items)[k]
            BY SMTT(30), <5>1, <5>2, PutHit
          <5> QED
            BY SMTT(30), <3>1, <3>2, <5>3 DEF Written, Kept
        <4> QED
          BY <4>1
      <3>3. CASE ~(Persist(r) /\ disk' = Written(r))
        <4>1. ASSUME NEW k \in Sole(r)' PROVE disk'[k] = disk[k]
          <5>1. k \in Keys /\ k \in Sole(r)
            BY <2>1, <3>1
          <5>2. ASSUME NEW q \in Requests, Persist(q), Saves(q), k \in KeysOf(q)
                PROVE  disk'[k] = disk[k]
            <6>1. q = r
              BY <5>1, <5>2 DEF Sole
            <6> QED
              BY <3>3, <5>2, <6>1 DEF Persist
          <5> QED
            BY <5>1, <5>2, DiskStep
        <4> QED
          BY <2>3, <3>1, <4>1 DEF DiskInv, Kept
      <3> QED
        BY <3>2, <3>3
    <2> QED
      BY <2>2, <2>3
  <1> QED
    BY <1>0, <1>1, <1>2 DEF DiskInv

-----------------------------------------------------------------------------
LEMMA InitIInv == Init => IInv
  <1> SUFFICES ASSUME Init PROVE IInv
    OBVIOUS
  <1>1. \A r \in Requests : req[r] = NoRequest
    BY DEF Init
  <1>2. /\ NoRequest.pc = "none" /\ NoRequest.kind = "init"
        /\ NoRequest.items = <<>> /\ NoRequest.found = {} /\ NoRequest.body = <<>>
        /\ NoRequest.status = 0
    BY DEF NoRequest
  <1>3. TypeOK
    <2>1. TypedRequests
      BY NoRequestTyped DEF Init, TypedRequests
    <2>2. TypedStore
      <3>1. restarts \in 0 .. MaxRestarts /\ ioErrors \in 0 .. MaxIOErrors
        BY BoundAssumption DEF Init
      <3>2. /\ memdb \in [Keys -> Values \cup {Null}]
            /\ snap \in [Keys -> Values \cup {Null}]
            /\ last \in [Keys -> Values \cup {Null, Gone}]
        BY DEF Init
      <3> QED
        BY Zenon, <3>1, <3>2, SentinelAssumption DEF Init, TypedStore
    <2> QED
      BY <2>1, <2>2, TypeOKParts
  <1>4. RequestInv /\ PointerInv
    BY <1>1, <1>2 DEF Init, RequestInv, PointerInv, Saves
  <1>5. OriginInv /\ SnapInv /\ NothingOnlyInMemory
    BY DEF Init, OriginInv, Origin, SnapInv, NothingOnlyInMemory
  <1>6. AnswersAligned
    BY <1>1, <1>2 DEF AnswersAligned
  <1>7. VisibleInv /\ AckedVisible
    BY <1>1, <1>2 DEF VisibleInv, AckedVisible, Acked
  <1>8. LoadInv /\ LoadedUnlessFailed
    BY DEF Init, LoadInv, LoadedUnlessFailed
  <1>9. DiskInv
    BY DEF Init, DiskInv
  <1> QED
    BY <1>3, <1>4, <1>5, <1>6, <1>7, <1>8, <1>9 DEF IInv

LEMMA StepIInv == IInv /\ [Next]_vars => IInv'
  <1>1. ASSUME IInv, Next PROVE IInv'
    BY <1>1, TypeStep, RequestStep, PointerStep, OriginStep, AnswersStep,
       VisibleStep, LoadStep, SavedStep, DiskInvStep
       DEF IInv
  <1>2. ASSUME IInv, UNCHANGED vars PROVE IInv'
    <2>1. TypeOK'
      BY SMTT(30), <1>2 DEF IInv, vars, TypeOK
    <2>2. RequestInv' /\ PointerInv'
      BY SMTT(30), <1>2 DEF IInv, vars, RequestInv, Acked, Saves, PointerInv
    <2>0. \A k : ClientSent(k)' = ClientSent(k)
      BY SMTT(30), <1>2 DEF vars, ClientSent
    <2>3. OriginInv' /\ AnswersAligned'
      BY <1>2, <2>0 DEF IInv, vars, OriginInv, Origin, AnswersAligned
    <2>k. \A r : KeysOf(r)' = KeysOf(r)
      BY SMTT(30), <1>2 DEF vars, KeysOf
    <2>4. VisibleInv' /\ AckedVisible'
      BY <1>2, <2>k DEF IInv, vars, VisibleInv, Visible, AckedVisible, Acked
    <2>l. LoadInv' /\ LoadedUnlessFailed'
      BY ZenonT(30), <1>2 DEF IInv, vars, LoadInv, LoadedUnlessFailed, Visible
    <2>5. SnapInv' /\ NothingOnlyInMemory'
      BY ZenonT(30), <1>2, <2>0, <2>k DEF IInv, vars, SnapInv, NothingOnlyInMemory
    <2>6. DiskInv'
      BY <1>2 DEF IInv, vars, DiskInv, Sole, Saves, KeysOf
    <2> QED
      BY SMTT(30), <2>1, <2>2, <2>3, <2>4, <2>l, <2>5, <2>6 DEF IInv
  <1> QED
    BY <1>1, <1>2

\* The inductive invariant holds in every reachable state.
THEOREM Invariant == Spec => []IInv
  BY InitIInv, StepIInv, PTL DEF Spec

\* Every variable has its type: in particular a handler's sets are sets of
\* indices of its own items and a pointer that was not raced yields a value.
THEOREM TypeCorrect == Spec => []TypeOK
  <1>1. IInv => TypeOK
    BY DEF IInv
  <1> QED
    BY <1>1, Invariant, PTL

\* KvManager and LocaldbManager together lose no write silently: whatever the
\* interleaving of handlers, loader, saving fibers and crashes, a value that
\* can be queried is on disk, or overwritten there by a client, or about to be
\* saved, or was refused by LevelDB.
THEOREM MemoryIsSaved == Spec => []NothingOnlyInMemory
  <1>1. IInv => NothingOnlyInMemory
    BY DEF IInv
  <1> QED
    BY <1>1, Invariant, PTL

\* AddKeyHandler and BatchAddKeyHandler answer 200 only when every key of the
\* request can be queried.
THEOREM AckedCanBeQueried == Spec => []AckedVisible
  <1>1. IInv => AckedVisible
    BY DEF IInv
  <1> QED
    BY <1>1, Invariant, PTL

\* InitQueryHandler's "ok" means that LocaldbManager::Init has loaded all of
\* the database, as long as LevelDB has returned no error.
THEOREM InitedIsLoaded == Spec => []LoadedUnlessFailed
  <1>1. IInv => LoadedUnlessFailed
    BY DEF IInv
  <1> QED
    BY <1>1, Invariant, PTL

\* QueryKeyHandler and BatchQueryKeyHandler pair a key with a value that was
\* stored under this key, unless the pointer they read through was raced.
THEOREM AnswersBelong == Spec => []AnswersAligned
  <1>1. IInv => AnswersAligned
    BY DEF IInv
  <1> QED
    BY <1>1, Invariant, PTL

\* LocaldbManager::Batch is atomic: whenever the process dies, the database has
\* all of a batch's own keys or none.
THEOREM BatchesAtomic == Spec => []BatchAllOrNothing
  <1>1. ASSUME IInv PROVE BatchAllOrNothing
    <2> SUFFICES ASSUME NEW r \in Requests, req[r].kind = "batch"
                 PROVE  \/ \A k \in OwnKeys(r) : disk[k] # InitialDisk[k]
                        \/ \A k \in OwnKeys(r) : disk[k] = InitialDisk[k]
      BY DEF BatchAllOrNothing
    <2>1. OwnKeys(r) = {k \in Sole(r) :
                          Put(InitialDisk, req[r].items)[k] # InitialDisk[k]}
      BY DEF OwnKeys, Sole, Saves
    <2> QED
      BY SMTT(30), <1>1, <2>1 DEF IInv, DiskInv, Saves
  <1> QED
    BY <1>1, Invariant, PTL

\* Once /init has answered "ok", what is served changes only by a client's add
\* or delete: the loader cannot overwrite it any more.
THEOREM LoadedDataIsClients == Spec => ClientsOwnLoadedData
  <1>1. ASSUME IInv, [Next]_vars
        PROVE  [inited /\ alive' =>
                  \A k \in Keys :
                    memdb'[k] # memdb[k] =>
                      last'[k] = IF memdb'[k] = Null THEN Gone ELSE memdb'[k]]_vars
    <2> SUFFICES ASSUME Next, inited, alive', NEW k \in Keys, memdb'[k] # memdb[k]
                 PROVE  last'[k] = IF memdb'[k] = Null THEN Gone ELSE memdb'[k]
      BY <1>1
    <2>1. ~Die
      BY DEF Die
    <2>2. ~LoaderWrites(k)
      BY <1>1 DEF LoaderWrites, IInv, LoadInv
    <2> QED
      BY <1>1, <2>1, <2>2, MemStep DEF IInv, ClientWrites
  <1> QED
    BY <1>1, Invariant, PTL DEF Spec, ClientsOwnLoadedData
=============================================================================
