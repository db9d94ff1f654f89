--------------------------- MODULE Clients_proofs ---------------------------
(***************************************************************************)
(* Proofs about Clients.tla: the thread client is torn down last, for any  *)
(* list of objects and any choice of those it may do without; list() of    *)
(* the Python client returns the whole list or nothing, for any list, any  *)
(* programs and any traffic of the interfaces; and its interfaces answer   *)
(* their requests in order, for any requests and however packets arrive.   *)
(*                                                                         *)
(* The invariant TearDown says what each place of the main thread has      *)
(* already secured: the thread runs only behind an open connection, and    *)
(* the handles the library knows are those of attached_objs at any time,   *)
(* which needs that no object is in attached_objs twice.                   *)
(*                                                                         *)
(* The invariant ListInv says that a query is a single packet, in one of   *)
(* the four sequences between the program and the virtual machine, and     *)
(* that it continues the list where the client's copy of it ends.          *)
(*                                                                         *)
(* The invariant PacketChain says where each request is on its way: the    *)
(* answered ones, the answers under way, the queue, and what has arrived   *)
(* and has been sent are, one after the other, what was asked.             *)
(***************************************************************************)
EXTENDS Clients, SequenceLemmas

\* The attached objects are distinct, and among the first `tried`.
ObjectsOK ==
    /\ tried \in 0 .. Len(Objects)
    /\ attached_objs \in Seq(Range(Objects))
    /\ \A j, k \in DOMAIN attached_objs :
          attached_objs[j] = attached_objs[k] => j = k
    /\ \A j \in DOMAIN attached_objs : \E k \in 1 .. tried :
          attached_objs[j] = Objects[k]

\* The library knows the attached objects, and only behind a connection.
HandlesOK ==
    /\ live = Range(attached_objs)
    /\ pushing \subseteq live
    /\ main \in {"none", "new", "exited"} => attached_objs = <<>>
    /\ attached_objs # <<>> => connection = 0
    /\ pushing # {} => main = "pushing"

\* What each place of the main thread has secured.
PlacesOK ==
    /\ main \in {"none", "new", "listing", "attaching", "running", "pushing",
                 "leaving", "deleting", "exited"}
    /\ thread \in {"none", "test", "mainloop", "callback", "ended"}
    /\ main \in {"none", "new"} => ~open
    /\ main \in {"listing", "attaching", "running", "pushing"} => connection = 0
    /\ main \in {"listing", "attaching", "running", "pushing", "leaving", "deleting"}
          => (open <=> connection = 0)
    /\ main = "exited" => ~open
    /\ main \in {"none", "new", "listing", "attaching"} => thread = "none"
    /\ main \in {"deleting", "exited"} => thread \in {"none", "ended"}
    /\ thread # "none" => connection = 0

TearDown == ObjectsOK /\ HandlesOK /\ PlacesOK

LEMMA TearDownInit == Init => TearDown
<1> SUFFICES ASSUME Init PROVE TearDown
  OBVIOUS
<1>1. NotStarted /\ main \in {"none", "new"}
  BY DEF Init, ClientInit, ThreadInit
<1>2. ObjectsOK
  BY <1>1, ObjectsAssumption DEF NotStarted, ObjectsOK
<1>3. HandlesOK /\ PlacesOK
  BY <1>1 DEF NotStarted, HandlesOK, PlacesOK, Range
<1> QED
  BY <1>2, <1>3 DEF TearDown

\* attach() of an object that has not been tried keeps them distinct.
LEMMA AttachStep == TearDown /\ Attach => TearDown'
<1> SUFFICES ASSUME TearDown, Attach PROVE TearDown'
  OBVIOUS
<1> DEFINE obj == Objects[tried']
<1>1. /\ main = "attaching" /\ connection = 0 /\ thread = "none" /\ open
      /\ tried' \in 1 .. Len(Objects) /\ tried' = tried + 1
      /\ UNCHANGED <<thread, connection, pushing, open>>
      /\ main' \in {"attaching", "leaving"}
  BY ObjectsAssumption DEF TearDown, ObjectsOK, PlacesOK, Attach
<1>2. PlacesOK'
  BY <1>1 DEF PlacesOK
<1>3. CASE attached_objs' = Append(attached_objs, obj) /\ live' = live \union {obj}
  <2>1. obj \in Range(Objects)
    BY <1>1, ObjectsAssumption DEF Range
  <2>2. \A j \in DOMAIN attached_objs : attached_objs[j] # obj
    <3> SUFFICES ASSUME NEW j \in DOMAIN attached_objs, attached_objs[j] = obj
                 PROVE  FALSE
      OBVIOUS
    <3>1. PICK k \in 1 .. tried : attached_objs[j] = Objects[k]
      BY DEF TearDown, ObjectsOK
    <3>2. k \in DOMAIN Objects /\ tried' \in DOMAIN Objects
      BY <1>1, ObjectsAssumption DEF TearDown, ObjectsOK
    <3> QED
      BY <1>1, <3>1, <3>2, ObjectsAssumption DEF TearDown, ObjectsOK
  <2> DEFINE n == Len(attached_objs)
  <2>3. /\ attached_objs' \in Seq(Range(Objects))
        /\ DOMAIN attached_objs = 1 .. n /\ n \in Nat
        /\ DOMAIN attached_objs' = 1 .. n + 1
        /\ \A j \in 1 .. n : attached_objs'[j] = attached_objs[j]
        /\ attached_objs'[n + 1] = obj
    BY <1>3, <2>1 DEF TearDown, ObjectsOK
  <2> HIDE DEF n, obj
  <2>4. Range(attached_objs') = Range(attached_objs) \union {obj}
    BY <2>3 DEF Range
  <2>5. HandlesOK'
    BY <1>1, <1>3, <2>4 DEF TearDown, HandlesOK
  <2>6. \A j, k \in DOMAIN attached_objs' :
            attached_objs'[j] = attached_objs'[k] => j = k
    BY <2>2, <2>3 DEF TearDown, ObjectsOK
  <2>7. \A j \in DOMAIN attached_objs' : \E k \in 1 .. tried' :
            attached_objs'[j] = Objects[k]
    <3>1. tried \in Nat /\ tried' = tried + 1
      BY <1>1, ObjectsAssumption DEF TearDown, ObjectsOK
    <3>2. obj = Objects[tried'] /\ tried' \in 1 .. tried'
      BY <3>1 DEF obj
    <3>3. ASSUME NEW j \in 1 .. n
          PROVE  \E k \in 1 .. tried' : attached_objs'[j] = Objects[k]
      <4>1. PICK k \in 1 .. tried : attached_objs[j] = Objects[k]
        BY <2>3 DEF TearDown, ObjectsOK
      <4>2. k \in 1 .. tried'
        BY <3>1
      <4> QED
        BY <2>3, <4>1, <4>2
    <3> QED
      BY <2>3, <3>2, <3>3
  <2>8. ObjectsOK'
    BY <1>1, <2>3, <2>6, <2>7 DEF ObjectsOK
  <2> QED
    BY <1>2, <2>5, <2>8 DEF TearDown
<1>4. CASE UNCHANGED <<attached_objs, live>>
  <2>1. ObjectsOK'
    BY <1>1, <1>4 DEF TearDown, ObjectsOK
  <2>2. HandlesOK'
    BY <1>1, <1>4 DEF TearDown, HandlesOK
  <2> QED
    BY <1>2, <2>1, <2>2 DEF TearDown
<1> QED
  BY <1>3, <1>4 DEF Attach

\* __del__() takes the handles in their order, each once.
LEMMA DetachStep == TearDown /\ Detach => TearDown'
<1> SUFFICES ASSUME TearDown, Detach PROVE TearDown'
  OBVIOUS
<1>1. /\ attached_objs # <<>> /\ attached_objs \in Seq(Range(Objects))
      /\ attached_objs' = Tail(attached_objs)
      /\ live' = live \ {Head(attached_objs)}
      /\ UNCHANGED <<main, thread, connection, tried, pushing, open>>
      /\ main = "deleting"
  BY DEF TearDown, ObjectsOK, Detach
<1>2. ObjectsOK'
  BY <1>1 DEF TearDown, ObjectsOK
<1>3. Range(attached_objs') = Range(attached_objs) \ {Head(attached_objs)}
  <2>1. ASSUME NEW k \in DOMAIN attached_objs, k # 1
        PROVE  /\ k - 1 \in DOMAIN attached_objs'
               /\ attached_objs'[k - 1] = attached_objs[k]
               /\ attached_objs[k] # Head(attached_objs)
    BY <1>1, <2>1 DEF TearDown, ObjectsOK
  <2>2. ASSUME NEW k \in DOMAIN attached_objs'
        PROVE  /\ k + 1 \in DOMAIN attached_objs /\ k + 1 # 1
               /\ attached_objs'[k] = attached_objs[k + 1]
    BY <1>1
  <2>3. Head(attached_objs) = attached_objs[1]
    BY <1>1
  <2> QED
    BY <2>1, <2>2, <2>3 DEF Range
<1>4. HandlesOK'
  BY <1>1, <1>3 DEF TearDown, HandlesOK
<1>5. PlacesOK'
  BY <1>1 DEF TearDown, PlacesOK
<1> QED
  BY <1>2, <1>4, <1>5 DEF TearDown

LEMMA TearDownStep == TearDown /\ [Next]_vars => TearDown'
<1> SUFFICES ASSUME TearDown, [Next]_vars PROVE TearDown'
  OBVIOUS
<1> USE DEF TearDown
<1>1. CASE UNCHANGED threadVars
  BY <1>1 DEF threadVars, ObjectsOK, HandlesOK, PlacesOK
<1>2. CASE Connect
  BY <1>2 DEF Connect, ObjectsOK, HandlesOK, PlacesOK
<1>3. CASE List
  BY <1>3 DEF List, ObjectsOK, HandlesOK, PlacesOK
<1>4. CASE Attach
  BY <1>4, AttachStep
<1>5. CASE Start
  BY <1>5 DEF Start, ObjectsOK, HandlesOK, PlacesOK
<1>6. CASE MainCalls
  BY <1>6 DEF MainCalls, ObjectsOK, HandlesOK, PlacesOK
<1>7. CASE MainReturns
  BY <1>7 DEF MainReturns, ObjectsOK, HandlesOK, PlacesOK
<1>8. CASE Stop
  BY <1>8 DEF Stop, ObjectsOK, HandlesOK, PlacesOK
<1>9. CASE Join
  BY <1>9 DEF Join, ObjectsOK, HandlesOK, PlacesOK
<1>10. CASE Detach
  BY <1>10, DetachStep
<1>11. CASE Disconnect
  BY <1>11 DEF Disconnect, ObjectsOK, HandlesOK, PlacesOK
<1>12. CASE Test
  BY <1>12 DEF Test, ObjectsOK, HandlesOK, PlacesOK
<1>13. CASE Callback
  BY <1>13 DEF Callback, ObjectsOK, HandlesOK, PlacesOK
<1>14. CASE CallbackReturns
  BY <1>14 DEF CallbackReturns, ObjectsOK, HandlesOK, PlacesOK
<1>15. CASE MainloopReturns
  BY <1>15 DEF MainloopReturns, ObjectsOK, HandlesOK, PlacesOK
<1> QED
  BY <1>1, <1>2, <1>3, <1>4, <1>5, <1>6, <1>7, <1>8, <1>9, <1>10, <1>11,
     <1>12, <1>13, <1>14, <1>15 DEF Next, ThreadNext, vars

LEMMA TearDownIsEnough == TearDown => TornDownLast
BY DEF TearDown, HandlesOK, PlacesOK, TornDownLast, Range

\* The library is not torn down under the thread or under a handle, whatever
\* the program attaches and wherever it gives up (__del__, run, attach).
THEOREM AlwaysTornDownLast == Spec => []TornDownLast
<1>1. Init => TearDown
  BY TearDownInit
<1>2. TearDown /\ [Next]_vars => TearDown'
  BY TearDownStep
<1>3. TearDown => TornDownLast
  BY TearDownIsEnough
<1> QED
  BY <1>1, <1>2, <1>3, PTL DEF Spec

-----------------------------------------------------------------------------
(* list() of the Python client.  A query is one packet at a time, wherever *)
(* it is on its way; the invariant ListInv follows it round.               *)

\* A packet of an interface.
Access(p) == p.conn # Query /\ p.type \notin {"REQ_LIST", "REQ_CONN"}

\* A packet of the query under way: an attach(), or a list() that has the
\* devices d.
Fits(p, d, listing) ==
    /\ p.conn = Query
    /\ \/ ~listing /\ p.type \in {"REQ_CONN", "RSP_CONN"}
       \/ listing /\ p.type = "REQ_LIST" /\ p.base = Len(d)
       \/ /\ listing /\ p.type = "RSP_LIST" /\ p.base = Len(d)
          /\ \E last \in Len(d) .. Len(Listed) :
                /\ p.devices = SubSeq(Listed, Len(d) + 1, last)
                /\ last = Len(d) => last = Len(Listed)

IsSeq(s) == s \in Seq(Range(s))

Quiet(s) == IsSeq(s) /\ \A k \in DOMAIN s : Access(s[k])

Lone(s, d, listing) ==
    /\ IsSeq(s)
    /\ \E k \in DOMAIN s : /\ Fits(s[k], d, listing)
                           /\ \A j \in DOMAIN s : j # k => Access(s[j])

LEMMA IsSeqFacts ==
  ASSUME NEW s, IsSeq(s)
  PROVE  /\ Len(s) \in Nat /\ DOMAIN s = 1 .. Len(s)
         /\ \A t : IsSeq(t) => s \in Seq(Range(s) \cup Range(t))
         /\ \A p : s \in Seq(Range(s) \cup {p})
BY SeqMonotonic DEF IsSeq

LEMMA IsSeqOf == ASSUME NEW S, NEW s \in Seq(S) PROVE IsSeq(s)
BY DEF IsSeq, Range

LEMMA SplitFacts ==
  ASSUME NEW s, IsSeq(s), NEW n \in 0 .. Len(s)
  PROVE  /\ IsSeq(SubSeq(s, 1, n)) /\ IsSeq(SubSeq(s, n + 1, Len(s)))
         /\ DOMAIN SubSeq(s, 1, n) = 1 .. n
         /\ DOMAIN SubSeq(s, n + 1, Len(s)) = 1 .. Len(s) - n
         /\ \A k \in 1 .. n : SubSeq(s, 1, n)[k] = s[k]
         /\ \A k \in 1 .. Len(s) - n : SubSeq(s, n + 1, Len(s))[k] = s[n + k]
<1> DEFINE S == Range(s)
<1>1. s \in Seq(S)
  BY DEF IsSeq
<1> HIDE DEF S
<1>2. Len(s) \in Nat /\ \A k \in 1 .. Len(s) : s[k] \in S
  BY <1>1
<1>3. /\ SubSeq(s, 1, n) \in Seq(S) /\ Len(SubSeq(s, 1, n)) = n
      /\ \A k \in 1 .. n : SubSeq(s, 1, n)[k] = s[k]
  BY <1>1, <1>2
<1>4. /\ SubSeq(s, n + 1, Len(s)) \in Seq(S)
      /\ Len(SubSeq(s, n + 1, Len(s))) = Len(s) - n
      /\ \A k \in 1 .. Len(s) - n : SubSeq(s, n + 1, Len(s))[k] = s[n + k]
  BY <1>1, <1>2
<1>5. IsSeq(SubSeq(s, 1, n)) /\ IsSeq(SubSeq(s, n + 1, Len(s)))
  BY <1>3, <1>4, IsSeqOf
<1> QED
  BY <1>3, <1>4, <1>5

LEMMA SplitQuiet ==
  ASSUME NEW s, Quiet(s), NEW n \in 0 .. Len(s)
  PROVE  Quiet(SubSeq(s, 1, n)) /\ Quiet(SubSeq(s, n + 1, Len(s)))
<1>1. IsSeq(s) /\ Len(s) \in Nat /\ DOMAIN s = 1 .. Len(s)
  BY IsSeqFacts DEF Quiet
<1>2. \A k \in 1 .. n : Access(SubSeq(s, 1, n)[k])
  BY <1>1, SplitFacts DEF Quiet
<1>3. \A k \in 1 .. Len(s) - n : Access(SubSeq(s, n + 1, Len(s))[k])
  BY <1>1, SplitFacts DEF Quiet
<1> QED
  BY <1>1, <1>2, <1>3, SplitFacts DEF Quiet

LEMMA SplitLone ==
  ASSUME NEW s, NEW d, NEW listing, Lone(s, d, listing), NEW n \in 0 .. Len(s)
  PROVE  \/ Lone(SubSeq(s, 1, n), d, listing) /\ Quiet(SubSeq(s, n + 1, Len(s)))
         \/ Quiet(SubSeq(s, 1, n)) /\ Lone(SubSeq(s, n + 1, Len(s)), d, listing)
<1> DEFINE a == SubSeq(s, 1, n)
           b == SubSeq(s, n + 1, Len(s))
<1>1. IsSeq(s) /\ Len(s) \in Nat /\ DOMAIN s = 1 .. Len(s)
  BY IsSeqFacts DEF Lone
<1>2. /\ IsSeq(a) /\ IsSeq(b)
      /\ DOMAIN a = 1 .. n /\ DOMAIN b = 1 .. Len(s) - n
      /\ \A k \in 1 .. n : a[k] = s[k]
      /\ \A k \in 1 .. Len(s) - n : b[k] = s[n + k]
  BY <1>1, SplitFacts
<1> HIDE DEF a, b
<1>3. PICK k \in DOMAIN s : /\ Fits(s[k], d, listing)
                            /\ \A j \in DOMAIN s : j # k => Access(s[j])
  BY DEF Lone
<1>4. CASE k <= n
  <2>1. Fits(a[k], d, listing) /\ \A j \in DOMAIN a : j # k => Access(a[j])
    BY <1>1, <1>2, <1>3, <1>4
  <2>2. \A j \in DOMAIN b : Access(b[j])
    BY <1>1, <1>2, <1>3, <1>4
  <2> QED
    BY <1>1, <1>2, <1>4, <2>1, <2>2 DEF Lone, Quiet, a, b
<1>5. CASE k > n
  <2>1. k - n \in DOMAIN b /\ Fits(b[k - n], d, listing)
    BY <1>1, <1>2, <1>3, <1>5
  <2>2. ASSUME NEW j \in DOMAIN b, j # k - n PROVE Access(b[j])
    <3>1. n + j \in DOMAIN s /\ n + j # k /\ b[j] = s[n + j]
      BY <1>1, <1>2, <1>3, <1>5, <2>2
    <3> QED
      BY <3>1, <1>3
  <2>3. \A j \in DOMAIN a : Access(a[j])
    BY <1>1, <1>2, <1>3, <1>5
  <2> QED
    BY <1>2, <2>1, <2>2, <2>3 DEF Lone, Quiet, a, b
<1> QED
  BY <1>1, <1>4, <1>5

LEMMA JoinFacts ==
  ASSUME NEW s, NEW t, IsSeq(s), IsSeq(t)
  PROVE  /\ IsSeq(s \o t)
         /\ DOMAIN (s \o t) = 1 .. Len(s) + Len(t)
         /\ \A k \in DOMAIN s : (s \o t)[k] = s[k]
         /\ \A k \in DOMAIN t : (s \o t)[Len(s) + k] = t[k]
         /\ \A k \in DOMAIN (s \o t) : k \notin DOMAIN s => k - Len(s) \in DOMAIN t
<1> DEFINE S == Range(s) \cup Range(t)
<1>1. s \in Seq(S) /\ t \in Seq(S)
  BY SeqMonotonic DEF IsSeq
<1> HIDE DEF S
<1>2. /\ s \o t \in Seq(S) /\ Len(s \o t) = Len(s) + Len(t)
      /\ \A k \in 1 .. Len(s) : (s \o t)[k] = s[k]
      /\ \A k \in 1 .. Len(t) : (s \o t)[Len(s) + k] = t[k]
  BY <1>1
<1>3. IsSeq(s \o t)
  BY <1>2, IsSeqOf
<1>4. /\ Len(s) \in Nat /\ DOMAIN s = 1 .. Len(s)
      /\ Len(t) \in Nat /\ DOMAIN t = 1 .. Len(t)
  BY <1>1
<1> QED
  BY <1>2, <1>3, <1>4

LEMMA JoinQuiet ==
  ASSUME NEW s, NEW t, NEW d, NEW listing, Quiet(s)
  PROVE  /\ Quiet(t) => Quiet(s \o t)
         /\ Lone(t, d, listing) => Lone(s \o t, d, listing)
<1>1. ASSUME Quiet(t) PROVE Quiet(s \o t)
  BY <1>1, JoinFacts, IsSeqFacts DEF Quiet
<1>2. ASSUME Lone(t, d, listing) PROVE Lone(s \o t, d, listing)
  <2>1. PICK k \in DOMAIN t : /\ Fits(t[k], d, listing)
                              /\ \A j \in DOMAIN t : j # k => Access(t[j])
    BY <1>2 DEF Lone
  <2>2. IsSeq(s) /\ IsSeq(t) /\ \A j \in DOMAIN s : Access(s[j])
    BY <1>2 DEF Lone, Quiet
  <2>3. /\ Len(s) \in Nat /\ DOMAIN s = 1 .. Len(s)
        /\ Len(t) \in Nat /\ DOMAIN t = 1 .. Len(t)
    BY <2>2, IsSeqFacts
  <2>4. Len(s) + k \in DOMAIN (s \o t) /\ Fits((s \o t)[Len(s) + k], d, listing)
    BY <2>1, <2>2, <2>3, JoinFacts
  <2>5. ASSUME NEW j \in DOMAIN (s \o t), j # Len(s) + k
        PROVE  Access((s \o t)[j])
    <3>1. CASE j \in DOMAIN s
      BY <3>1, <2>2, JoinFacts
    <3>2. CASE j \notin DOMAIN s
      <4>1. j - Len(s) \in DOMAIN t /\ j - Len(s) # k /\ j = Len(s) + (j - Len(s))
        BY <2>2, <2>3, <2>5, <3>2, JoinFacts
      <4> QED
        BY <4>1, <2>1, <2>2, JoinFacts
    <3> QED
      BY <3>1, <3>2
  <2> QED
    BY <2>2, <2>4, <2>5, JoinFacts DEF Lone
<1> QED
  BY <1>1, <1>2

LEMMA JoinLone ==
  ASSUME NEW s, NEW t, NEW d, NEW listing, Lone(s, d, listing), Quiet(t)
  PROVE  Lone(s \o t, d, listing)
<1>1. PICK k \in DOMAIN s : /\ Fits(s[k], d, listing)
                            /\ \A j \in DOMAIN s : j # k => Access(s[j])
  BY DEF Lone
<1>2. IsSeq(s) /\ IsSeq(t) /\ \A j \in DOMAIN t : Access(t[j])
  BY DEF Lone, Quiet
<1>3. /\ Len(s) \in Nat /\ DOMAIN s = 1 .. Len(s)
      /\ Len(t) \in Nat /\ DOMAIN t = 1 .. Len(t)
  BY <1>2, IsSeqFacts
<1>4. k \in DOMAIN (s \o t) /\ Fits((s \o t)[k], d, listing)
  BY <1>1, <1>2, <1>3, JoinFacts
<1>5. ASSUME NEW j \in DOMAIN (s \o t), j # k
      PROVE  Access((s \o t)[j])
  <2>1. CASE j \in DOMAIN s
    BY <2>1, <1>1, <1>2, <1>5, JoinFacts
  <2>2. CASE j \notin DOMAIN s
    <3>1. j - Len(s) \in DOMAIN t /\ j = Len(s) + (j - Len(s))
      BY <1>2, <1>3, <2>2, JoinFacts
    <3>2. (s \o t)[Len(s) + (j - Len(s))] = t[j - Len(s)]
      BY <3>1, <1>2, JoinFacts
    <3> QED
      BY <3>1, <3>2, <1>2
  <2> QED
    BY <2>1, <2>2
<1> QED
  BY <1>2, <1>4, <1>5, JoinFacts DEF Lone

LEMMA Single ==
  ASSUME NEW p
  PROVE  IsSeq(<<p>>) /\ DOMAIN <<p>> = {1} /\ <<p>>[1] = p
<1>1. <<p>> \in Seq({p})
  OBVIOUS
<1>2. DOMAIN <<p>> = {1} /\ <<p>>[1] = p
  OBVIOUS
<1> QED
  BY <1>1, <1>2, IsSeqOf

\* What Append does, and taking the first packet away.
LEMMA AppendPacket ==
  ASSUME NEW s, NEW p, NEW d, NEW listing
  PROVE  /\ Quiet(s) /\ Access(p) => Quiet(Append(s, p))
         /\ Quiet(s) /\ Fits(p, d, listing) => Lone(Append(s, p), d, listing)
         /\ Lone(s, d, listing) /\ Access(p) => Lone(Append(s, p), d, listing)
<1>1. Access(p) => Quiet(<<p>>)
  BY Single DEF Quiet
<1>2. Fits(p, d, listing) => Lone(<<p>>, d, listing)
  BY Single DEF Lone
<1>3. ASSUME IsSeq(s) PROVE Append(s, p) = s \o <<p>>
  <2>1. s \in Seq(Range(s) \cup {p})
    BY <1>3, IsSeqFacts
  <2> QED
    BY <2>1, AppendIsConcat
<1>4. Quiet(s) \/ Lone(s, d, listing) => IsSeq(s)
  BY DEF Quiet, Lone
<1> QED
  BY <1>1, <1>2, <1>3, <1>4, JoinQuiet, JoinLone

LEMMA TakePacket ==
  ASSUME NEW s, NEW d, NEW listing, s # <<>>
  PROVE  /\ Quiet(s) => Access(Head(s)) /\ Quiet(Tail(s))
         /\ Lone(s, d, listing) =>
              \/ Fits(Head(s), d, listing) /\ Quiet(Tail(s))
              \/ Access(Head(s)) /\ Lone(Tail(s), d, listing)
<1>1. ASSUME IsSeq(s)
      PROVE  /\ 1 \in DOMAIN s /\ Head(s) = s[1] /\ IsSeq(Tail(s))
             /\ \A k \in DOMAIN s : k # 1 =>
                  k - 1 \in DOMAIN Tail(s) /\ Tail(s)[k - 1] = s[k]
             /\ \A k \in DOMAIN Tail(s) :
                  /\ k + 1 \in DOMAIN s /\ k + 1 # 1
                  /\ Tail(s)[k] = s[k + 1] /\ k \in Nat
  <2> DEFINE S == Range(s)
  <2>1. s \in Seq(S)
    BY <1>1 DEF IsSeq
  <2> HIDE DEF S
  <2>2. Len(s) \in Nat \ {0} /\ DOMAIN s = 1 .. Len(s)
    BY <2>1
  <2>3. /\ Tail(s) \in Seq(S) /\ Len(Tail(s)) = Len(s) - 1
        /\ \A k \in 1 .. Len(s) - 1 : Tail(s)[k] = s[k + 1]
    BY <2>1, <2>2
  <2>4. DOMAIN Tail(s) = 1 .. Len(s) - 1
    BY <2>2, <2>3
  <2>5. IsSeq(Tail(s)) /\ Head(s) = s[1]
    <3>1. IsSeq(Tail(s))
      BY <2>3, IsSeqOf
    <3>2. Head(s) = s[1]
      BY <2>1
    <3> QED
      BY <3>1, <3>2
  <2>6. ASSUME NEW k \in DOMAIN s, k # 1
        PROVE  k - 1 \in DOMAIN Tail(s) /\ Tail(s)[k - 1] = s[k]
    <3>1. k - 1 \in 1 .. Len(s) - 1 /\ (k - 1) + 1 = k
      BY <2>2, <2>6
    <3> QED
      BY <3>1, <2>3, <2>4
  <2>7. ASSUME NEW k \in DOMAIN Tail(s)
        PROVE  /\ k + 1 \in DOMAIN s /\ k + 1 # 1
               /\ Tail(s)[k] = s[k + 1] /\ k \in Nat
    BY <2>2, <2>3, <2>4
  <2> QED
    BY <2>2, <2>5, <2>6, <2>7
<1>2. ASSUME Quiet(s) PROVE Access(Head(s)) /\ Quiet(Tail(s))
  BY <1>1, <1>2 DEF Quiet
<1>3. ASSUME Lone(s, d, listing)
      PROVE  \/ Fits(Head(s), d, listing) /\ Quiet(Tail(s))
             \/ Access(Head(s)) /\ Lone(Tail(s), d, listing)
  <2>0. IsSeq(s)
    BY <1>3 DEF Lone
  <2>1. PICK k \in DOMAIN s : /\ Fits(s[k], d, listing)
                              /\ \A j \in DOMAIN s : j # k => Access(s[j])
    BY <1>3 DEF Lone
  <2>2. CASE k = 1
    BY <1>1, <2>0, <2>1, <2>2 DEF Quiet
  <2>3. CASE k # 1
    <3>1. k - 1 \in DOMAIN Tail(s) /\ Fits(Tail(s)[k - 1], d, listing)
      BY <1>1, <2>0, <2>1, <2>3
    <3>2. ASSUME NEW j \in DOMAIN Tail(s), j # k - 1 PROVE Access(Tail(s)[j])
      <4>1. j + 1 \in DOMAIN s /\ j + 1 # k /\ Tail(s)[j] = s[j + 1]
        BY <1>1, <2>0, <3>2
      <4> QED
        BY <4>1, <2>1
    <3>3. Access(Head(s))
      BY <1>1, <2>0, <2>1, <2>3
    <3> QED
      BY <1>1, <2>0, <3>1, <3>2, <3>3 DEF Lone
  <2> QED
    BY <2>2, <2>3
<1> QED
  BY <1>2, <1>3

-----------------------------------------------------------------------------
(* The invariant.                                                          *)

\* The query is on its way in one of the four sequences, or in none.
Alone(d, listing) ==
    \/ Lone(rxbufs, d, listing) /\ Quiet(net) /\ Quiet(uplink) /\ Quiet(txbufs)
    \/ Quiet(rxbufs) /\ Lone(net, d, listing) /\ Quiet(uplink) /\ Quiet(txbufs)
    \/ Quiet(rxbufs) /\ Quiet(net) /\ Lone(uplink, d, listing) /\ Quiet(txbufs)
    \/ Quiet(rxbufs) /\ Quiet(net) /\ Quiet(uplink) /\ Lone(txbufs, d, listing)

NobodyAsks == Quiet(rxbufs) /\ Quiet(net) /\ Quiet(uplink) /\ Quiet(txbufs)

Listing == NextCall = "list"

\* The devices listed so far; all of them when the query is over.
Progress ==
    /\ Len(device_list) \in 0 .. Len(Listed)
    /\ device_list = SubSeq(Listed, 1, Len(device_list))
    /\ ~query_active => device_list = Listed

QueryOK ==
    /\ query_active => call = "query" /\ Alone(device_list, Listing)
    /\ ~query_active => NobodyAsks
    /\ call = "query" =>
          IF Listing THEN Progress
                     ELSE device_list = <<>> /\ (query_active => conn_if \in Ifs)
    /\ call # "query" => device_list = <<>>

ListInv ==
    /\ returned \in {<<>>, Listed}
    /\ call \in {"none", "next", "query", "mainloop", "ended"}
    /\ Range(ifs) \subseteq Ifs /\ IsSeq(ifs)
    /\ pc = "advance" => cif \in Ifs
    /\ query_active \in BOOLEAN
    /\ call \notin {"none", "ended"} => QueryOK

LEMMA NothingQuiet == Quiet(<<>>) /\ IsSeq(<<>>) /\ Range(<<>>) = {}
<1>1. DOMAIN <<>> = {} /\ <<>> \in Seq({})
  OBVIOUS
<1>2. Range(<<>>) = {}
  BY <1>1 DEF Range
<1> QED
  BY <1>1, <1>2, IsSeqOf DEF Quiet

LEMMA ListInit == Init => ListInv
<1> SUFFICES ASSUME Init PROVE ListInv
  OBVIOUS
<1>1. ClientRest /\ call \in {"none", "next"}
  BY DEF Init, ClientInit
<1> QED
  BY <1>1, NothingQuiet DEF ClientRest, ListInv, QueryOK, NobodyAsks

\* After Close nothing is asked any more.
LEMMA CloseStep ==
  ASSUME ListInv, Close, returned' \in {<<>>, Listed}, pc' \in {pc, "select"}
  PROVE  ListInv'
BY NothingQuiet DEF Close, ListInv

LEMMA BeginListStep == ListInv /\ BeginList => ListInv'
<1> SUFFICES ASSUME ListInv, BeginList PROVE ListInv'
  OBVIOUS
<1> DEFINE pkt == [conn |-> Query, type |-> "REQ_LIST", base |-> 0]
<1>1. QueryOK /\ ~query_active /\ device_list = <<>>
  BY DEF ListInv, BeginList, QueryOK
<1>2. Fits(pkt, <<>>, TRUE)
  BY DEF Fits
<1> HIDE DEF pkt
<1>3. txbufs' = Append(txbufs, pkt)
  BY DEF BeginList, push_packet, pkt
<1>4. Lone(txbufs', <<>>, TRUE)
  BY <1>1, <1>2, <1>3, AppendPacket DEF QueryOK, NobodyAsks
<1>5. Alone(device_list, Listing)'
  BY <1>1, <1>4 DEF BeginList, QueryOK, NobodyAsks, Alone, Listing, NextCall, vmVars,
     queryVars
<1>6. Progress'
  BY <1>1, ClientAssumption DEF BeginList, Progress
<1>7. Listing'
  BY DEF BeginList, Listing, NextCall
<1> QED
  BY <1>1, <1>5, <1>6, <1>7 DEF BeginList, ListInv, QueryOK, cifVars

LEMMA BeginAttachStep == ListInv /\ BeginAttach => ListInv'
<1> SUFFICES ASSUME ListInv, BeginAttach PROVE ListInv'
  OBVIOUS
<1> DEFINE pkt == [conn |-> Query, type |-> "REQ_CONN", cif |-> NextCall]
<1>1. QueryOK /\ ~query_active /\ device_list = <<>>
  BY DEF ListInv, BeginAttach, QueryOK
<1>2. Fits(pkt, <<>>, FALSE)
  BY DEF Fits
<1> HIDE DEF pkt
<1>3. txbufs' = Append(txbufs, pkt)
  BY DEF BeginAttach, push_packet, pkt
<1>4. Lone(txbufs', <<>>, FALSE)
  BY <1>1, <1>2, <1>3, AppendPacket DEF QueryOK, NobodyAsks
<1>5. Listing' = FALSE
  BY ClientAssumption DEF BeginAttach, Listing, NextCall
<1>6. Alone(device_list, Listing)'
  BY <1>1, <1>4, <1>5 DEF BeginAttach, QueryOK, NobodyAsks, Alone, vmVars
<1> QED
  BY <1>1, <1>5, <1>6 DEF BeginAttach, ListInv, QueryOK, cifVars

\* The first n packets of t are moved to the end of s.
LEMMA Shift ==
  ASSUME NEW s, NEW t, NEW d, NEW listing, NEW n \in 0 .. Len(t)
  PROVE  LET moved == s \o SubSeq(t, 1, n)
             rest  == SubSeq(t, n + 1, Len(t))
         IN  /\ Quiet(s) /\ Quiet(t) => Quiet(moved) /\ Quiet(rest)
             /\ Lone(s, d, listing) /\ Quiet(t) =>
                  Lone(moved, d, listing) /\ Quiet(rest)
             /\ Quiet(s) /\ Lone(t, d, listing) =>
                  \/ Lone(moved, d, listing) /\ Quiet(rest)
                  \/ Quiet(moved) /\ Lone(rest, d, listing)
BY SplitQuiet, SplitLone, JoinQuiet, JoinLone

LEMMA SelectStep == ListInv /\ Select => ListInv'
<1> SUFFICES ASSUME ListInv, Select PROVE ListInv'
  OBVIOUS
<1>1. PICK n \in 0 .. Len(net) : Read(n)
  BY DEF Select
<1>2. /\ UNCHANGED <<progVars, queryVars, uplink, txbufs, cif>>
      /\ call \notin {"none", "ended"} /\ pc' = "process"
  BY DEF Select, Looping, cifVars
<1>3. Listing' = Listing
  BY <1>2 DEF Listing, NextCall, progVars
<1>4. ASSUME NobodyAsks PROVE NobodyAsks'
  BY <1>1, <1>2, <1>4, Shift DEF Read, NobodyAsks
<1>5. ASSUME Alone(device_list, Listing) PROVE Alone(device_list, Listing)'
  BY <1>1, <1>2, <1>3, <1>5, Shift DEF Read, Alone, queryVars
<1>6. Progress => Progress'
  BY <1>2 DEF Progress, queryVars
<1> QED
  BY <1>2, <1>3, <1>4, <1>5, <1>6 DEF ListInv, QueryOK, progVars, queryVars

LEMMA SendStep == ListInv /\ Send => ListInv'
<1> SUFFICES ASSUME ListInv, Send PROVE ListInv'
  OBVIOUS
<1>1. PICK n \in 0 .. Len(txbufs) :
        /\ uplink' = uplink \o SubSeq(txbufs, 1, n)
        /\ txbufs' = SubSeq(txbufs, n + 1, Len(txbufs))
  <2>1. Len(txbufs) \in Nat
    BY IsSeqFacts DEF Send, Looping, ListInv, QueryOK, NobodyAsks, Alone, Quiet, Lone
  <2>2. PICK many \in IF MaySend THEN 0 .. Len(txbufs) ELSE {0} :
          /\ uplink' = uplink \o SubSeq(txbufs, 1, many)
          /\ txbufs' = SubSeq(txbufs, many + 1, Len(txbufs))
    BY DEF Send
  <2>3. many \in 0 .. Len(txbufs)
    BY <2>1
  <2> QED
    BY <2>2, <2>3
<1>2. /\ UNCHANGED <<rxbufs, net, ifs, query_active>> /\ pc' = "select"
      /\ call \in {"query", "mainloop"} /\ QueryOK
  BY DEF Send, Looping, Return, queryVars, ListInv
<1>3. ASSUME NobodyAsks PROVE NobodyAsks'
  BY <1>1, <1>2, <1>3, Shift DEF NobodyAsks
<1>4. CASE call = "query" /\ ~query_active
  <2>1. call' = "next" /\ NobodyAsks'
    BY <1>2, <1>3, <1>4 DEF Send, Return, QueryOK
  <2>2. returned' \in {returned, Listed} /\ device_list' = <<>>
    BY <1>2, <1>4 DEF Send, Return, QueryOK, Progress, Listing
  <2> QED
    BY <1>2, <1>4, <2>1, <2>2 DEF ListInv, QueryOK
<1>5. CASE ~(call = "query" /\ ~query_active)
  <2>1. UNCHANGED <<progVars, queryVars>>
    BY <1>5 DEF Send
  <2>2. Listing' = Listing
    BY <2>1 DEF Listing, NextCall, progVars
  <2>3. ASSUME Alone(device_list, Listing) PROVE Alone(device_list, Listing)'
    BY <1>1, <1>2, <2>1, <2>2, <2>3, Shift DEF Alone, queryVars
  <2>4. Progress => Progress'
    BY <2>1 DEF Progress, queryVars
  <2> QED
    BY <1>2, <1>3, <2>1, <2>2, <2>3, <2>4
    DEF ListInv, QueryOK, progVars, queryVars
<1> QED
  BY <1>4, <1>5

\* A list() that gets a page asks for the next, or is over.
LEMMA ListResponseStep ==
  ASSUME ListInv, ProcessPacket, ListResponse(Head(rxbufs))
  PROVE  ListInv'
<1> DEFINE pkt == Head(rxbufs)
           d   == device_list
<1>1. /\ query_active /\ call = "query" /\ Alone(d, Listing) /\ rxbufs # <<>>
      /\ pkt.conn = Query /\ pkt.type = "RSP_LIST" /\ rxbufs' = Tail(rxbufs)
      /\ UNCHANGED <<progVars, net, uplink, conn_if, ifs>> /\ pc' = "process"
  BY DEF ListInv, QueryOK, ProcessPacket, Looping, ListResponse, vmVars
<1>2. /\ Fits(pkt, d, Listing) /\ Quiet(rxbufs')
      /\ Quiet(net) /\ Quiet(uplink) /\ Quiet(txbufs)
  BY <1>1, TakePacket DEF Alone, Access
<1>3. Listing /\ Listing' /\ Progress
  BY <1>1, <1>2 DEF Fits, Listing, NextCall, progVars, ListInv, QueryOK
<1>4. PICK last \in Len(d) .. Len(Listed) :
        /\ pkt.devices = SubSeq(Listed, Len(d) + 1, last)
        /\ last = Len(d) => last = Len(Listed)
  BY <1>1, <1>2 DEF Fits
<1>5. Listed \in Seq(Range(Listed)) /\ Len(Listed) \in Nat /\ Len(d) \in Nat
  BY <1>3, ClientAssumption DEF Progress
<1>6. Len(pkt.devices) = last - Len(d) /\ (pkt.devices = <<>> <=> last = Len(d))
  BY <1>4, <1>5, SubSeqProperties
<1>7. CASE pkt.devices = <<>>
  <2>1. d = Listed
    <3>1. Len(d) = Len(Listed)
      BY <1>4, <1>5, <1>6, <1>7
    <3>2. SubSeq(Listed, 1, Len(Listed)) = Listed
      BY <1>5, SubSeqFull
    <3> QED
      BY <1>3, <3>1, <3>2 DEF Progress
  <2>2. query_active' = FALSE /\ device_list' = d /\ txbufs' = txbufs
    BY <1>7 DEF ListResponse
  <2>3. NobodyAsks' /\ Progress'
    BY <1>1, <1>2, <1>3, <2>1, <2>2 DEF NobodyAsks, Progress
  <2> QED
    BY <1>1, <1>3, <2>2, <2>3 DEF ListInv, QueryOK, progVars
<1>8. CASE pkt.devices # <<>>
  <2> DEFINE next == [conn |-> Query, type |-> "REQ_LIST",
                      base |-> pkt.base + Len(pkt.devices)]
  <2>1. /\ query_active' = query_active /\ device_list' = d \o pkt.devices
        /\ txbufs' = Append(txbufs, next)
    BY <1>8 DEF ListResponse, push_packet
  <2>2. device_list' = SubSeq(Listed, 1, last) /\ Len(device_list') = last
    <3>1. /\ 1 \in 1 .. Len(Listed) + 1 /\ Len(d) \in 1 - 1 .. Len(Listed)
          /\ last \in Len(d) .. Len(Listed) /\ last \in 0 .. Len(Listed)
      BY <1>4, <1>5
    <3>2. SubSeq(Listed, 1, Len(d)) \o SubSeq(Listed, Len(d) + 1, last)
            = SubSeq(Listed, 1, last)
      BY <1>5, <3>1, ConcatAdjacentSubSeq
    <3>3. Len(SubSeq(Listed, 1, last)) = last
      BY <1>5, <3>1, SubSeqProperties
    <3> QED
      BY <1>3, <1>4, <2>1, <3>2, <3>3 DEF Progress
  <2>3. Fits(next, device_list', Listing')
    BY <1>2, <1>3, <1>5, <1>6, <2>2 DEF Fits
  <2> HIDE DEF next
  <2>4. Alone(device_list, Listing)'
    BY <1>1, <1>2, <2>1, <2>3, AppendPacket DEF Alone
  <2>5. Progress'
    BY <1>1, <1>4, <1>5, <2>1, <2>2 DEF Progress
  <2> QED
    BY <1>1, <1>3, <2>1, <2>4, <2>5 DEF ListInv, QueryOK, progVars
<1> QED
  BY <1>7, <1>8

LEMMA ConnResponseStep ==
  ASSUME ListInv, ProcessPacket, ConnResponse(Head(rxbufs))
  PROVE  ListInv'
<1> DEFINE pkt == Head(rxbufs)
<1>1. /\ query_active /\ call = "query" /\ Alone(device_list, Listing)
      /\ rxbufs # <<>> /\ rxbufs' = Tail(rxbufs)
      /\ pkt.conn = Query /\ pkt.type = "RSP_CONN"
      /\ UNCHANGED <<progVars, net, uplink, txbufs, conn_if, device_list>>
      /\ query_active' = FALSE /\ pc' = "process"
  BY DEF ListInv, QueryOK, ProcessPacket, Looping, ConnResponse, vmVars
<1>2. /\ Fits(pkt, device_list, Listing) /\ Quiet(rxbufs')
      /\ Quiet(net) /\ Quiet(uplink) /\ Quiet(txbufs)
  BY <1>1, TakePacket DEF Alone, Access
<1>3. ~Listing /\ ~Listing'
  BY <1>1, <1>2 DEF Fits, Listing, NextCall, progVars
<1>4. conn_if \in Ifs /\ device_list = <<>>
  BY <1>1, <1>3 DEF ListInv, QueryOK
<1>5. Range(ifs') \subseteq Ifs /\ IsSeq(ifs')
  <2>1. ifs \in Seq(Ifs)
    BY SeqMonotonic DEF ListInv, IsSeq
  <2>2. ifs' \in Seq(Ifs)
    BY <1>4, <2>1 DEF ConnResponse
  <2> QED
    BY <2>2, IsSeqOf DEF Range
<1> QED
  BY <1>1, <1>2, <1>3, <1>4, <1>5 DEF ListInv, QueryOK, NobodyAsks, progVars

\* A packet of an interface goes to its queue.
LEMMA ForInterfaceStep ==
  ASSUME ListInv, ProcessPacket, ForInterface(Head(rxbufs))
  PROVE  ListInv'
<1> DEFINE pkt == Head(rxbufs)
<1>1. /\ rxbufs # <<>> /\ rxbufs' = Tail(rxbufs) /\ cif' = pkt.conn
      /\ UNCHANGED <<progVars, queryVars, net, uplink, txbufs>>
      /\ pkt.conn \in Ifs /\ call \in {"query", "mainloop"} /\ QueryOK
  BY DEF ListInv, ProcessPacket, Looping, ForInterface, vmVars
<1>2. ~Fits(pkt, device_list, Listing)
  BY <1>1, ClientAssumption DEF Fits
<1>3. Listing' = Listing
  BY <1>1 DEF Listing, NextCall, progVars
<1>4. ASSUME NobodyAsks PROVE NobodyAsks'
  BY <1>1, <1>4, TakePacket DEF NobodyAsks
<1>5. ASSUME Alone(device_list, Listing) PROVE Alone(device_list, Listing)'
  BY <1>1, <1>2, <1>3, <1>5, TakePacket DEF Alone, queryVars
<1>6. Progress => Progress'
  BY <1>1 DEF Progress, queryVars
<1> QED
  BY <1>1, <1>3, <1>4, <1>5, <1>6 DEF ListInv, QueryOK, progVars, queryVars

\* An answer is pushed, or nothing is.
LEMMA AdvanceStep == ListInv /\ AdvanceIf => ListInv'
<1> SUFFICES ASSUME ListInv, AdvanceIf PROVE ListInv'
  OBVIOUS
<1>1. /\ UNCHANGED <<progVars, queryVars, cif, rxbufs, net, uplink>>
      /\ cif \in Ifs /\ call \in {"query", "mainloop"} /\ QueryOK
  BY DEF ListInv, AdvanceIf, Looping, vmVars
<1>2. \/ txbufs' = txbufs
      \/ \E p : Access(p) /\ txbufs' = Append(txbufs, p)
  <2>1. CASE \E pkt : Finish(pkt)
    <3>1. PICK pkt : Finish(pkt)
      BY <2>1
    <3> DEFINE answer == [conn |-> cif, type |-> "DONE", id |-> pkt.id]
    <3>2. Access(answer)
      BY <1>1, ClientAssumption DEF Access
    <3>3. txbufs' = txbufs \/ txbufs' = Append(txbufs, answer)
      BY <3>1 DEF Finish, push_packet
    <3> QED
      BY <3>2, <3>3
  <2>2. CASE StopAdvancing \/ Stall
    BY <2>2 DEF StopAdvancing, Stall
  <2> QED
    BY <2>1, <2>2 DEF AdvanceIf
<1>3. Listing' = Listing
  BY <1>1 DEF Listing, NextCall, progVars
<1>4. ASSUME NobodyAsks PROVE NobodyAsks'
  BY <1>1, <1>2, <1>4, AppendPacket DEF NobodyAsks
<1>5. ASSUME Alone(device_list, Listing) PROVE Alone(device_list, Listing)'
  BY <1>1, <1>2, <1>3, <1>5, AppendPacket DEF Alone, queryVars
<1>6. Progress => Progress'
  BY <1>1 DEF Progress, queryVars
<1> QED
  BY <1>1, <1>3, <1>4, <1>5, <1>6 DEF ListInv, QueryOK, progVars, queryVars

\* The virtual machine answers the query with one packet.
LEMMA VmTakesStep == ListInv /\ VmTakes => ListInv'
<1> SUFFICES ASSUME ListInv, VmTakes PROVE ListInv'
  OBVIOUS
<1> DEFINE pkt == Head(uplink)
<1>1. /\ uplink # <<>> /\ uplink' = Tail(uplink)
      /\ UNCHANGED <<progVars, queryVars, ifs, cif, pc, rxbufs, txbufs>>
  BY DEF VmTakes, clientSide, cifVars, queryVars
<1>2. Listing' = Listing
  BY <1>1 DEF Listing, NextCall, progVars
<1>3. ASSUME Access(pkt) PROVE net' = net
  BY <1>3 DEF VmTakes, Access
<1>4. ASSUME NEW d, NEW listing \in BOOLEAN, Fits(pkt, d, listing),
             Len(d) \in 0 .. Len(Listed)
      PROVE  \E p : Fits(p, d, listing) /\ net' = Append(net, p)
  <2>1. CASE pkt.type = "REQ_LIST"
    <3>1. listing /\ pkt.base = Len(d)
      BY <1>4, <2>1 DEF Fits
    <3>2. PICK last \in pkt.base .. Len(Listed) :
            /\ last = pkt.base => last = Len(Listed)
            /\ net' = Append(net, [conn |-> Query, type |-> "RSP_LIST",
                                   base |-> pkt.base,
                                   devices |-> SubSeq(Listed, pkt.base + 1, last)])
      BY <2>1 DEF VmTakes
    <3> DEFINE p == [conn |-> Query, type |-> "RSP_LIST", base |-> pkt.base,
                     devices |-> SubSeq(Listed, pkt.base + 1, last)]
    <3>3. Fits(p, d, listing)
      BY <3>1, <3>2 DEF Fits
    <3> QED
      BY <3>2, <3>3
  <2>2. CASE pkt.type = "REQ_CONN"
    <3>1. ~listing
      BY <1>4, <2>2 DEF Fits
    <3>2. PICK accepted \in BOOLEAN :
            net' = Append(net, [conn |-> Query, type |-> "RSP_CONN",
                                cif |-> pkt.cif, accepted |-> accepted])
      BY <2>2 DEF VmTakes
    <3> DEFINE p == [conn |-> Query, type |-> "RSP_CONN",
                     cif |-> pkt.cif, accepted |-> accepted]
    <3>3. Fits(p, d, listing)
      BY <3>1 DEF Fits
    <3> QED
      BY <3>2, <3>3
  <2> QED
    BY <1>4, <2>1, <2>2 DEF VmTakes, Fits
<1>5. ASSUME NobodyAsks PROVE NobodyAsks'
  BY <1>1, <1>3, <1>5, TakePacket DEF NobodyAsks
<1>6. ASSUME QueryOK, query_active
      PROVE  Alone(device_list, Listing)'
  <2>1. Len(device_list) \in 0 .. Len(Listed)
    BY <1>6, ClientAssumption DEF QueryOK, Progress
  <2>2. Alone(device_list, Listing)
    BY <1>6 DEF QueryOK
  <2>3. CASE Access(pkt)
    <3>1. ~Fits(pkt, device_list, Listing)
      BY <2>3 DEF Access, Fits
    <3> QED
      BY <1>1, <1>2, <1>3, <2>2, <2>3, <3>1, TakePacket DEF Alone, queryVars
  <2>4. CASE ~Access(pkt)
    <3>1. /\ Fits(pkt, device_list, Listing) /\ Quiet(uplink') /\ Quiet(net)
          /\ Quiet(rxbufs) /\ Quiet(txbufs)
      BY <1>1, <2>2, <2>4, TakePacket DEF Alone
    <3>2. \E p : Fits(p, device_list, Listing) /\ net' = Append(net, p)
      BY <1>4, <2>1, <3>1 DEF Listing
    <3>3. Lone(net', device_list, Listing)
      BY <3>1, <3>2, AppendPacket
    <3> QED
      BY <1>1, <1>2, <3>1, <3>3 DEF Alone, queryVars
  <2> QED
    BY <2>3, <2>4
<1>7. Progress => Progress'
  BY <1>1 DEF Progress, queryVars
<1> QED
  BY <1>1, <1>2, <1>5, <1>6, <1>7 DEF ListInv, QueryOK, progVars, queryVars

LEMMA VmRequestsStep == ListInv /\ VmRequests => ListInv'
<1> SUFFICES ASSUME ListInv, VmRequests PROVE ListInv'
  OBVIOUS
<1>1. UNCHANGED <<progVars, queryVars, ifs, cif, pc, rxbufs, txbufs, uplink>>
  BY DEF VmRequests, clientSide, cifVars, queryVars
<1>0. PICK i \in Ifs : \E r \in Requests[i] :
        net' = Append(net, [conn |-> i, type |-> r.type, ack |-> r.ack,
                            id |-> sent'[i]])
  BY DEF VmRequests
<1>2. PICK r \in Requests[i] :
        net' = Append(net, [conn |-> i, type |-> r.type, ack |-> r.ack,
                            id |-> sent'[i]])
  BY <1>0
<1> DEFINE p == [conn |-> i, type |-> r.type, ack |-> r.ack, id |-> sent'[i]]
<1>3. Access(p) /\ net' = Append(net, p)
  BY <1>2, ClientAssumption DEF Access
<1> HIDE DEF p
<1>4. Listing' = Listing
  BY <1>1 DEF Listing, NextCall, progVars
<1>5. ASSUME NobodyAsks PROVE NobodyAsks'
  BY <1>1, <1>3, <1>5, AppendPacket DEF NobodyAsks
<1>6. ASSUME Alone(device_list, Listing) PROVE Alone(device_list, Listing)'
  BY <1>1, <1>3, <1>4, <1>6, AppendPacket DEF Alone, queryVars
<1>7. Progress => Progress'
  BY <1>1 DEF Progress, queryVars
<1> QED
  BY <1>1, <1>4, <1>5, <1>6, <1>7 DEF ListInv, QueryOK, progVars, queryVars

\* A step that leaves the queries and the four sequences alone.
LEMMA AsideStep ==
  ASSUME ListInv,
         UNCHANGED <<plan, made, returned, queryVars, cif, rxbufs, net, uplink,
                     txbufs>>,
         pc' \in {pc, "select", "process", "send"},
         call' = call \/ (call = "next" /\ call' = "mainloop")
  PROVE  ListInv'
<1>1. Listing' = Listing
  BY DEF Listing, NextCall
<1>2. NobodyAsks' = NobodyAsks
  BY DEF NobodyAsks
<1>3. Alone(device_list, Listing)' = Alone(device_list, Listing)
  BY <1>1 DEF Alone, queryVars
<1>4. Progress' = Progress
  BY DEF Progress, queryVars
<1> QED
  BY <1>1, <1>2, <1>3, <1>4 DEF ListInv, QueryOK, queryVars

LEMMA ListStep == ListInv /\ [Next]_vars => ListInv'
<1> SUFFICES ASSUME ListInv, [Next]_vars PROVE ListInv'
  OBVIOUS
<1>1. CASE UNCHANGED clientVars
  BY <1>1, AsideStep DEF clientVars, queryVars
<1>2. CASE BeginList
  BY <1>2, BeginListStep
<1>3. CASE BeginAttach
  BY <1>3, BeginAttachStep
<1>4. CASE BeginMainloop
  BY <1>4, AsideStep DEF BeginMainloop, cifVars, vmVars
<1>5. CASE Interrupt \/ Done
  BY <1>5, CloseStep DEF Interrupt, Done, ListInv
<1>6. CASE Select
  BY <1>6, SelectStep
<1>7. CASE SelectSplit
  BY <1>7, AsideStep DEF SelectSplit, progVars, cifVars, vmVars
<1>8. CASE SelectLost
  BY <1>8, CloseStep DEF SelectLost, ListInv
<1>9. CASE ProcessPacket
  BY <1>9, ListResponseStep, ConnResponseStep, ForInterfaceStep DEF ProcessPacket
<1>10. CASE NoMorePackets
  BY <1>10, AsideStep DEF NoMorePackets, progVars, cifVars, vmVars
<1>11. CASE AdvanceIf
  BY <1>11, AdvanceStep
<1>12. CASE Send
  BY <1>12, SendStep
<1>13. CASE VmTakes
  BY <1>13, VmTakesStep
<1>14. CASE VmRequests
  BY <1>14, VmRequestsStep
<1>15. CASE VmCloses
  BY <1>15, AsideStep DEF VmCloses, clientSide, progVars, cifVars
<1> QED
  BY <1>1, <1>2, <1>3, <1>4, <1>5, <1>6, <1>7, <1>8, <1>9, <1>10, <1>11, <1>12,
     <1>13, <1>14, <1>15 DEF Next, ClientNext, ClientStep, vars

\* A list of devices is whole and in order, or empty because the connection
\* was lost, for every list and however the virtual machine pages it
\* (process_list_response).
THEOREM ListsAlwaysWhole == Spec => []ListIsWhole
<1>1. ListInv => ListIsWhole
  BY DEF ListInv, ListIsWhole
<1> QED
  BY <1>1, ListInit, ListStep, PTL DEF Spec

-----------------------------------------------------------------------------
(* The answers of the Python client.  First what is selected of a sequence *)
(* of packets, and the ids of it.                                          *)

\* The ids of the packets of s that are in T.
IdsIn(s, T) == Ids(Selected(s, T))

HaveIds(T) == \A p \in T : p.id \in Nat

\* Concatenation is associative.
LEMMA Regroup == \A f, g, h \in Seq(Nat) : (f \o g) \o h = f \o (g \o h)
<1> SUFFICES ASSUME NEW f \in Seq(Nat), NEW g \in Seq(Nat), NEW h \in Seq(Nat)
             PROVE  (f \o g) \o h = f \o (g \o h)
  OBVIOUS
<1> QED
  BY ConcatAssociative

\* The ids of a sequence, one by one.
LEMMA IdsFacts ==
  ASSUME NEW T, HaveIds(T), NEW s \in Seq(T)
  PROVE  /\ Ids(s) \in Seq(Nat) /\ Len(Ids(s)) = Len(s)
         /\ \A k \in 1 .. Len(s) : Ids(s)[k] = s[k].id
<1>1. /\ DOMAIN s = 1 .. Len(s) /\ Len(s) \in Nat
      /\ \A k \in 1 .. Len(s) : s[k].id \in Nat
  BY DEF HaveIds
<1>2. Ids(s) = [k \in 1 .. Len(s) |-> s[k].id]
  BY <1>1 DEF Ids
<1> QED
  BY <1>1, <1>2

\* The ids of a concatenation.
LEMMA IdsConcat ==
  ASSUME NEW T, HaveIds(T), NEW s \in Seq(T), NEW t \in Seq(T)
  PROVE  Ids(s \o t) = Ids(s) \o Ids(t)
<1> DEFINE u == s \o t
<1>1. /\ u \in Seq(T) /\ Len(u) = Len(s) + Len(t)
      /\ Len(s) \in Nat /\ Len(t) \in Nat
      /\ \A k \in 1 .. Len(s) : u[k] = s[k]
      /\ \A k \in Len(s) + 1 .. Len(u) : u[k] = t[k - Len(s)]
  OBVIOUS
<1> HIDE DEF u
<1> DEFINE a == Ids(s)
           b == Ids(t)
           c == Ids(u)
<1>2. /\ a \in Seq(Nat) /\ Len(a) = Len(s) /\ \A k \in 1 .. Len(s) : a[k] = s[k].id
      /\ b \in Seq(Nat) /\ Len(b) = Len(t) /\ \A k \in 1 .. Len(t) : b[k] = t[k].id
      /\ c \in Seq(Nat) /\ Len(c) = Len(u) /\ \A k \in 1 .. Len(u) : c[k] = u[k].id
  BY <1>1, IdsFacts
<1> HIDE DEF a, b, c
<1> DEFINE d == a \o b
<1>3. /\ d \in Seq(Nat) /\ Len(d) = Len(a) + Len(b)
      /\ \A k \in 1 .. Len(a) + Len(b) :
            d[k] = IF k <= Len(a) THEN a[k] ELSE b[k - Len(a)]
  <2>1. a \in Seq(Nat) /\ b \in Seq(Nat)
    BY <1>2
  <2> QED
    BY ONLY <2>1, ConcatProperties
<1> HIDE DEF d
<1>6. /\ \A k \in 1 .. Len(s) : d[k] = a[k]
      /\ \A k \in Len(s) + 1 .. Len(u) : d[k] = b[k - Len(s)]
  <2>1. Len(a) = Len(s) /\ Len(u) = Len(a) + Len(b) /\ Len(a) \in Nat /\ Len(b) \in Nat
    BY <1>1, <1>2
  <2>2. \A k \in 1 .. Len(a) : d[k] = a[k]
    BY ONLY <2>1, <1>3
  <2>3. \A k \in Len(a) + 1 .. Len(a) + Len(b) : d[k] = b[k - Len(a)]
    BY ONLY <2>1, <1>3
  <2> QED
    BY ONLY <2>1, <2>2, <2>3
<1>4. ASSUME NEW k \in 1 .. Len(u) PROVE c[k] = d[k]
  <2>0. k \in Int /\ Len(s) \in Nat /\ c[k] = u[k].id
    BY <1>1, <1>2
  <2>1. CASE k <= Len(s)
    <3>1. k \in 1 .. Len(s)
      BY <2>0, <2>1
    <3>2. u[k] = s[k] /\ a[k] = s[k].id
      BY <1>1, <1>2, <3>1
    <3>3. d[k] = a[k]
      BY <1>6, <3>1
    <3> QED
      BY ONLY <2>0, <3>2, <3>3
  <2>2. CASE k > Len(s)
    <3>1. k \in Len(s) + 1 .. Len(u) /\ k - Len(s) \in 1 .. Len(t)
      BY <1>1, <2>2
    <3>2. u[k] = t[k - Len(s)]
      BY <1>1, <3>1
    <3>3. b[k - Len(s)] = t[k - Len(s)].id
      BY <1>2, <3>1
    <3>4. d[k] = b[k - Len(s)]
      BY <1>6, <3>1
    <3> QED
      BY ONLY <2>0, <3>2, <3>3, <3>4
  <2> QED
    BY <2>0, <2>1, <2>2
<1>5. c = a \o b
  <2>1. c = d
    BY <1>1, <1>2, <1>3, <1>4, SeqEqual
  <2> QED
    BY <2>1 DEF d
<1> QED
  BY <1>5 DEF a, b, c, u

\* The ids of the shortest sequences.
LEMMA IdsShortest == Ids(<< >>) = << >> /\ \A p : Ids(<<p>>) = <<p.id>>
BY DEF Ids

\* What is selected.
LEMMA SelectedIn ==
  ASSUME NEW X, NEW s \in Seq(X), NEW T
  PROVE  Selected(s, T) \in Seq(T)
<1> DEFINE q == Selected(s, T)
<1>1. q \in Seq(X) /\ ToSet(q) \subseteq T
  BY SelectedTyped, SelectedRange
<1> HIDE DEF q
<1>2. \A k \in 1 .. Len(q) : q[k] \in T
  BY <1>1 DEF ToSet
<1> QED
  BY <1>1, <1>2 DEF q

\* The ids selected of a sequence are numbers.
LEMMA IdsInTyped ==
  ASSUME NEW X, NEW s \in Seq(X), NEW T, HaveIds(T)
  PROVE  IdsIn(s, T) \in Seq(Nat)
BY SelectedIn, IdsFacts DEF IdsIn

\* Those selected of a concatenation.
LEMMA IdsInConcat ==
  ASSUME NEW X, NEW s \in Seq(X), NEW t \in Seq(X), NEW T, HaveIds(T)
  PROVE  IdsIn(s \o t, T) = IdsIn(s, T) \o IdsIn(t, T)
<1>1. Selected(s \o t, T) = Selected(s, T) \o Selected(t, T)
  BY SelectedConcat
<1>2. Selected(s, T) \in Seq(T) /\ Selected(t, T) \in Seq(T)
  BY SelectedIn
<1> QED
  BY <1>1, <1>2, IdsConcat DEF IdsIn

\* Those selected of the shortest sequences.
LEMMA IdsInEmpty == \A T : IdsIn(<< >>, T) = << >>
BY SelectedEmpty, IdsShortest DEF IdsIn

LEMMA IdsInOne ==
  ASSUME NEW p, NEW T
  PROVE  IdsIn(<<p>>, T) = IF p \in T THEN <<p.id>> ELSE << >>
<1>1. << >> \in Seq({p}) /\ p \in {p}
  OBVIOUS
<1>2. Append(<< >>, p) = <<p>>
  OBVIOUS
<1>3. Selected(Append(<< >>, p), T) = IF p \in T THEN Append(Selected(<< >>, T), p)
                                     ELSE Selected(<< >>, T)
  BY <1>1, SelectedAppend
<1>4. Selected(<<p>>, T) = IF p \in T THEN <<p>> ELSE << >>
  BY <1>2, <1>3, SelectedEmpty
<1> QED
  BY <1>4, IdsShortest DEF IdsIn

\* A packet more at the end.
LEMMA IdsInAppend ==
  ASSUME NEW X, NEW s \in Seq(X), NEW p \in X, NEW T, HaveIds(T)
  PROVE  /\ p \in T => IdsIn(Append(s, p), T) = IdsIn(s, T) \o <<p.id>>
         /\ p \notin T => IdsIn(Append(s, p), T) = IdsIn(s, T)
<1> DEFINE q == <<p>>
<1>1. q \in Seq(X) /\ Append(s, p) = s \o q
  BY AppendIsConcat
<1> HIDE DEF q
<1>5. IdsIn(s \o q, T) = IdsIn(s, T) \o IdsIn(q, T)
  BY <1>1, IdsInConcat
<1>2. IdsIn(Append(s, p), T) = IdsIn(s, T) \o IdsIn(<<p>>, T)
  BY ONLY <1>1, <1>5 DEF q
<1>3. IdsIn(s, T) \in Seq(Nat)
  BY IdsInTyped
<1>4. IdsIn(s, T) \o << >> = IdsIn(s, T)
  BY <1>3, ConcatEmptySeq
<1> QED
  BY <1>2, <1>4, IdsInOne

\* A packet less at the beginning.
LEMMA IdsInTail ==
  ASSUME NEW X, NEW s \in Seq(X), s # << >>, NEW T, HaveIds(T)
  PROVE  /\ Head(s) \in T => IdsIn(s, T) = <<Head(s).id>> \o IdsIn(Tail(s), T)
         /\ Head(s) \notin T => IdsIn(s, T) = IdsIn(Tail(s), T)
<1> DEFINE p == Head(s)
           t == Tail(s)
<1>1. p \in X /\ t \in Seq(X) /\ <<p>> \in Seq(X)
  OBVIOUS
<1>2. s = <<p>> \o t
  <2>1. \A k \in 1 .. Len(s) : s[k] = (<<p>> \o t)[k]
    OBVIOUS
  <2>2. <<p>> \o t \in Seq(X) /\ Len(<<p>> \o t) = Len(s)
    OBVIOUS
  <2> HIDE DEF p, t
  <2> QED
    BY <2>1, <2>2, SeqEqual
<1> HIDE DEF p, t
<1>3. IdsIn(s, T) = IdsIn(<<p>>, T) \o IdsIn(t, T)
  <2> DEFINE q == <<p>>
  <2>1. q \in Seq(X)
    BY <1>1
  <2> HIDE DEF q
  <2>2. IdsIn(q \o t, T) = IdsIn(q, T) \o IdsIn(t, T)
    BY <1>1, <2>1, IdsInConcat
  <2> QED
    BY ONLY <1>2, <2>2 DEF q
<1>4. IdsIn(t, T) \in Seq(Nat)
  BY <1>1, IdsInTyped
<1>5. << >> \o IdsIn(t, T) = IdsIn(t, T)
  BY <1>4, ConcatEmptySeq
<1> QED
  BY <1>3, <1>5, IdsInOne DEF p, t

\* a and b hold together what s and t do, divided otherwise.
Redivided(s, t, a, b) == a \o b = s \o t

\* The first n packets of t are moved to the end of s, which gives a and b.
Moves(s, t, n, a, b) == /\ a = s \o SubSeq(t, 1, n)
                        /\ b = SubSeq(t, n + 1, Len(t))

\* Moving packets to the sequence before does not change the ids of both.
LEMMA IdsMoved ==
  ASSUME NEW X, NEW s \in Seq(X), NEW t \in Seq(X), NEW T, HaveIds(T),
         NEW n \in 0 .. Len(t), NEW a, NEW b, Moves(s, t, n, a, b)
  PROVE  Redivided(IdsIn(s, T), IdsIn(t, T), IdsIn(a, T), IdsIn(b, T))
<1> DEFINE c == SubSeq(t, 1, n)
<1>1. c \in Seq(X) /\ b \in Seq(X) /\ a = s \o c
  <2>1. SubSeq(t, 1, n) \in Seq(X) /\ SubSeq(t, n + 1, Len(t)) \in Seq(X)
    OBVIOUS
  <2> QED
    BY <2>1 DEF Moves
<1>2. t = c \o b
  <2>1. Len(t) \in Nat /\ 1 \in 1 .. Len(t) + 1 /\ n \in 1 - 1 .. Len(t)
        /\ Len(t) \in n .. Len(t)
    OBVIOUS
  <2>2. SubSeq(t, 1, n) \o SubSeq(t, n + 1, Len(t)) = SubSeq(t, 1, Len(t))
    BY <2>1, ConcatAdjacentSubSeq
  <2>3. SubSeq(t, 1, Len(t)) = t
    BY SubSeqFull
  <2> QED
    BY <2>2, <2>3 DEF Moves
<1> HIDE DEF c
<1>3. IdsIn(t, T) = IdsIn(c, T) \o IdsIn(b, T)
  BY <1>1, <1>2, IdsInConcat
<1>4. IdsIn(s \o c, T) = IdsIn(s, T) \o IdsIn(c, T)
  BY <1>1, IdsInConcat
<1>5. /\ IdsIn(s, T) \in Seq(Nat) /\ IdsIn(c, T) \in Seq(Nat)
      /\ IdsIn(b, T) \in Seq(Nat)
  BY <1>1, IdsInTyped
<1>6. (IdsIn(s, T) \o IdsIn(c, T)) \o IdsIn(b, T)
        = IdsIn(s, T) \o (IdsIn(c, T) \o IdsIn(b, T))
  BY ONLY <1>5, Regroup
<1> QED
  BY ONLY <1>1, <1>3, <1>4, <1>6 DEF Redivided

-----------------------------------------------------------------------------
(* The invariant PacketChain.  What is requested of an interface is, in    *)
(* this order: what it has answered, the answers sent, those to be sent,   *)
(* and the requests in its queue, those read, and those sent.  Every step  *)
(* moves packets between two neighbours of this chain, or adds to its end. *)

\* The requests to interface i, and those of them that want an answer.
RequestOf(i) == [conn : {i}, type : STRING, ack : BOOLEAN, id : Nat]
WantOf(i)    == {p \in RequestOf(i) : WantsAnswer(p)}

\* What the client sends, and what it gets.
UpPacket ==
    [conn : {Query}, type : {"REQ_LIST"}, base : Nat]
      \cup [conn : {Query}, type : {"REQ_CONN"}, cif : Ifs]
      \cup UNION {AnswerOf(i) : i \in Ifs}
DownPacket ==
    [conn : {Query}, type : {"RSP_LIST"}, base : Nat, devices : Seq(Range(Listed))]
      \cup [conn : {Query}, type : {"RSP_CONN"}, cif : Ifs, accepted : BOOLEAN]
      \cup UNION {RequestOf(i) : i \in Ifs}

PacketsOK ==
    /\ uplink \in Seq(UpPacket) /\ txbufs \in Seq(UpPacket)
    /\ rxbufs \in Seq(DownPacket) /\ net \in Seq(DownPacket)
    /\ DOMAIN queue = Ifs /\ \A i \in Ifs : queue[i] \in Seq(RequestOf(i))
    /\ sent \in [Ifs -> Nat]
    /\ requested \in [Ifs -> Seq(Nat)] /\ answered \in [Ifs -> Seq(Nat)]

\* An interface's answers on their way, and its requests that want one.
Up(i) == IdsIn(uplink, AnswerOf(i))
Tx(i) == IdsIn(txbufs, AnswerOf(i))
Qu(i) == IdsIn(queue[i], WantOf(i))
Rx(i) == IdsIn(rxbufs, WantOf(i))
Ne(i) == IdsIn(net, WantOf(i))

Waiting(i) == Qu(i) \o (Rx(i) \o Ne(i))

\* What was asked of interface i is what it has answered, and then `rest`.
Follows(i, rest) == requested[i] = answered[i] \o (Up(i) \o (Tx(i) \o rest))

Abandoned(i) == \E rest \in Seq(Nat) : Follows(i, rest)

\* Every request is somewhere on the way round; a client that has ended has
\* left the rest.
ChainOK ==
    \A i \in Ifs : IF call = "ended" THEN Abandoned(i) /\ txbufs = << >>
                                     ELSE Follows(i, Waiting(i))

\* What a packet of the client may be.
LEMMA UpFacts ==
  ASSUME NEW p \in UpPacket
  PROVE  /\ p.type \in {"REQ_LIST", "REQ_CONN", "DONE"}
         /\ p.type = "DONE" => p.conn \in Ifs /\ p \in AnswerOf(p.conn) /\ p.id \in Nat
         /\ p.type = "REQ_LIST" => p.base \in Nat
         /\ p.type = "REQ_CONN" => p.cif \in Ifs
         /\ \A i : p \in AnswerOf(i) <=> p.type = "DONE" /\ p.conn = i
<1>1. CASE p \in [conn : {Query}, type : {"REQ_LIST"}, base : Nat]
  BY <1>1 DEF AnswerOf
<1>2. CASE p \in [conn : {Query}, type : {"REQ_CONN"}, cif : Ifs]
  BY <1>2 DEF AnswerOf
<1>3. CASE \E i \in Ifs : p \in AnswerOf(i)
  BY <1>3 DEF AnswerOf
<1> QED
  BY <1>1, <1>2, <1>3 DEF UpPacket

\* What a packet of the virtual machine may be.
LEMMA DownFacts ==
  ASSUME NEW p \in DownPacket
  PROVE  /\ p.conn \in Ifs => p \in RequestOf(p.conn)
         /\ p.conn = Query /\ p.type = "RSP_LIST" =>
              p.base \in Nat /\ p.devices \in Seq(Range(Listed))
         /\ \A i \in Ifs : p \in WantOf(i) => p.conn = i
<1>1. CASE p \in [conn : {Query}, type : {"RSP_LIST"}, base : Nat,
                  devices : Seq(Range(Listed))]
  <2>1. p.conn = Query /\ Query \notin Ifs
    BY <1>1, ClientAssumption
  <2> QED
    BY <1>1, <2>1 DEF RequestOf, WantOf
<1>2. CASE p \in [conn : {Query}, type : {"RSP_CONN"}, cif : Ifs, accepted : BOOLEAN]
  <2>1. p.conn = Query /\ Query \notin Ifs /\ p.type = "RSP_CONN"
    BY <1>2, ClientAssumption
  <2> QED
    BY <2>1 DEF RequestOf, WantOf
<1>3. CASE \E i \in Ifs : p \in RequestOf(i)
  <2>1. p.conn \in Ifs /\ p \in RequestOf(p.conn) /\ Query \notin Ifs
    BY <1>3, ClientAssumption DEF RequestOf
  <2>2. \A i \in Ifs : p \in WantOf(i) => p.conn = i
    BY DEF WantOf, RequestOf
  <2> QED
    BY <2>1, <2>2
<1> QED
  BY <1>1, <1>2, <1>3 DEF DownPacket

\* Answers and requests have ids.
LEMMA AnswersHaveIds == \A i : HaveIds(AnswerOf(i)) /\ HaveIds(WantOf(i))
BY DEF HaveIds, AnswerOf, WantOf, RequestOf

\* The virtual machine sends requests.
LEMMA RequestsAreDown == \A i \in Ifs : RequestOf(i) \subseteq DownPacket
BY DEF DownPacket

\* The parts of the chain are sequences of numbers.
LEMMA SegmentTypes ==
  ASSUME PacketsOK, NEW i \in Ifs
  PROVE  /\ Up(i) \in Seq(Nat) /\ Tx(i) \in Seq(Nat) /\ Qu(i) \in Seq(Nat)
         /\ Rx(i) \in Seq(Nat) /\ Ne(i) \in Seq(Nat)
         /\ answered[i] \in Seq(Nat) /\ requested[i] \in Seq(Nat)
         /\ Waiting(i) \in Seq(Nat)
<1>1. Up(i) \in Seq(Nat) /\ Tx(i) \in Seq(Nat)
  BY AnswersHaveIds, IdsInTyped DEF PacketsOK, Up, Tx
<1>2. Qu(i) \in Seq(Nat) /\ Rx(i) \in Seq(Nat) /\ Ne(i) \in Seq(Nat)
  BY AnswersHaveIds, IdsInTyped DEF PacketsOK, Qu, Rx, Ne
<1>3. Waiting(i) \in Seq(Nat)
  BY <1>2 DEF Waiting
<1> QED
  BY <1>1, <1>2, <1>3 DEF PacketsOK

\* Redividing two adjacent sequences does not change what they are part of.
Joined(a, b, r) == a \o (b \o r)

LEMMA Redivide ==
  \A a, b, c, d, r \in Seq(Nat) :
      Redivided(a, b, c, d) => Joined(a, b, r) = Joined(c, d, r)
<1> SUFFICES ASSUME NEW a \in Seq(Nat), NEW b \in Seq(Nat), NEW c \in Seq(Nat),
                    NEW d \in Seq(Nat), NEW r \in Seq(Nat), Redivided(a, b, c, d)
             PROVE  a \o (b \o r) = c \o (d \o r)
  BY DEF Joined
<1>1. (a \o b) \o r = a \o (b \o r)
  BY Regroup
<1>2. (c \o d) \o r = c \o (d \o r)
  BY Regroup
<1>3. a \o b = c \o d
  BY DEF Redivided
<1> QED
  BY ONLY <1>1, <1>2, <1>3

\* The first of one sequence becomes the last of the other.
Handed(a, b, c, d) == \E x \in Nat : c = a \o <<x>> /\ b = <<x>> \o d

LEMMA HandOver ==
  \A a, b, c, d \in Seq(Nat) : Handed(a, b, c, d) => Redivided(a, b, c, d)
<1> SUFFICES ASSUME NEW a \in Seq(Nat), NEW b \in Seq(Nat), NEW c \in Seq(Nat),
                    NEW d \in Seq(Nat), Handed(a, b, c, d)
             PROVE  Redivided(a, b, c, d)
  OBVIOUS
<1>1. PICK x \in Nat : c = a \o <<x>> /\ b = <<x>> \o d
  BY DEF Handed
<1> DEFINE y == <<x>>
<1>2. y \in Seq(Nat)
  OBVIOUS
<1> HIDE DEF y
<1>3. (a \o y) \o d = a \o (y \o d)
  BY <1>2, Regroup
<1>4. c = a \o y /\ b = y \o d
  BY <1>1 DEF y
<1> QED
  BY ONLY <1>3, <1>4 DEF Redivided

-----------------------------------------------------------------------------
(* The types of the packets, and what each action does with them.          *)

\* Nothing is on its way at first.
LEMMA PacketsInit == Init => PacketsOK
<1> SUFFICES ASSUME Init PROVE PacketsOK
  OBVIOUS
<1>1. ClientRest
  BY DEF Init, ClientInit
<1>2. \A X : << >> \in Seq(X)
  OBVIOUS
<1> QED
  BY <1>1, <1>2 DEF ClientRest, PacketsOK

\* Closing drops what was read and what was to be sent.
LEMMA PacketsClose ==
  ASSUME PacketsOK, Close
  PROVE  PacketsOK'
<1>1. \A X : << >> \in Seq(X)
  OBVIOUS
<1> QED
  BY <1>1 DEF Close, vmVars, PacketsOK

\* At most one member more.
LEMMA AppendTyped ==
  ASSUME NEW X, NEW s \in Seq(X), NEW p \in X
  PROVE  Append(s, p) \in Seq(X)
OBVIOUS

\* A packet is pushed to be sent, or none; the rest is left alone.
LEMMA PacketsPush ==
  ASSUME PacketsOK,
         UNCHANGED <<uplink, rxbufs, net, queue, sent, requested, answered>>,
         txbufs' = txbufs \/ \E p \in UpPacket : txbufs' = Append(txbufs, p)
  PROVE  PacketsOK'
<1>1. txbufs \in Seq(UpPacket)
  BY DEF PacketsOK
<1>2. txbufs' \in Seq(UpPacket)
  BY <1>1, AppendTyped
<1> QED
  BY <1>2 DEF PacketsOK

\* A call pushes a query.
LEMMA PacketsBegin ==
  ASSUME PacketsOK, BeginList \/ BeginAttach
  PROVE  /\ PacketsOK'
         /\ \E p \in UpPacket : p.type # "DONE" /\ txbufs' = Append(txbufs, p)
<1>1. CASE BeginList
  <2> DEFINE p == [conn |-> Query, type |-> "REQ_LIST", base |-> 0]
  <2>1. p \in UpPacket /\ p.type # "DONE"
    BY DEF UpPacket
  <2>2. txbufs' = Append(txbufs, p)
    BY <1>1 DEF BeginList, push_packet
  <2>3. UNCHANGED <<uplink, rxbufs, net, queue, sent, requested, answered>>
    BY <1>1 DEF BeginList, vmVars, cifVars
  <2> QED
    BY <2>1, <2>2, <2>3, PacketsPush
<1>2. CASE BeginAttach
  <2> DEFINE p == [conn |-> Query, type |-> "REQ_CONN", cif |-> NextCall]
  <2>1. p \in UpPacket /\ p.type # "DONE"
    BY <1>2 DEF UpPacket, BeginAttach
  <2>2. txbufs' = Append(txbufs, p)
    BY <1>2 DEF BeginAttach, push_packet
  <2>3. UNCHANGED <<uplink, rxbufs, net, queue, sent, requested, answered>>
    BY <1>2 DEF BeginAttach, vmVars, cifVars
  <2> QED
    BY <2>1, <2>2, <2>3, PacketsPush
<1> QED
  BY <1>1, <1>2

\* A sequence cut in two, and a part appended to another.
LEMMA CutAndJoin ==
  ASSUME NEW X, NEW s \in Seq(X), NEW t \in Seq(X), NEW n \in 0 .. Len(t)
  PROVE  /\ s \o SubSeq(t, 1, n) \in Seq(X)
         /\ SubSeq(t, n + 1, Len(t)) \in Seq(X)
<1>1. SubSeq(t, 1, n) \in Seq(X) /\ SubSeq(t, n + 1, Len(t)) \in Seq(X)
  OBVIOUS
<1> QED
  BY <1>1, ConcatProperties

\* Packets are read.
LEMMA PacketsSelect ==
  ASSUME PacketsOK, Select
  PROVE  /\ PacketsOK'
         /\ \E n \in 0 .. Len(net) : Read(n)
         /\ UNCHANGED <<call, uplink, txbufs, queue, sent, requested, answered>>
<1>1. PICK n \in 0 .. Len(net) : Read(n)
  BY DEF Select
<1>2. UNCHANGED <<call, uplink, txbufs, queue, sent, requested, answered>>
  BY DEF Select, cifVars, progVars
<1>3. rxbufs' \in Seq(DownPacket) /\ net' \in Seq(DownPacket)
  BY <1>1, CutAndJoin DEF Read, PacketsOK
<1> QED
  BY <1>1, <1>2, <1>3 DEF PacketsOK

\* What sending takes away.
Sends(n) == Moves(uplink, txbufs, n, uplink', txbufs')

\* Packets are sent.
LEMMA PacketsSend ==
  ASSUME PacketsOK, Send
  PROVE  /\ PacketsOK'
         /\ \E n \in 0 .. Len(txbufs) : Sends(n)
         /\ UNCHANGED <<rxbufs, net, queue, sent, requested, answered>>
<1>1. \E many \in IF MaySend THEN 0 .. Len(txbufs) ELSE {0} : Sends(many)
  BY DEF Send, Sends, Moves
<1>2. Len(txbufs) \in Nat
  BY DEF PacketsOK
<1>3. PICK n \in 0 .. Len(txbufs) : Sends(n)
  BY <1>1, <1>2
<1>4. UNCHANGED <<rxbufs, net, queue, sent, requested, answered>>
  BY DEF Send, cifVars
<1>5. uplink' \in Seq(UpPacket) /\ txbufs' \in Seq(UpPacket)
  BY <1>3, CutAndJoin DEF Sends, Moves, PacketsOK
<1> QED
  BY <1>3, <1>4, <1>5 DEF PacketsOK

\* The first packet read is taken, to a queue when it is for an interface.
Enqueues(pkt) == /\ pkt.conn \in Ifs
                 /\ queue' = [queue EXCEPT ![pkt.conn] = Append(@, pkt)]
                 /\ txbufs' = txbufs

Asks(pkt) == /\ pkt.conn \notin Ifs /\ queue' = queue
             /\ \/ txbufs' = txbufs
                \/ \E p \in UpPacket : p.type # "DONE" /\ txbufs' = Append(txbufs, p)

\* A packet read is processed.
LEMMA PacketsProcess ==
  ASSUME ListInv, PacketsOK, ProcessPacket
  PROVE  /\ PacketsOK' /\ rxbufs # << >> /\ rxbufs' = Tail(rxbufs)
         /\ Head(rxbufs) \in DownPacket
         /\ Enqueues(Head(rxbufs)) \/ Asks(Head(rxbufs))
         /\ UNCHANGED <<call, uplink, net, sent, requested, answered>>
<1> DEFINE pkt == Head(rxbufs)
<1>1. /\ rxbufs # << >> /\ rxbufs' = Tail(rxbufs) /\ rxbufs \in Seq(DownPacket)
      /\ UNCHANGED <<call, uplink, net, sent, requested, answered>>
  BY DEF ProcessPacket, PacketsOK, progVars, vmVars
<1>2. pkt \in DownPacket /\ Tail(rxbufs) \in Seq(DownPacket)
  BY <1>1, HeadTailProperties
<1>3. Query \notin Ifs
  BY ClientAssumption
<1> HIDE DEF pkt
<1>4. CASE ListResponse(pkt)
  <2>1. pkt.conn = Query /\ pkt.type = "RSP_LIST" /\ queue' = queue
    BY <1>4 DEF ListResponse, cifVars
  <2>2. pkt.base \in Nat /\ pkt.devices \in Seq(Range(Listed))
    BY <1>2, <2>1, DownFacts
  <2> DEFINE p == [conn |-> Query, type |-> "REQ_LIST",
                   base |-> pkt.base + Len(pkt.devices)]
  <2>3. p \in UpPacket /\ p.type # "DONE"
    <3>1. pkt.base + Len(pkt.devices) \in Nat
      BY <2>2
    <3> QED
      BY <3>1 DEF UpPacket
  <2>4. txbufs' = txbufs \/ txbufs' = Append(txbufs, p)
    BY <1>4 DEF ListResponse, push_packet
  <2> HIDE DEF p
  <2>5. Asks(pkt)
    BY <1>3, <2>1, <2>3, <2>4 DEF Asks
  <2>6. txbufs' \in Seq(UpPacket)
    <3>1. txbufs \in Seq(UpPacket)
      BY DEF PacketsOK
    <3> QED
      BY <2>3, <2>4, <3>1, AppendTyped
  <2>7. PacketsOK'
    BY <1>1, <1>2, <2>1, <2>6 DEF PacketsOK
  <2> QED
    BY <1>1, <1>2, <2>5, <2>7 DEF pkt
<1>5. CASE ConnResponse(pkt)
  <2>1. pkt.conn = Query /\ queue' = queue /\ txbufs' = txbufs
    BY <1>5 DEF ConnResponse, cifVars
  <2>2. Asks(pkt)
    BY <1>3, <2>1 DEF Asks
  <2>3. PacketsOK'
    BY <1>1, <1>2, <2>1 DEF PacketsOK
  <2> QED
    BY <1>1, <1>2, <2>2, <2>3 DEF pkt
<1>6. CASE ForInterface(pkt)
  <2>1. Enqueues(pkt)
    BY <1>6 DEF ForInterface, Enqueues, ListInv
  <2>2. pkt \in RequestOf(pkt.conn)
    BY <1>2, <2>1, DownFacts DEF Enqueues
  <2>3. DOMAIN queue' = Ifs /\ \A i \in Ifs : queue'[i] \in Seq(RequestOf(i))
    <3>1. DOMAIN queue' = Ifs
      BY <2>1 DEF Enqueues, PacketsOK
    <3>2. ASSUME NEW i \in Ifs PROVE queue'[i] \in Seq(RequestOf(i))
      <4>1. CASE i = pkt.conn
        <5>1. queue'[i] = Append(queue[i], pkt)
          BY <2>1, <4>1 DEF Enqueues, PacketsOK
        <5>2. pkt \in RequestOf(i) /\ queue[i] \in Seq(RequestOf(i))
          BY <2>2, <4>1 DEF PacketsOK
        <5> QED
          BY <5>1, <5>2
      <4>2. CASE i # pkt.conn
        BY <2>1, <4>2 DEF Enqueues, PacketsOK
      <4> QED
        BY <4>1, <4>2
    <3> QED
      BY <3>1, <3>2
  <2>4. PacketsOK'
    BY <1>1, <1>2, <2>1, <2>3 DEF PacketsOK, Enqueues
  <2> QED
    BY <1>1, <1>2, <2>1, <2>4 DEF pkt
<1> QED
  BY <1>4, <1>5, <1>6 DEF ProcessPacket, pkt

\* The first packet of the interface's queue leaves it, answered when it wants that.
Answers(pkt) ==
    /\ queue[cif] # << >> /\ pkt = Head(queue[cif])
    /\ queue' = [queue EXCEPT ![cif] = Tail(@)]
    /\ txbufs' = IF WantsAnswer(pkt)
                 THEN Append(txbufs, [conn |-> cif, type |-> "DONE", id |-> pkt.id])
                 ELSE txbufs

\* An interface advances.
LEMMA PacketsAdvance ==
  ASSUME ListInv, PacketsOK, AdvanceIf
  PROVE  /\ PacketsOK' /\ cif \in Ifs
         /\ UNCHANGED <<queue, txbufs>> \/ Answers(Head(queue[cif]))
         /\ UNCHANGED <<call, uplink, rxbufs, net, sent, requested, answered>>
<1>1. UNCHANGED <<call, uplink, rxbufs, net, sent, requested, answered>> /\ cif \in Ifs
  BY DEF AdvanceIf, progVars, vmVars, ListInv
<1>2. UNCHANGED <<queue, txbufs>> \/ Answers(Head(queue[cif]))
  BY DEF AdvanceIf, Answers, Finish, StopAdvancing, Stall, push_packet
<1>3. ASSUME Answers(Head(queue[cif])) PROVE PacketsOK'
  <2> DEFINE pkt == Head(queue[cif])
             p == [conn |-> cif, type |-> "DONE", id |-> pkt.id]
  <2>1. pkt \in RequestOf(cif) /\ Tail(queue[cif]) \in Seq(RequestOf(cif))
    <3>1. queue[cif] \in Seq(RequestOf(cif)) /\ queue[cif] # << >>
      BY <1>1, <1>3 DEF PacketsOK, Answers
    <3> QED
      BY <3>1, HeadTailProperties
  <2> HIDE DEF pkt
  <2>2. p \in UpPacket
    <3>1. pkt.id \in Nat
      BY <2>1 DEF RequestOf
    <3>2. p \in AnswerOf(cif)
      BY <3>1 DEF AnswerOf
    <3> QED
      BY <1>1, <3>2 DEF UpPacket
  <2>3. txbufs' = txbufs \/ txbufs' = Append(txbufs, p)
    BY <1>3 DEF Answers, pkt
  <2> HIDE DEF p
  <2>4. txbufs' \in Seq(UpPacket)
    <3>1. txbufs \in Seq(UpPacket)
      BY DEF PacketsOK
    <3> QED
      BY <2>2, <2>3, <3>1, AppendTyped
  <2>5. DOMAIN queue' = Ifs /\ \A i \in Ifs : queue'[i] \in Seq(RequestOf(i))
    BY <1>1, <1>3, <2>1 DEF Answers, PacketsOK
  <2> QED
    BY <1>1, <2>4, <2>5 DEF PacketsOK
<1> QED
  BY <1>1, <1>2, <1>3 DEF PacketsOK

\* The virtual machine has got an answer, or answers the client.
Accepts(pkt) == /\ pkt.type = "DONE" /\ net' = net
                /\ answered' = [answered EXCEPT ![pkt.conn] = Append(@, pkt.id)]

Replies(pkt) == /\ pkt.type # "DONE" /\ answered' = answered
                /\ \E p \in DownPacket : p.conn = Query /\ net' = Append(net, p)

\* The virtual machine takes a packet.
LEMMA PacketsVmTakes ==
  ASSUME PacketsOK, VmTakes
  PROVE  /\ PacketsOK' /\ uplink # << >> /\ uplink' = Tail(uplink)
         /\ Head(uplink) \in UpPacket
         /\ Accepts(Head(uplink)) \/ Replies(Head(uplink))
         /\ UNCHANGED <<call, txbufs, rxbufs, queue, sent, requested>>
<1> DEFINE pkt == Head(uplink)
<1>1. /\ uplink # << >> /\ uplink' = Tail(uplink) /\ uplink \in Seq(UpPacket)
      /\ UNCHANGED <<call, txbufs, rxbufs, queue, sent, requested>>
      /\ net \in Seq(DownPacket)
  BY DEF VmTakes, PacketsOK, clientSide, progVars, cifVars
<1>2. pkt \in UpPacket /\ Tail(uplink) \in Seq(UpPacket)
  BY <1>1, HeadTailProperties
<1>3. CASE pkt.type = "DONE"
  <2>1. Accepts(pkt)
    BY <1>3 DEF VmTakes, Accepts
  <2>2. pkt.conn \in Ifs /\ pkt.id \in Nat
    BY <1>2, <1>3, UpFacts
  <2>3. answered' \in [Ifs -> Seq(Nat)]
    BY <2>1, <2>2 DEF Accepts, PacketsOK
  <2>4. PacketsOK'
    BY <1>1, <1>2, <2>1, <2>3 DEF PacketsOK, Accepts
  <2> QED
    BY <1>1, <1>2, <2>1, <2>4
<1>4. CASE pkt.type = "REQ_LIST"
  <2>1. pkt.base \in Nat
    BY <1>2, <1>4, UpFacts
  <2>2. PICK last \in pkt.base .. Len(Listed) :
          net' = Append(net, [conn |-> Query, type |-> "RSP_LIST", base |-> pkt.base,
                              devices |-> SubSeq(Listed, pkt.base + 1, last)])
    BY <1>4 DEF VmTakes
  <2> DEFINE page == SubSeq(Listed, pkt.base + 1, last)
             p == [conn |-> Query, type |-> "RSP_LIST", base |-> pkt.base,
                   devices |-> page]
  <2>3. page \in Seq(Range(Listed))
    BY <2>1, <2>2, ClientAssumption
  <2>4. p \in DownPacket /\ p.conn = Query
    BY <2>1, <2>3 DEF DownPacket
  <2>5. answered' = answered /\ net' = Append(net, p)
    BY <1>4, <2>2 DEF VmTakes
  <2> HIDE DEF page, p
  <2>6. Replies(pkt)
    BY <1>4, <2>4, <2>5 DEF Replies
  <2>7. net' \in Seq(DownPacket)
    BY <1>1, <2>4, <2>5, AppendTyped
  <2>8. PacketsOK'
    BY <1>1, <1>2, <2>5, <2>7 DEF PacketsOK
  <2> QED
    BY <1>1, <1>2, <2>6, <2>8
<1>5. CASE pkt.type = "REQ_CONN"
  <2>1. pkt.cif \in Ifs
    BY <1>2, <1>5, UpFacts
  <2>2. PICK accepted \in BOOLEAN :
          net' = Append(net, [conn |-> Query, type |-> "RSP_CONN", cif |-> pkt.cif,
                              accepted |-> accepted])
    BY <1>5 DEF VmTakes
  <2> DEFINE p == [conn |-> Query, type |-> "RSP_CONN", cif |-> pkt.cif,
                   accepted |-> accepted]
  <2>4. p \in DownPacket /\ p.conn = Query
    BY <2>1, <2>2 DEF DownPacket
  <2>5. answered' = answered /\ net' = Append(net, p)
    BY <1>5, <2>2 DEF VmTakes
  <2> HIDE DEF p
  <2>6. Replies(pkt)
    BY <1>5, <2>4, <2>5 DEF Replies
  <2>7. net' \in Seq(DownPacket)
    BY <1>1, <2>4, <2>5, AppendTyped
  <2>8. PacketsOK'
    BY <1>1, <1>2, <2>5, <2>7 DEF PacketsOK
  <2> QED
    BY <1>1, <1>2, <2>6, <2>8
<1> QED
  BY <1>2, <1>3, <1>4, <1>5, UpFacts

\* A request is sent, and remembered when it wants an answer.
Requested(i, p) ==
    /\ p \in RequestOf(i) /\ net' = Append(net, p)
    /\ requested' = IF WantsAnswer(p) THEN [requested EXCEPT ![i] = Append(@, p.id)]
                                      ELSE requested

\* The guest accesses a device.
LEMMA PacketsVmRequests ==
  ASSUME PacketsOK, VmRequests
  PROVE  /\ PacketsOK' /\ call # "ended"
         /\ \E i \in Ifs : \E p : Requested(i, p)
         /\ UNCHANGED <<call, uplink, txbufs, rxbufs, queue, answered>>
<1>1. /\ UNCHANGED <<call, uplink, txbufs, rxbufs, queue, answered>> /\ call # "ended"
      /\ net \in Seq(DownPacket)
  BY DEF VmRequests, clientSide, progVars, cifVars, PacketsOK
<1>2. PICK i \in Ifs : \E r \in Requests[i] :
          /\ sent' = [sent EXCEPT ![i] = @ + 1]
          /\ net' = Append(net, [conn |-> i, type |-> r.type, ack |-> r.ack,
                                 id |-> sent'[i]])
          /\ requested' = IF WantsAnswer(r)
                          THEN [requested EXCEPT ![i] = Append(@, sent'[i])]
                          ELSE requested
  BY DEF VmRequests
<1>3. PICK r \in Requests[i] :
          /\ sent' = [sent EXCEPT ![i] = @ + 1]
          /\ net' = Append(net, [conn |-> i, type |-> r.type, ack |-> r.ack,
                                 id |-> sent'[i]])
          /\ requested' = IF WantsAnswer(r)
                          THEN [requested EXCEPT ![i] = Append(@, sent'[i])]
                          ELSE requested
  BY <1>2
<1> DEFINE p == [conn |-> i, type |-> r.type, ack |-> r.ack, id |-> sent'[i]]
<1>4. r.type \in STRING /\ r.ack \in BOOLEAN
  BY ClientAssumption
<1>5. sent' \in [Ifs -> Nat] /\ sent'[i] \in Nat
  BY <1>3 DEF PacketsOK
<1>6. p \in RequestOf(i) /\ p.id = sent'[i]
  BY <1>4, <1>5 DEF RequestOf
<1>7. WantsAnswer(p) <=> WantsAnswer(r)
  BY DEF WantsAnswer
<1>8. /\ net' = Append(net, p)
      /\ requested' = IF WantsAnswer(p) THEN [requested EXCEPT ![i] = Append(@, p.id)]
                                        ELSE requested
  BY <1>3, <1>6, <1>7
<1> HIDE DEF p
<1>9. requested' \in [Ifs -> Seq(Nat)]
  <2>1. p.id \in Nat
    BY <1>5, <1>6
  <2> QED
    BY <1>8, <2>1 DEF PacketsOK
<1>10. net' \in Seq(DownPacket)
  BY <1>1, <1>6, <1>8, RequestsAreDown, AppendTyped
<1>11. PacketsOK'
  BY <1>1, <1>5, <1>9, <1>10 DEF PacketsOK
<1>12. Requested(i, p)
  BY <1>6, <1>8 DEF Requested
<1> QED
  BY <1>1, <1>11, <1>12

-----------------------------------------------------------------------------
(* The chain.                                                              *)

\* Nothing is asked at first.
LEMMA ChainInit == Init => ChainOK
<1> SUFFICES ASSUME Init PROVE ChainOK
  OBVIOUS
<1>1. ClientRest /\ call # "ended"
  BY DEF Init, ClientInit
<1>2. << >> \o << >> = << >>
  BY ConcatEmptySeq, << >> \in Seq(Nat)
<1>3. ASSUME NEW i \in Ifs PROVE Follows(i, Waiting(i))
  <2>1. /\ uplink = << >> /\ txbufs = << >> /\ rxbufs = << >> /\ net = << >>
        /\ queue[i] = << >> /\ requested[i] = << >> /\ answered[i] = << >>
    BY <1>1 DEF ClientRest
  <2>2. /\ Up(i) = << >> /\ Tx(i) = << >> /\ Qu(i) = << >> /\ Rx(i) = << >>
        /\ Ne(i) = << >>
    BY <2>1, IdsInEmpty DEF Up, Tx, Qu, Rx, Ne
  <2> QED
    BY ONLY <1>2, <2>1, <2>2 DEF Follows, Waiting
<1> QED
  BY <1>1, <1>3 DEF ChainOK

\* A packet that answers nothing changes no answers.
LEMMA PushNoAnswer ==
  ASSUME PacketsOK, NEW p \in UpPacket, p.type # "DONE", txbufs' = Append(txbufs, p),
         NEW i \in Ifs
  PROVE  Tx(i)' = Tx(i)
<1>1. p \notin AnswerOf(i) /\ txbufs \in Seq(UpPacket) /\ HaveIds(AnswerOf(i))
  BY UpFacts, AnswersHaveIds DEF PacketsOK
<1> QED
  BY <1>1, IdsInAppend DEF Tx

\* Steps that leave the whole chain alone.
LEMMA ChainAside ==
  ASSUME ChainOK, call # "ended", call' # "ended",
         UNCHANGED <<requested, answered>>,
         \A i \in Ifs : /\ Up(i)' = Up(i) /\ Tx(i)' = Tx(i) /\ Qu(i)' = Qu(i)
                        /\ Rx(i)' = Rx(i) /\ Ne(i)' = Ne(i)
  PROVE  ChainOK'
<1>1. ASSUME NEW i \in Ifs PROVE Follows(i, Waiting(i))'
  <2>1. Waiting(i)' = Waiting(i)
    BY DEF Waiting
  <2>2. Follows(i, Waiting(i))
    BY DEF ChainOK
  <2> QED
    BY <2>1, <2>2 DEF Follows
<1> QED
  BY <1>1 DEF ChainOK

\* A query is no link of the chain.
LEMMA ChainBegin ==
  ASSUME PacketsOK, ChainOK, BeginList \/ BeginAttach
  PROVE  ChainOK'
<1>1. /\ UNCHANGED <<uplink, rxbufs, net, queue, requested, answered>>
      /\ call # "ended" /\ call' # "ended"
  BY DEF BeginList, BeginAttach, vmVars, cifVars
<1>2. PICK p \in UpPacket : p.type # "DONE" /\ txbufs' = Append(txbufs, p)
  BY PacketsBegin
<1>3. \A i \in Ifs : Tx(i)' = Tx(i)
  BY <1>2, PushNoAnswer
<1>4. \A i \in Ifs : /\ Up(i)' = Up(i) /\ Qu(i)' = Qu(i)
                     /\ Rx(i)' = Rx(i) /\ Ne(i)' = Ne(i)
  BY <1>1 DEF Up, Qu, Rx, Ne
<1> QED
  BY <1>1, <1>3, <1>4, ChainAside

\* What had not been sent is left.
LEMMA ChainClose ==
  ASSUME PacketsOK, ChainOK, Close, call # "ended"
  PROVE  ChainOK'
<1>1. call' = "ended" /\ txbufs' = << >> /\ UNCHANGED <<uplink, requested, answered>>
  BY DEF Close, vmVars
<1>2. ASSUME NEW i \in Ifs PROVE Abandoned(i)'
  <2> DEFINE t == Tx(i)
             w == Waiting(i)
             rest == t \o w
  <2>1. t \in Seq(Nat) /\ w \in Seq(Nat)
    BY SegmentTypes
  <2>2. requested[i] = answered[i] \o (Up(i) \o (t \o w))
    BY DEF ChainOK, Follows
  <2>3. Up(i)' = Up(i) /\ Tx(i)' = << >>
    BY <1>1, IdsInEmpty DEF Up, Tx
  <2> HIDE DEF t, w
  <2>4. rest \in Seq(Nat)
    BY <2>1
  <2>5. requested[i] = answered[i] \o (Up(i) \o rest)
    BY <2>2
  <2> HIDE DEF rest
  <2>6. PICK r \in Seq(Nat) : requested[i] = answered[i] \o (Up(i) \o r)
    BY <2>4, <2>5
  <2>7. << >> \o r = r
    BY ConcatEmptySeq
  <2>8. requested'[i] = answered'[i] \o (Up(i)' \o (Tx(i)' \o r))
    BY ONLY <1>1, <2>3, <2>6, <2>7
  <2> QED
    BY <2>8 DEF Abandoned, Follows
<1> QED
  BY <1>1, <1>2 DEF ChainOK

\* Reading moves packets from the network to what was read.
LEMMA ChainSelect ==
  ASSUME PacketsOK, ChainOK, Select
  PROVE  ChainOK'
<1>1. PICK n \in 0 .. Len(net) : Read(n)
  BY PacketsSelect
<1>2. /\ UNCHANGED <<call, uplink, txbufs, queue, requested, answered>>
      /\ call # "ended"
  BY PacketsSelect DEF Select, Looping
<1>3. ASSUME NEW i \in Ifs PROVE Follows(i, Waiting(i))'
  <2>1. rxbufs \in Seq(DownPacket) /\ net \in Seq(DownPacket) /\ HaveIds(WantOf(i))
    BY AnswersHaveIds DEF PacketsOK
  <2>2. Rx(i)' \o Ne(i)' = Rx(i) \o Ne(i)
    <3>1. Moves(rxbufs, net, n, rxbufs', net')
      BY <1>1 DEF Read, Moves
    <3>2. Redivided(Rx(i), Ne(i), Rx(i)', Ne(i)')
      BY <2>1, <3>1, IdsMoved DEF Rx, Ne
    <3> QED
      BY <3>2 DEF Redivided
  <2>3. Qu(i)' = Qu(i) /\ Up(i)' = Up(i) /\ Tx(i)' = Tx(i)
    BY <1>2 DEF Qu, Up, Tx
  <2>4. Waiting(i)' = Waiting(i)
    BY ONLY <2>2, <2>3 DEF Waiting
  <2>5. Follows(i, Waiting(i))
    BY <1>2 DEF ChainOK
  <2> QED
    BY <1>2, <2>3, <2>4, <2>5 DEF Follows
<1> QED
  BY <1>2, <1>3 DEF ChainOK

\* Sending moves answers from what is to be sent to the network.
LEMMA ChainSend ==
  ASSUME PacketsOK, ChainOK, Send
  PROVE  ChainOK'
<1>1. PICK n \in 0 .. Len(txbufs) : Sends(n)
  BY PacketsSend
<1>2. /\ UNCHANGED <<rxbufs, net, queue, requested, answered>>
      /\ call # "ended" /\ call' # "ended" /\ PacketsOK'
  BY PacketsSend DEF Send, Looping, Return, progVars
<1>3. ASSUME NEW i \in Ifs PROVE Follows(i, Waiting(i))'
  <2> DEFINE u == Up(i)
             t == Tx(i)
             v == Up(i)'
             s == Tx(i)'
             w == Waiting(i)
  <2>1. uplink \in Seq(UpPacket) /\ txbufs \in Seq(UpPacket) /\ HaveIds(AnswerOf(i))
    BY AnswersHaveIds DEF PacketsOK
  <2>2. Redivided(u, t, v, s)
    BY <1>1, <2>1, IdsMoved DEF Sends, Up, Tx
  <2>3. /\ u \in Seq(Nat) /\ t \in Seq(Nat) /\ w \in Seq(Nat)
        /\ v \in Seq(Nat) /\ s \in Seq(Nat)
    <3>1. u \in Seq(Nat) /\ t \in Seq(Nat) /\ w \in Seq(Nat)
      BY SegmentTypes
    <3>2. uplink' \in Seq(UpPacket) /\ txbufs' \in Seq(UpPacket)
      BY <1>2 DEF PacketsOK
    <3>3. v \in Seq(Nat) /\ s \in Seq(Nat)
      BY <2>1, <3>2, IdsInTyped DEF Up, Tx
    <3> QED
      BY <3>1, <3>3
  <2>4. Waiting(i)' = Waiting(i)
    BY <1>2 DEF Waiting, Qu, Rx, Ne
  <2>5. requested[i] = answered[i] \o (u \o (t \o w))
    BY <1>2 DEF ChainOK, Follows
  <2> HIDE DEF u, t, v, s, w
  <2>6. Joined(u, t, w) = Joined(v, s, w)
    BY ONLY <2>2, <2>3, Redivide
  <2>7. requested[i] = answered[i] \o (v \o (s \o w))
    BY ONLY <2>5, <2>6 DEF Joined
  <2> QED
    BY <1>2, <2>4, <2>7 DEF Follows, v, s, w
<1> QED
  BY <1>2, <1>3 DEF ChainOK

\* A request goes from what was read to the queue of its interface.
LEMMA EnqueueMoves ==
  ASSUME ListInv, PacketsOK, ProcessPacket, NEW i \in Ifs
  PROVE  Joined(Qu(i), Rx(i), Ne(i)) = Joined(Qu(i)', Rx(i)', Ne(i)')
<1> DEFINE pkt == Head(rxbufs)
<1>1. /\ rxbufs # << >> /\ rxbufs' = Tail(rxbufs) /\ pkt \in DownPacket
      /\ Enqueues(pkt) \/ Asks(pkt)
      /\ net' = net /\ PacketsOK'
  BY PacketsProcess
<1>2. rxbufs \in Seq(DownPacket) /\ queue[i] \in Seq(RequestOf(i)) /\ HaveIds(WantOf(i))
      /\ DOMAIN queue = Ifs
  BY AnswersHaveIds DEF PacketsOK
<1>3. /\ pkt \in WantOf(i) => Rx(i) = <<pkt.id>> \o Rx(i)'
      /\ pkt \notin WantOf(i) => Rx(i) = Rx(i)'
  BY <1>1, <1>2, IdsInTail DEF Rx
<1>4. Ne(i)' = Ne(i)
  BY <1>1 DEF Ne
<1> HIDE DEF pkt
<1>5. CASE pkt \in WantOf(i)
  <2>1. pkt.conn = i /\ pkt \in RequestOf(i) /\ pkt.id \in Nat
    BY <1>5 DEF WantOf, RequestOf
  <2>2. queue'[i] = Append(queue[i], pkt)
    BY <1>1, <1>2, <2>1 DEF Enqueues, Asks
  <2>3. Qu(i)' = Qu(i) \o <<pkt.id>>
    BY <1>2, <1>5, <2>1, <2>2, IdsInAppend DEF Qu
  <2>4. Handed(Qu(i), Rx(i), Qu(i)', Rx(i)')
    BY ONLY <1>3, <1>5, <2>1, <2>3 DEF Handed
  <2>5. /\ Qu(i) \in Seq(Nat) /\ Rx(i) \in Seq(Nat) /\ Ne(i) \in Seq(Nat)
        /\ Qu(i)' \in Seq(Nat) /\ Rx(i)' \in Seq(Nat)
    <3>1. Qu(i) \in Seq(Nat) /\ Rx(i) \in Seq(Nat) /\ Ne(i) \in Seq(Nat)
      BY SegmentTypes
    <3>2. rxbufs' \in Seq(DownPacket) /\ queue'[i] \in Seq(RequestOf(i))
      BY <1>1 DEF PacketsOK
    <3>3. Qu(i)' \in Seq(Nat) /\ Rx(i)' \in Seq(Nat)
      BY <1>2, <3>2, IdsInTyped DEF Qu, Rx
    <3> QED
      BY <3>1, <3>3
  <2>6. Redivided(Qu(i), Rx(i), Qu(i)', Rx(i)')
    BY ONLY <2>4, <2>5, HandOver
  <2>7. Joined(Qu(i), Rx(i), Ne(i)) = Joined(Qu(i)', Rx(i)', Ne(i))
    BY ONLY <2>5, <2>6, Redivide
  <2> QED
    BY ONLY <1>4, <2>7
<1>6. CASE pkt \notin WantOf(i)
  <2>1. Qu(i)' = Qu(i)
    <3>1. CASE queue'[i] = queue[i]
      BY <3>1 DEF Qu
    <3>2. CASE pkt.conn = i /\ Enqueues(pkt)
      <4>1. pkt \in RequestOf(i)
        BY <1>1, <3>2, DownFacts
      <4>2. queue'[i] = Append(queue[i], pkt)
        BY <1>2, <3>2 DEF Enqueues
      <4>3. IdsIn(Append(queue[i], pkt), WantOf(i)) = IdsIn(queue[i], WantOf(i))
        <5>1. queue[i] \in Seq(RequestOf(i)) /\ pkt \in RequestOf(i)
          BY <1>2, <3>2, <4>1
        <5> QED
          BY <1>2, <1>6, <5>1, IdsInAppend
      <4> QED
        BY ONLY <4>2, <4>3 DEF Qu
    <3> QED
      BY <1>1, <1>2, <3>1, <3>2 DEF Enqueues, Asks
  <2> QED
    BY ONLY <1>3, <1>4, <1>6, <2>1
<1> QED
  BY <1>5, <1>6

\* Processing a packet moves a request to its queue.
LEMMA ChainProcess ==
  ASSUME ListInv, PacketsOK, ChainOK, ProcessPacket
  PROVE  ChainOK'
<1>1. /\ Enqueues(Head(rxbufs)) \/ Asks(Head(rxbufs))
      /\ UNCHANGED <<call, uplink, net, sent, requested, answered>>
      /\ call # "ended"
  BY PacketsProcess DEF ProcessPacket, Looping
<1>2. ASSUME NEW i \in Ifs PROVE Follows(i, Waiting(i))'
  <2>1. Tx(i)' = Tx(i)
    BY <1>1, PushNoAnswer DEF Enqueues, Asks, Tx
  <2>2. Up(i)' = Up(i)
    BY <1>1 DEF Up
  <2>3. Waiting(i)' = Waiting(i)
    BY EnqueueMoves DEF Waiting, Joined
  <2>4. Follows(i, Waiting(i))
    BY <1>1 DEF ChainOK
  <2> QED
    BY <1>1, <2>1, <2>2, <2>3, <2>4 DEF Follows
<1> QED
  BY <1>1, <1>2 DEF ChainOK

\* Finishing a request replaces it by its answer.
LEMMA ChainAdvance ==
  ASSUME ListInv, PacketsOK, ChainOK, AdvanceIf
  PROVE  ChainOK'
<1> DEFINE pkt == Head(queue[cif])
<1>1. /\ cif \in Ifs /\ PacketsOK'
      /\ UNCHANGED <<queue, txbufs>> \/ Answers(pkt)
      /\ UNCHANGED <<call, uplink, rxbufs, net, sent, requested, answered>>
      /\ call # "ended"
  BY PacketsAdvance DEF AdvanceIf, Looping
<1>2. \A i \in Ifs : Up(i)' = Up(i) /\ Rx(i)' = Rx(i) /\ Ne(i)' = Ne(i)
  BY <1>1 DEF Up, Rx, Ne
<1>3. CASE UNCHANGED <<queue, txbufs>>
  <2>1. \A i \in Ifs : Tx(i)' = Tx(i) /\ Qu(i)' = Qu(i)
    BY <1>3 DEF Tx, Qu
  <2> QED
    BY <1>1, <1>2, <2>1, ChainAside
<1>4. CASE Answers(pkt)
  <2>1. /\ queue[cif] \in Seq(RequestOf(cif)) /\ queue[cif] # << >>
        /\ txbufs \in Seq(UpPacket) /\ DOMAIN queue = Ifs
    BY <1>1, <1>4 DEF PacketsOK, Answers
  <2>2. pkt \in RequestOf(cif)
    BY <2>1, HeadTailProperties
  <2>3. queue'[cif] = Tail(queue[cif]) /\ \A i \in Ifs : i # cif => queue'[i] = queue[i]
    BY <1>1, <1>4, <2>1 DEF Answers
  <2> DEFINE answer == [conn |-> cif, type |-> "DONE", id |-> pkt.id]
  <2>4. /\ WantsAnswer(pkt) => txbufs' = Append(txbufs, answer)
        /\ ~ WantsAnswer(pkt) => txbufs' = txbufs
    BY <1>4 DEF Answers
  <2> HIDE DEF pkt
  <2>5. /\ answer \in AnswerOf(cif) /\ answer \in UpPacket /\ answer.id = pkt.id
        /\ \A i \in Ifs : i # cif => answer \notin AnswerOf(i)
    <3>1. pkt.id \in Nat
      BY <2>2 DEF RequestOf
    <3>2. answer \in AnswerOf(cif) /\ answer.id = pkt.id /\ answer.conn = cif
      BY <3>1 DEF AnswerOf
    <3>3. answer \in UpPacket
      BY <1>1, <3>2 DEF UpPacket
    <3> QED
      BY <3>2, <3>3, UpFacts
  <2>6. pkt \in WantOf(cif) <=> WantsAnswer(pkt)
    BY <2>2 DEF WantOf
  <2> HIDE DEF answer
  <2>7. \A i \in Ifs : HaveIds(WantOf(i)) /\ HaveIds(AnswerOf(i))
    BY AnswersHaveIds
  <2>8. ASSUME NEW i \in Ifs, i # cif PROVE Tx(i)' = Tx(i) /\ Qu(i)' = Qu(i)
    <3>1. Qu(i)' = Qu(i)
      BY <2>3, <2>8 DEF Qu
    <3>2. answer \notin AnswerOf(i) /\ HaveIds(AnswerOf(i))
      BY <2>5, <2>7, <2>8
    <3>3. IdsIn(Append(txbufs, answer), AnswerOf(i)) = IdsIn(txbufs, AnswerOf(i))
      BY <2>1, <2>5, <3>2, IdsInAppend
    <3>4. Tx(i)' = Tx(i)
      BY ONLY <2>4, <3>3 DEF Tx
    <3> QED
      BY <3>1, <3>4
  <2>9. CASE ~ WantsAnswer(pkt)
    <3>1. ASSUME NEW i \in Ifs, i = cif PROVE Tx(i)' = Tx(i) /\ Qu(i)' = Qu(i)
      <4>1. Tx(i)' = Tx(i)
        BY <2>4, <2>9 DEF Tx
      <4>2. /\ queue[i] \in Seq(RequestOf(i)) /\ queue[i] # << >> /\ HaveIds(WantOf(i))
            /\ Head(queue[i]) \notin WantOf(i) /\ queue'[i] = Tail(queue[i])
        BY <2>1, <2>3, <2>6, <2>7, <2>9, <3>1 DEF pkt
      <4>3. IdsIn(queue[i], WantOf(i)) = IdsIn(Tail(queue[i]), WantOf(i))
        BY <4>2, IdsInTail
      <4>4. Qu(i)' = Qu(i)
        BY ONLY <4>2, <4>3 DEF Qu
      <4> QED
        BY <4>1, <4>4
    <3>2. \A i \in Ifs : Tx(i)' = Tx(i) /\ Qu(i)' = Qu(i)
      BY <2>8, <3>1
    <3> QED
      BY <1>1, <1>2, <3>2, ChainAside
  <2>10. CASE WantsAnswer(pkt)
    <3>3. pkt.id \in Nat
      BY <2>2 DEF RequestOf
    <3>4. ASSUME NEW i \in Ifs, i = cif PROVE Follows(i, Waiting(i))'
      <4> DEFINE t == Tx(i)
                 q == Qu(i)
                 v == Tx(i)'
                 p == Qu(i)'
                 r == Rx(i) \o Ne(i)
      <4>1. v = t \o <<pkt.id>> /\ q = <<pkt.id>> \o p
        <5>1. /\ txbufs' = Append(txbufs, answer) /\ answer \in AnswerOf(i)
              /\ HaveIds(AnswerOf(i)) /\ HaveIds(WantOf(i))
          BY <2>4, <2>5, <2>7, <2>10, <3>4
        <5>2. /\ queue[i] \in Seq(RequestOf(i)) /\ queue[i] # << >>
              /\ Head(queue[i]) = pkt /\ pkt \in WantOf(i)
              /\ queue'[i] = Tail(queue[i])
          BY <2>1, <2>3, <2>6, <2>10, <3>4 DEF pkt
        <5>3. IdsIn(Append(txbufs, answer), AnswerOf(i))
                = IdsIn(txbufs, AnswerOf(i)) \o <<answer.id>>
          BY <2>1, <2>5, <5>1, IdsInAppend
        <5>4. IdsIn(queue[i], WantOf(i)) = <<pkt.id>> \o IdsIn(Tail(queue[i]), WantOf(i))
          BY <5>1, <5>2, IdsInTail
        <5> QED
          BY ONLY <2>5, <5>1, <5>2, <5>3, <5>4 DEF Tx, Qu
      <4>2. /\ t \in Seq(Nat) /\ q \in Seq(Nat) /\ r \in Seq(Nat)
            /\ v \in Seq(Nat) /\ p \in Seq(Nat)
        <5>1. /\ t \in Seq(Nat) /\ q \in Seq(Nat)
              /\ Rx(i) \in Seq(Nat) /\ Ne(i) \in Seq(Nat)
          BY SegmentTypes
        <5>2. txbufs' \in Seq(UpPacket) /\ queue'[i] \in Seq(RequestOf(i))
          BY <1>1 DEF PacketsOK
        <5>3. v \in Seq(Nat) /\ p \in Seq(Nat)
          BY <2>7, <5>2, IdsInTyped DEF Tx, Qu
        <5> QED
          BY <5>1, <5>3
      <4>3. requested[i] = answered[i] \o (Up(i) \o Joined(t, q, r))
        BY <1>1 DEF ChainOK, Follows, Waiting, Joined
      <4> HIDE DEF t, q, v, p
      <4>4. Handed(t, q, v, p)
        BY ONLY <3>3, <4>1 DEF Handed
      <4> HIDE DEF r
      <4>5. Joined(t, q, r) = Joined(v, p, r)
        BY ONLY <4>2, <4>4, HandOver, Redivide
      <4>6. requested[i] = answered[i] \o (Up(i) \o (v \o (p \o r)))
        BY ONLY <4>3, <4>5 DEF Joined
      <4>7. r = Rx(i)' \o Ne(i)'
        BY <1>2 DEF r
      <4> QED
        BY <1>1, <1>2, <4>6, <4>7 DEF Follows, Waiting, v, p
    <3>5. ASSUME NEW i \in Ifs, i # cif PROVE Follows(i, Waiting(i))'
      <4>1. Waiting(i)' = Waiting(i) /\ Follows(i, Waiting(i))
        BY <1>1, <1>2, <2>8, <3>5 DEF Waiting, ChainOK
      <4> QED
        BY <1>1, <1>2, <2>8, <3>5, <4>1 DEF Follows
    <3> QED
      BY <1>1, <3>4, <3>5 DEF ChainOK
  <2> QED
    BY <2>9, <2>10
<1> QED
  BY <1>1, <1>3, <1>4

\* The virtual machine has got an answer that was on its way.
LEMMA AnswerArrives ==
  ASSUME PacketsOK, VmTakes, NEW i \in Ifs, NEW r \in Seq(Nat)
  PROVE  Joined(answered'[i], Up(i)', r) = Joined(answered[i], Up(i), r)
<1> DEFINE pkt == Head(uplink)
<1>1. /\ uplink # << >> /\ uplink' = Tail(uplink) /\ pkt \in UpPacket
      /\ Accepts(pkt) \/ Replies(pkt)
      /\ PacketsOK'
  BY PacketsVmTakes
<1>2. uplink \in Seq(UpPacket) /\ HaveIds(AnswerOf(i))
  BY AnswersHaveIds DEF PacketsOK
<1>3. /\ pkt \in AnswerOf(i) => Up(i) = <<pkt.id>> \o Up(i)'
      /\ pkt \notin AnswerOf(i) => Up(i) = Up(i)'
  BY <1>1, <1>2, IdsInTail DEF Up
<1>4. /\ answered[i] \in Seq(Nat) /\ answered'[i] \in Seq(Nat)
      /\ Up(i) \in Seq(Nat) /\ Up(i)' \in Seq(Nat)
  <2>1. answered[i] \in Seq(Nat) /\ answered'[i] \in Seq(Nat) /\ uplink' \in Seq(UpPacket)
    BY <1>1 DEF PacketsOK
  <2>2. Up(i) \in Seq(Nat) /\ Up(i)' \in Seq(Nat)
    BY <1>2, <2>1, IdsInTyped DEF Up
  <2> QED
    BY <2>1, <2>2
<1> HIDE DEF pkt
<1>5. pkt \in AnswerOf(i) <=> pkt.type = "DONE" /\ pkt.conn = i
  BY <1>1, UpFacts
<1>6. CASE pkt \in AnswerOf(i)
  <2>1. pkt.id \in Nat /\ Accepts(pkt) /\ pkt.conn = i
    BY <1>1, <1>5, <1>6 DEF AnswerOf, Replies
  <2>2. answered'[i] = Append(answered[i], pkt.id)
    BY <2>1 DEF Accepts, PacketsOK
  <2> DEFINE a == answered[i]
             c == answered'[i]
             b == Up(i)
             d == Up(i)'
  <2>3. c = a \o <<pkt.id>>
    BY <1>4, <2>1, <2>2, AppendIsConcat
  <2>4. b = <<pkt.id>> \o d
    BY <1>3, <1>6
  <2>5. a \in Seq(Nat) /\ b \in Seq(Nat) /\ c \in Seq(Nat) /\ d \in Seq(Nat)
    BY <1>4
  <2> HIDE DEF a, b, c, d
  <2>6. Handed(a, b, c, d)
    BY ONLY <2>1, <2>3, <2>4 DEF Handed
  <2>7. Joined(a, b, r) = Joined(c, d, r)
    BY <2>5, <2>6, HandOver, Redivide
  <2> QED
    BY ONLY <2>7 DEF a, b, c, d
<1>7. CASE pkt \notin AnswerOf(i)
  <2>1. answered'[i] = answered[i]
    <3>1. CASE Accepts(pkt)
      BY <1>5, <1>7, <3>1 DEF Accepts, PacketsOK
    <3>2. CASE Replies(pkt)
      BY <3>2 DEF Replies
    <3> QED
      BY <1>1, <3>1, <3>2
  <2> QED
    BY ONLY <1>3, <1>7, <2>1
<1> QED
  BY <1>6, <1>7

\* An answer taken is one more answered.
LEMMA ChainVmTakes ==
  ASSUME PacketsOK, ChainOK, VmTakes
  PROVE  ChainOK'
<1> DEFINE pkt == Head(uplink)
<1>1. /\ Accepts(pkt) \/ Replies(pkt)
      /\ UNCHANGED <<call, txbufs, rxbufs, queue, sent, requested>>
  BY PacketsVmTakes
<1> HIDE DEF pkt
<1>2. ASSUME NEW i \in Ifs PROVE Tx(i)' = Tx(i) /\ Waiting(i)' = Waiting(i)
  <2>1. Tx(i)' = Tx(i) /\ Qu(i)' = Qu(i) /\ Rx(i)' = Rx(i)
    BY <1>1 DEF Tx, Qu, Rx
  <2>2. Ne(i)' = Ne(i)
    <3>1. CASE net' = net
      BY <3>1 DEF Ne
    <3>2. CASE \E p \in DownPacket : p.conn = Query /\ net' = Append(net, p)
      <4>1. PICK p \in DownPacket : p.conn = Query /\ net' = Append(net, p)
        BY <3>2
      <4>2. p \notin WantOf(i) /\ HaveIds(WantOf(i)) /\ net \in Seq(DownPacket)
        BY <4>1, DownFacts, ClientAssumption, AnswersHaveIds DEF PacketsOK
      <4>3. IdsIn(Append(net, p), WantOf(i)) = IdsIn(net, WantOf(i))
        BY <4>2, IdsInAppend
      <4> QED
        BY ONLY <4>1, <4>3 DEF Ne
    <3> QED
      BY <1>1, <3>1, <3>2 DEF Accepts, Replies
  <2> QED
    BY <2>1, <2>2 DEF Waiting
<1>3. ASSUME NEW i \in Ifs, NEW rest \in Seq(Nat), Follows(i, rest)
      PROVE  requested'[i] = answered'[i] \o (Up(i)' \o (Tx(i)' \o rest))
  <2> DEFINE r == Tx(i) \o rest
  <2>1. r \in Seq(Nat)
    <3>1. Tx(i) \in Seq(Nat)
      BY SegmentTypes
    <3> QED
      BY <3>1, ConcatProperties
  <2>2. Joined(answered'[i], Up(i)', r) = Joined(answered[i], Up(i), r)
    BY <2>1, AnswerArrives
  <2>3. requested[i] = Joined(answered[i], Up(i), r)
    BY <1>3 DEF Follows, Joined
  <2>4. r = Tx(i)' \o rest
    BY <1>2
  <2>5. requested'[i] = Joined(answered'[i], Up(i)', Tx(i)' \o rest)
    BY ONLY <1>1, <2>2, <2>3, <2>4
  <2> QED
    BY ONLY <2>5 DEF Joined
<1>4. CASE call = "ended"
  <2>1. ASSUME NEW i \in Ifs PROVE Abandoned(i)'
    <3>1. PICK rest \in Seq(Nat) : Follows(i, rest)
      BY <1>4 DEF ChainOK, Abandoned
    <3>2. requested'[i] = answered'[i] \o (Up(i)' \o (Tx(i)' \o rest))
      BY <1>3, <3>1
    <3> QED
      BY <3>2 DEF Abandoned, Follows
  <2> QED
    BY <1>1, <1>4, <2>1 DEF ChainOK
<1>5. CASE call # "ended"
  <2>1. ASSUME NEW i \in Ifs PROVE Follows(i, Waiting(i))'
    <3> DEFINE w == Waiting(i)
    <3>1. w \in Seq(Nat) /\ Follows(i, w)
      BY <1>5, SegmentTypes DEF ChainOK
    <3>2. requested'[i] = answered'[i] \o (Up(i)' \o (Tx(i)' \o w))
      BY <1>3, <3>1
    <3> QED
      BY <1>2, <3>2 DEF Follows
  <2> QED
    BY <1>1, <1>5, <2>1 DEF ChainOK
<1> QED
  BY <1>4, <1>5

\* A member more at the very end.
Longer(s, x) == s \o <<x>>

\* The last member of a concatenation is that of its second part.
LEMMA ConcatLonger ==
  \A a, b \in Seq(Nat) : \A x \in Nat : Longer(a \o b, x) = a \o Longer(b, x)
<1> SUFFICES ASSUME NEW a \in Seq(Nat), NEW b \in Seq(Nat), NEW x \in Nat
             PROVE  Longer(a \o b, x) = a \o Longer(b, x)
  OBVIOUS
<1> DEFINE y == <<x>>
<1>1. y \in Seq(Nat)
  OBVIOUS
<1> HIDE DEF y
<1>2. (a \o b) \o y = a \o (b \o y)
  BY <1>1, Regroup
<1> QED
  BY ONLY <1>2 DEF y, Longer

\* The same of three parts.
LEMMA JoinedLonger ==
  \A a, b, c \in Seq(Nat) : \A x \in Nat :
      Longer(Joined(a, b, c), x) = Joined(a, b, Longer(c, x))
<1> SUFFICES ASSUME NEW a \in Seq(Nat), NEW b \in Seq(Nat), NEW c \in Seq(Nat),
                    NEW x \in Nat
             PROVE  Longer(a \o (b \o c), x) = a \o (b \o Longer(c, x))
  BY DEF Joined
<1> DEFINE d == b \o c
<1>1. d \in Seq(Nat)
  BY ConcatProperties
<1>2. Longer(b \o c, x) = b \o Longer(c, x)
  BY ConcatLonger
<1> HIDE DEF d
<1>3. Longer(a \o d, x) = a \o Longer(d, x)
  BY <1>1, ConcatLonger
<1> QED
  BY ONLY <1>2, <1>3 DEF d

\* Three sequences of numbers make one.
LEMMA JoinedTyped ==
  \A a, b, c \in Seq(Nat) : Joined(a, b, c) \in Seq(Nat)
BY ConcatProperties DEF Joined

\* A request that wants an answer is a link at the end.
LEMMA ChainVmRequests ==
  ASSUME PacketsOK, ChainOK, VmRequests
  PROVE  ChainOK'
<1>1. /\ UNCHANGED <<call, uplink, txbufs, rxbufs, queue, answered>> /\ call # "ended"
      /\ PacketsOK'
  BY PacketsVmRequests
<1>2. PICK j \in Ifs : \E p : Requested(j, p)
  BY PacketsVmRequests
<1>3. PICK p : Requested(j, p)
  BY <1>2
<1>4. /\ p \in RequestOf(j) /\ net' = Append(net, p) /\ p \in DownPacket
      /\ p.id \in Nat /\ p.conn = j /\ net \in Seq(DownPacket)
  BY <1>3, RequestsAreDown DEF Requested, RequestOf, PacketsOK
<1>5. ASSUME NEW i \in Ifs PROVE Follows(i, Waiting(i))'
  <2>1. Up(i)' = Up(i) /\ Tx(i)' = Tx(i) /\ Qu(i)' = Qu(i) /\ Rx(i)' = Rx(i)
    BY <1>1 DEF Up, Tx, Qu, Rx
  <2>2. HaveIds(WantOf(i)) /\ Follows(i, Waiting(i))
    BY <1>1, AnswersHaveIds DEF ChainOK
  <2>3. CASE p \notin WantOf(i)
    <3>1. IdsIn(Append(net, p), WantOf(i)) = IdsIn(net, WantOf(i))
      BY <1>4, <2>2, <2>3, IdsInAppend
    <3>2. Ne(i)' = Ne(i)
      BY ONLY <1>4, <3>1 DEF Ne
    <3>3. requested'[i] = requested[i]
      BY <1>3, <2>3 DEF Requested, WantOf, PacketsOK
    <3>4. Waiting(i)' = Waiting(i)
      BY <2>1, <3>2 DEF Waiting
    <3> QED
      BY <1>1, <2>1, <2>2, <3>3, <3>4 DEF Follows
  <2>4. CASE p \in WantOf(i)
    <3>0. i = j /\ WantsAnswer(p)
      BY <1>4, <2>4 DEF WantOf, RequestOf
    <3>1. IdsIn(Append(net, p), WantOf(i)) = IdsIn(net, WantOf(i)) \o <<p.id>>
      BY <1>4, <2>2, <2>4, IdsInAppend
    <3>2. Ne(i)' = Ne(i) \o <<p.id>>
      BY ONLY <1>4, <3>1 DEF Ne
    <3>3. requested'[i] = Append(requested[i], p.id)
      BY <1>3, <3>0 DEF Requested, PacketsOK
    <3> DEFINE t == Tx(i)
               u == Up(i)
               a == answered[i]
               q == Qu(i)
               x == Rx(i)
               n == Ne(i)
               m == Ne(i)'
               v == requested[i]
               w == Waiting(i)
               z == p.id
    <3>4. /\ t \in Seq(Nat) /\ u \in Seq(Nat) /\ a \in Seq(Nat) /\ q \in Seq(Nat)
          /\ x \in Seq(Nat) /\ n \in Seq(Nat) /\ v \in Seq(Nat) /\ w \in Seq(Nat)
          /\ z \in Nat
      BY <1>4, SegmentTypes
    <3>5. requested'[i] = Longer(v, z)
      BY <3>3, <3>4, AppendIsConcat DEF Longer
    <3>6. m = Longer(n, z) /\ w = Joined(q, x, n) /\ Waiting(i)' = Joined(q, x, m)
      BY <2>1, <3>2 DEF Waiting, Joined, Longer
    <3>7. v = a \o Joined(u, t, w)
      BY <2>2 DEF Follows, Joined
    <3> HIDE DEF t, u, a, q, x, n, m, v, w, z
    <3>8. Waiting(i)' = Longer(w, z)
      BY ONLY <3>4, <3>6, JoinedLonger
    <3>9. Longer(Joined(u, t, w), z) = Joined(u, t, Longer(w, z))
      BY ONLY <3>4, JoinedLonger
    <3>10. Longer(v, z) = a \o Longer(Joined(u, t, w), z)
      <4> DEFINE k == Joined(u, t, w)
      <4>1. k \in Seq(Nat) /\ v = a \o k
        BY <3>4, <3>7, JoinedTyped
      <4> HIDE DEF k
      <4>2. Longer(a \o k, z) = a \o Longer(k, z)
        BY ONLY <3>4, <4>1, ConcatLonger
      <4> QED
        BY ONLY <4>1, <4>2 DEF k
    <3>11. requested'[i] = a \o Joined(u, t, Waiting(i)')
      BY ONLY <3>5, <3>8, <3>9, <3>10
    <3>12. requested'[i] = answered'[i] \o (Up(i)' \o (Tx(i)' \o Waiting(i)'))
      BY ONLY <1>1, <2>1, <3>11 DEF t, u, a, Joined
    <3> QED
      BY <3>12 DEF Follows
  <2> QED
    BY <2>3, <2>4
<1> QED
  BY <1>1, <1>5 DEF ChainOK

PacketChain == PacketsOK /\ ChainOK

\* The invariant holds at first, and every step keeps it.
LEMMA PacketChainInit == Init => PacketChain
BY PacketsInit, ChainInit DEF PacketChain

LEMMA PacketChainStep == ListInv /\ PacketChain /\ [Next]_vars => PacketChain'
<1> SUFFICES ASSUME ListInv, PacketsOK, ChainOK, [Next]_vars
             PROVE  PacketsOK' /\ ChainOK'
  BY DEF PacketChain
<1>0. ASSUME call' # "ended" <=> call # "ended",
             UNCHANGED <<uplink, txbufs, rxbufs, net, queue, sent, requested, answered>>
      PROVE  PacketsOK' /\ ChainOK'
  <2>1. PacketsOK'
    BY <1>0 DEF PacketsOK
  <2>2. ASSUME NEW i \in Ifs
        PROVE  /\ Follows(i, Waiting(i))' <=> Follows(i, Waiting(i))
               /\ Abandoned(i)' <=> Abandoned(i)
    BY <1>0 DEF Follows, Waiting, Abandoned, Up, Tx, Qu, Rx, Ne
  <2>3. ChainOK'
    BY <1>0, <2>2 DEF ChainOK
  <2> QED
    BY <2>1, <2>3
<1>1. CASE UNCHANGED clientVars
  BY <1>0, <1>1 DEF clientVars
<1>2. CASE BeginList \/ BeginAttach
  BY <1>2, PacketsBegin, ChainBegin
<1>4. CASE BeginMainloop
  BY <1>0, <1>4 DEF BeginMainloop, cifVars, vmVars
<1>5. CASE Interrupt \/ Done
  BY <1>5, PacketsClose, ChainClose DEF Interrupt, Done
<1>6. CASE Select
  BY <1>6, PacketsSelect, ChainSelect
<1>7. CASE SelectSplit
  BY <1>0, <1>7 DEF SelectSplit, progVars, cifVars, vmVars
<1>8. CASE SelectLost
  BY <1>8, PacketsClose, ChainClose DEF SelectLost, Looping
<1>9. CASE ProcessPacket
  BY <1>9, PacketsProcess, ChainProcess
<1>10. CASE NoMorePackets
  BY <1>0, <1>10 DEF NoMorePackets, progVars, cifVars, vmVars
<1>11. CASE AdvanceIf
  BY <1>11, PacketsAdvance, ChainAdvance
<1>12. CASE Send
  BY <1>12, PacketsSend, ChainSend
<1>13. CASE VmTakes
  BY <1>13, PacketsVmTakes, ChainVmTakes
<1>14. CASE VmRequests
  BY <1>14, PacketsVmRequests, ChainVmRequests
<1>15. CASE VmCloses
  BY <1>0, <1>15 DEF VmCloses, clientSide, progVars, cifVars
<1> QED
  BY <1>1, <1>2, <1>4, <1>5, <1>6, <1>7, <1>8, <1>9, <1>10, <1>11, <1>12,
     <1>13, <1>14, <1>15 DEF Next, ClientNext, ClientStep, vars

\* What begins a concatenation is a prefix of it.
LEMMA PrefixOfConcat ==
  ASSUME NEW a \in Seq(Nat), NEW b \in Seq(Nat)
  PROVE  IsPrefix(a, a \o b)
<1> DEFINE s == a \o b
<1>1. /\ s \in Seq(Nat) /\ Len(s) = Len(a) + Len(b)
      /\ \A k \in 1 .. Len(a) : s[k] = a[k]
  BY ConcatProperties
<1> HIDE DEF s
<1>2. Len(a) \in Nat /\ Len(b) \in Nat
  OBVIOUS
<1>3. Len(a) <= Len(s)
  BY <1>1, <1>2
<1>4. SubSeq(a, 1, Len(a)) = a
  BY SubSeqFull
<1>5. /\ SubSeq(s, 1, Len(a)) \in Seq(Nat) /\ Len(SubSeq(s, 1, Len(a))) = Len(a)
      /\ \A k \in 1 .. Len(a) : SubSeq(s, 1, Len(a))[k] = s[k]
  BY <1>1, <1>2
<1> DEFINE p == SubSeq(s, 1, Len(a))
<1> HIDE DEF p
<1>6. /\ p \in Seq(Nat) /\ Len(p) = Len(a)
      /\ \A k \in 1 .. Len(p) : p[k] = a[k]
  BY <1>1, <1>2, <1>5 DEF p
<1>7. p = a
  BY <1>6, SeqEqual
<1> QED
  BY <1>3, <1>4, <1>7 DEF IsPrefix, p, s

\* What the chain begins with is a prefix of what was asked.
LEMMA ChainIsEnough == PacketChain => AnswersInOrder
<1> SUFFICES ASSUME PacketsOK, ChainOK, NEW i \in Ifs
             PROVE  IsPrefix(answered[i] \o IdsIn(uplink \o txbufs, AnswerOf(i)),
                             requested[i])
  BY DEF PacketChain, AnswersInOrder, IdsIn
<1>1. /\ uplink \in Seq(UpPacket) /\ txbufs \in Seq(UpPacket) /\ HaveIds(AnswerOf(i))
  BY AnswersHaveIds DEF PacketsOK
<1>2. IdsIn(uplink \o txbufs, AnswerOf(i)) = Up(i) \o Tx(i)
  BY <1>1, IdsInConcat DEF Up, Tx
<1>3. PICK rest \in Seq(Nat) : Follows(i, rest)
  BY SegmentTypes DEF ChainOK, Abandoned
<1> DEFINE a == answered[i]
           u == Up(i)
           t == Tx(i)
           k == u \o t
<1>4. a \in Seq(Nat) /\ u \in Seq(Nat) /\ t \in Seq(Nat) /\ requested[i] = a \o (u \o (t \o rest))
  BY <1>3, SegmentTypes DEF Follows
<1> HIDE DEF a, u, t
<1>5. k \in Seq(Nat)
  BY <1>4, ConcatProperties
<1>6. (u \o t) \o rest = u \o (t \o rest)
  BY <1>4, Regroup
<1> HIDE DEF k
<1>7. (a \o k) \o rest = a \o (k \o rest)
  BY <1>4, <1>5, Regroup
<1>8. requested[i] = (a \o k) \o rest
  BY ONLY <1>4, <1>6, <1>7 DEF k
<1> DEFINE f == a \o k
<1>9. f \in Seq(Nat)
  BY <1>4, <1>5, ConcatProperties
<1> HIDE DEF f
<1>10. IsPrefix(f, f \o rest)
  BY <1>9, PrefixOfConcat
<1>11. f = answered[i] \o IdsIn(uplink \o txbufs, AnswerOf(i))
  BY ONLY <1>2 DEF f, a, k, u, t
<1> QED
  BY ONLY <1>8, <1>10, <1>11 DEF f

\* For any programs, interfaces and requests, and however packets arrive and
\* callbacks hold requests up, an interface answers its requests in their
\* order and none twice (advance_if, process_rxq, processfds).
THEOREM AnswersAlwaysInOrder == Spec => []AnswersInOrder
<1>1. Init => ListInv /\ PacketChain
  BY ListInit, PacketChainInit
<1>2. (ListInv /\ PacketChain) /\ [Next]_vars => (ListInv /\ PacketChain)'
  BY ListStep, PacketChainStep
<1> QED
  BY <1>1, <1>2, ChainIsEnough, PTL DEF Spec
=============================================================================
