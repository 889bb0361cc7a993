------------------------- MODULE CatFileBatchProofs -------------------------
(***************************************************************************)
(* The batch of object reads is safe to share, for any clients, revisions  *)
(* and number of faults: nobody gets another request's object, the         *)
(* watchdog kills only for a request that waits, and a closed session has  *)
(* no child.                                                               *)
(*                                                                         *)
(* mutex_ serialises the exchanges (LockInv), so impl_, the child and the  *)
(* watchdog's clock follow the one exchange in progress (ChildInv), and a  *)
(* stream that nobody has given up on holds at most the pieces of the      *)
(* answer the holder is reading (StreamInv).                               *)
(***************************************************************************)
EXTENDS CatFileBatch, SequenceTheorems, TLAPS

Armed   == {"write", "header", "payload", "lf", "disarm"}
Holding == Armed \cup {"discard", "spawn", "arm", "return"}
Piece   == [of : DOMAIN Store, is : {"missing", "ambiguous", "header", "payload", "lf"} \cup Noise]

Types ==
    /\ pc \in [Clients -> Holding \cup {"next", "queued"}]
    /\ asked \in [Clients -> Seq(DOMAIN Store)]
    /\ cancelled \in BOOLEAN /\ impl \in BOOLEAN /\ poisoned \in BOOLEAN
    /\ lock \in Clients \cup {"free"}
    /\ child \in {"none", "up", "hung", "dead", "reaped"}
    /\ request \in DOMAIN Store \cup {"none"}
    /\ out \in Seq(Piece)
    /\ due \in BOOLEAN /\ fired \in BOOLEAN /\ watching \in BOOLEAN
    /\ closer \in {"open", "draining", "closed"}

\* A client between "next" and the return of read() holds mutex_, alone, and still
\* has the revision it asks for.
LockInv ==
    \A c \in Clients :
        /\ pc[c] \in Holding <=> lock = c
        /\ pc[c] # "next" => asked[c] # <<>>

\* There is a child and a watchdog exactly while impl_ is set; the clock runs only
\* for the request that waits; after stop() there is nobody left to start a child.
ChildInv ==
    /\ impl <=> child \in {"up", "hung", "dead"}
    /\ watching = impl
    /\ due => \E c \in Clients : pc[c] \in Armed
    /\ \A c \in Clients :
          /\ pc[c] \in Armed \cup {"arm", "discard"} => impl
          /\ pc[c] = "spawn" => ~impl
    /\ closer = "closed" => Drained /\ ~impl

\* What the holder of mutex_ may find in the pipes, and what it has read of its answer.
Clean == request = "none" /\ out = <<>>
HeaderNext(r) ==
    /\ out = <<>> \/ request = "none"
    /\ request \in {r, "none"}
    /\ out # <<>> => \/ out[1].is = "junk"
                     \/ out[1] = Pieces(r)[1] /\ Len(out) <= Len(Pieces(r))
Settled(r) == object \in {Truth(r)} \cup Failures

ClientStream(c) ==
    LET r == Head(asked[c]) IN
    /\ pc[c] \in {"arm", "write"} => Clean /\ ~poisoned
    /\ pc[c] = "header" => HeaderNext(r) /\ ~poisoned
    /\ pc[c] = "payload" => request = "none" /\ Len(out) <= 2 /\ ~poisoned /\ object = Truth(r)
    /\ pc[c] = "lf" => request = "none" /\ Len(out) <= 1 /\ ~poisoned /\ object = Truth(r)
    /\ pc[c] \in {"disarm", "return"} => Settled(r) /\ (~poisoned => Clean)

StreamInv ==
    /\ lock = "free" /\ ~poisoned => Clean
    /\ ~impl => Clean
    /\ \A c \in Clients : ClientStream(c)

SafeInv  == Types /\ LockInv /\ ChildInv
BatchInv == SafeInv /\ StreamInv

-----------------------------------------------------------------------------
(* The pipes *)

\* What git writes for a revision are pieces of that revision.
LEMMA PiecesType ==
    ASSUME NEW r \in DOMAIN Store
    PROVE  /\ Pieces(r) \in Seq(Piece) /\ Len(Pieces(r)) \in 1..3
           /\ \A n \in 0 .. Len(Pieces(r)) - 1 : SubSeq(Pieces(r), 1, n) \in Seq(Piece)
<1>1. Pieces(r) \in Seq(Piece) /\ Len(Pieces(r)) \in 1..3
  <2>1. CASE Store[r] \in {"missing", "ambiguous"}
    BY <2>1 DEF Pieces, Piece
  <2>2. CASE Store[r] \notin {"missing", "ambiguous"}
    BY <2>2 DEF Pieces, Piece
  <2> QED BY <2>1, <2>2
<1> QED BY <1>1

\* Reading takes the first piece, and the answered revision is taken off the batch.
LEMMA TailType ==
    ASSUME NEW S, NEW s \in Seq(S), s # <<>>
    PROVE  Tail(s) \in Seq(S) /\ Head(s) \in S /\ <<>> \in Seq(S) /\ Head(s) = s[1]
OBVIOUS

\* Reading one piece shortens what is left in the pipe by one.
LEMMA TailLen ==
    ASSUME NEW S, NEW s \in Seq(S), s # <<>>
    PROVE  /\ Head(s) = s[1] /\ Len(s) \in Nat /\ Len(Tail(s)) = Len(s) - 1
           /\ Len(s) <= 1 => Tail(s) = <<>>
<1>1. Len(Tail(s)) = Len(s) - 1 /\ Len(s) \in Nat /\ Tail(s) \in Seq(S) /\ Head(s) = s[1]
  BY TailType
<1>2. Len(Tail(s)) = 0 => Tail(s) = <<>>
  BY <1>1, EmptySeq
<1>3. Len(s) # 0
  BY EmptySeq
<1> QED BY <1>1, <1>2, <1>3

\* A step keeps the types.
LEMMA TypesPreserved == Types /\ LockInv /\ [Next]_vars => Types'
<1> SUFFICES ASSUME Types, LockInv, [Next]_vars PROVE Types'
  OBVIOUS
<1> USE DEF Types, Armed, Holding, childVars, watchVars, callVars
<1>e. <<>> \in Seq(Piece) /\ <<>> \in Seq(DOMAIN Store)
  OBVIOUS
<1>t. out # <<>> => Tail(out) \in Seq(Piece)
  BY TailType
<1>a. \A c \in Clients : asked[c] # <<>> => /\ Tail(asked[c]) \in Seq(DOMAIN Store)
                                           /\ Head(asked[c]) \in DOMAIN Store
  BY TailType
<1>1. ASSUME NEW c \in Clients, Client(c) PROVE Types'
  <2>1. CASE ReadCommits(c)
    <3>1. asked' \in [Clients -> Seq(DOMAIN Store)] BY <1>e, <2>1 DEF ReadCommits
    <3>2. pc' \in [Clients -> Holding \cup {"next", "queued"}] BY <2>1 DEF ReadCommits
    <3> QED BY <2>1, <3>1, <3>2 DEF ReadCommits
  <2>2. CASE Read(c) BY <2>2 DEF Read
  <2>3. CASE Discard(c) BY <1>e, <2>3 DEF Discard, DestroyImpl
  <2>4. CASE Spawn(c)
    <3>1. pc' \in [Clients -> Holding \cup {"next", "queued"}] BY <2>4 DEF Spawn
    <3>2. out' \in Seq(Piece) BY <1>e, <2>4 DEF Spawn
    <3>3. /\ child' \in {"none", "up", "hung", "dead", "reaped"}
          /\ request' \in DOMAIN Store \cup {"none"}
          /\ impl' \in BOOLEAN /\ due' \in BOOLEAN /\ fired' \in BOOLEAN /\ watching' \in BOOLEAN
      BY <2>4 DEF Spawn
    <3>4. poisoned' = FALSE /\ UNCHANGED <<asked, cancelled, lock, closer>> BY <2>4 DEF Spawn
    <3> QED BY <3>1, <3>2, <3>3, <3>4
  <2>5. CASE Arm(c) BY <2>5 DEF Arm
  <2>6. CASE Write(c)
    <3>1. pc' \in [Clients -> Holding \cup {"next", "queued"}] BY <2>6 DEF Write, Poison
    <3>2. poisoned' \in BOOLEAN BY <2>6 DEF Write, Poison
    <3>3. request' \in DOMAIN Store \cup {"none"} BY <1>a, <2>6 DEF Write, Poison, LockInv
    <3>4. UNCHANGED out BY <2>6 DEF Write, Poison
    <3> QED BY <2>6, <3>1, <3>2, <3>3, <3>4 DEF Write
  <2>7. CASE ReadHeader(c)
    <3>1. out' \in Seq(Piece) BY <1>t, <2>7 DEF ReadHeader, Poison, UnexpectedHeader
    <3>2. pc' \in [Clients -> Holding \cup {"next", "queued"}] BY <2>7 DEF ReadHeader, Poison, UnexpectedHeader
    <3>3. poisoned' \in BOOLEAN BY <2>7 DEF ReadHeader, Poison, UnexpectedHeader
    <3>4. request' = request BY <2>7 DEF ReadHeader, Poison, UnexpectedHeader
    <3> QED BY <2>7, <3>1, <3>2, <3>3, <3>4 DEF ReadHeader
  <2>8. CASE ReadPayload(c)
    <3>1. out' \in Seq(Piece) BY <1>t, <2>8 DEF ReadPayload, Poison
    <3>2. pc' \in [Clients -> Holding \cup {"next", "queued"}] BY <2>8 DEF ReadPayload, Poison
    <3>3. poisoned' \in BOOLEAN BY <2>8 DEF ReadPayload, Poison
    <3>4. request' = request BY <2>8 DEF ReadPayload, Poison
    <3> QED BY <2>8, <3>1, <3>2, <3>3, <3>4 DEF ReadPayload
  <2>9. CASE ReadTerminator(c)
    <3>1. out' \in Seq(Piece) BY <1>t, <2>9 DEF ReadTerminator, Poison
    <3>2. pc' \in [Clients -> Holding \cup {"next", "queued"}] BY <2>9 DEF ReadTerminator, Poison
    <3>3. poisoned' \in BOOLEAN BY <2>9 DEF ReadTerminator, Poison
    <3>4. request' = request BY <2>9 DEF ReadTerminator, Poison
    <3> QED BY <2>9, <3>1, <3>2, <3>3, <3>4 DEF ReadTerminator
  <2>10. CASE Disarm(c) BY <2>10 DEF Disarm
  <2>11. CASE Return(c) BY <1>a, <2>11 DEF Return, LockInv
  <2> QED BY <1>1, <2>1, <2>2, <2>3, <2>4, <2>5, <2>6, <2>7, <2>8, <2>9, <2>10, <2>11 DEF Client
<1>2. CASE Watch BY <1>2 DEF Watch, KillChild
<1>3. CASE GitAnswers
  <2>1. request \in DOMAIN Store /\ Pieces(request) \in Seq(Piece)
    BY <1>3, PiecesType DEF GitAnswers
  <2>2. \A n \in Noise : [of |-> request, is |-> n] \in Piece
    BY <2>1 DEF Piece
  <2>3. out \o Pieces(request) \in Seq(Piece)
    BY <2>1
  <2>4. \A n \in Noise : Append(out, [of |-> request, is |-> n]) \o Pieces(request) \in Seq(Piece)
    <3> SUFFICES ASSUME NEW n \in Noise
                 PROVE  Append(out, [of |-> request, is |-> n]) \o Pieces(request) \in Seq(Piece)
      OBVIOUS
    <3>1. Append(out, [of |-> request, is |-> n]) \in Seq(Piece) BY <2>2, AppendProperties
    <3> QED BY <2>1, <3>1, ConcatProperties
  <2>5. out' \in Seq(Piece)
    BY <1>3, <2>3, <2>4 DEF GitAnswers
  <2> QED BY <1>3, <2>5 DEF GitAnswers
<1>4. CASE GitFails
  <2>1. CASE UNCHANGED <<request, out>> BY <1>4, <2>1 DEF GitFails
  <2>2. CASE request # "none"
    <3>1. \A n \in 0 .. Len(Pieces(request)) - 1 : out \o SubSeq(Pieces(request), 1, n) \in Seq(Piece)
      BY <2>2, PiecesType, ConcatProperties
    <3>2. out' \in Seq(Piece) BY <1>4, <2>2, <3>1 DEF GitFails
    <3> QED BY <1>4, <2>2, <3>2 DEF GitFails
  <2> QED BY <1>4, <2>1, <2>2 DEF GitFails
<1>5. CASE Close BY <1>5 DEF Close
<1>6. CASE Stop BY <1>e, <1>6 DEF Stop, DestroyImpl
<1>7. CASE UNCHANGED vars BY <1>7 DEF vars
<1> QED BY <1>1, <1>2, <1>3, <1>4, <1>5, <1>6, <1>7 DEF Next

\* A step keeps mutex_ with its one holder.
LEMMA LockPreserved == SafeInv /\ [Next]_vars => LockInv'
<1> SUFFICES ASSUME SafeInv, [Next]_vars PROVE LockInv'
  OBVIOUS
<1> USE ReaderAssumption DEF SafeInv, LockInv, Types, Armed, Holding, childVars, watchVars, callVars
<1>1. ASSUME NEW c \in Clients, Client(c) PROVE LockInv'
  <2>1. CASE ReadCommits(c) BY <2>1 DEF ReadCommits
  <2>2. CASE Read(c) BY <2>2 DEF Read
  <2>3. CASE Discard(c) BY <2>3 DEF Discard, DestroyImpl
  <2>4. CASE Spawn(c) BY <2>4 DEF Spawn
  <2>5. CASE Arm(c) BY <2>5 DEF Arm
  <2>6. CASE Write(c) BY <2>6 DEF Write, Poison
  <2>7. CASE ReadHeader(c) BY <2>7 DEF ReadHeader, Poison, UnexpectedHeader
  <2>8. CASE ReadPayload(c) BY <2>8 DEF ReadPayload, Poison
  <2>9. CASE ReadTerminator(c) BY <2>9 DEF ReadTerminator, Poison
  <2>10. CASE Disarm(c) BY <2>10 DEF Disarm
  <2>11. CASE Return(c) BY <2>11 DEF Return
  <2> QED BY <1>1, <2>1, <2>2, <2>3, <2>4, <2>5, <2>6, <2>7, <2>8, <2>9, <2>10, <2>11 DEF Client
<1>2. CASE Watch BY <1>2 DEF Watch
<1>3. CASE GitAnswers BY <1>3 DEF GitAnswers
<1>4. CASE GitFails BY <1>4 DEF GitFails
<1>5. CASE Close BY <1>5 DEF Close
<1>6. CASE Stop BY <1>6 DEF Stop
<1>7. CASE UNCHANGED vars BY <1>7 DEF vars
<1> QED BY <1>1, <1>2, <1>3, <1>4, <1>5, <1>6, <1>7 DEF Next

\* A step keeps the child, the watchdog and impl_ together.
LEMMA ChildPreserved == SafeInv /\ [Next]_vars => ChildInv'
<1> SUFFICES ASSUME SafeInv, [Next]_vars PROVE ChildInv'
  OBVIOUS
<1> USE ReaderAssumption
    DEF SafeInv, LockInv, ChildInv, Types, Armed, Holding, Drained, childVars, watchVars, callVars
<1>1. ASSUME NEW c \in Clients, Client(c) PROVE ChildInv'
  <2>1. CASE ReadCommits(c) BY <2>1 DEF ReadCommits
  <2>2. CASE Read(c) BY <2>2 DEF Read
  <2>3. CASE Discard(c) BY <2>3 DEF Discard, DestroyImpl
  <2>4. CASE Spawn(c)
    <3>1. ~due /\ closer # "closed" /\ ~impl /\ lock = c BY <2>4 DEF Spawn
    <3>2. CASE impl' BY <2>4, <3>1, <3>2 DEF Spawn
    <3>3. CASE ~impl'
      <4>1. UNCHANGED <<childVars, due, watching, impl>> BY <2>4, <3>3 DEF Spawn
      <4> QED BY <2>4, <3>1, <4>1 DEF Spawn
    <3> QED BY <3>2, <3>3
  <2>5. CASE Arm(c) BY <2>5 DEF Arm
  <2>6. CASE Write(c) BY <2>6 DEF Write, Poison
  <2>7. CASE ReadHeader(c) BY <2>7 DEF ReadHeader, Poison, UnexpectedHeader
  <2>8. CASE ReadPayload(c) BY <2>8 DEF ReadPayload, Poison
  <2>9. CASE ReadTerminator(c) BY <2>9 DEF ReadTerminator, Poison
  <2>10. CASE Disarm(c) BY <2>10 DEF Disarm
  <2>11. CASE Return(c) BY <2>11 DEF Return
  <2> QED BY <1>1, <2>1, <2>2, <2>3, <2>4, <2>5, <2>6, <2>7, <2>8, <2>9, <2>10, <2>11 DEF Client
<1>2. CASE Watch BY <1>2 DEF Watch, KillChild
<1>3. CASE GitAnswers BY <1>3 DEF GitAnswers
<1>4. CASE GitFails BY <1>4 DEF GitFails
<1>5. CASE Close BY <1>5 DEF Close
<1>6. CASE Stop BY <1>6 DEF Stop, DestroyImpl
<1>7. CASE UNCHANGED vars BY <1>7 DEF vars
<1> QED BY <1>1, <1>2, <1>3, <1>4, <1>5, <1>6, <1>7 DEF Next

\* SafeInv is inductive.
LEMMA SafeInvariant == Spec => []SafeInv
<1>1. Init => SafeInv
  <2> SUFFICES ASSUME Init PROVE SafeInv
    OBVIOUS
  <2>1. <<>> \in Seq(Piece) OBVIOUS
  <2>2. Types BY <2>1, ReaderAssumption DEF Init, Types
  <2> QED BY <2>2, ReaderAssumption DEF Init, SafeInv, LockInv, ChildInv, Armed, Holding
<1>2. SafeInv /\ [Next]_vars => SafeInv'
  BY TypesPreserved, LockPreserved, ChildPreserved DEF SafeInv
<1> QED BY <1>1, <1>2, PTL DEF Spec

\* A closed session has no cat-file child and no watchdog (CatFileBatch::stop), for
\* any clients and faults: a read() after stop() would start a child, but the pool has
\* been drained by then.
THEOREM ClosedHasNoChild == Spec => []StoppedHasNoChild
<1>1. SafeInv => StoppedHasNoChild
  BY DEF SafeInv, ChildInv, Types, StoppedHasNoChild
<1> QED BY <1>1, SafeInvariant, PTL

\* The watchdog kills only the child that a waiting request is talking to
\* (CatFileBatch::Impl::watch, disarm, ~Impl).
THEOREM WatchdogKillsForARequest == Spec => KillsOnlyForARequest
<1>1. SafeInv /\ [Next]_vars =>
         [Watch => child # "reaped" /\ \E c \in Clients :
                       pc[c] \in {"write", "header", "payload", "lf", "disarm"}]_vars
  BY DEF SafeInv, ChildInv, Types, Armed, Watch
<1> QED BY <1>1, SafeInvariant, PTL DEF Spec, KillsOnlyForARequest

-----------------------------------------------------------------------------
(* No request gets another's object *)

\* The first piece of an answer tells how much follows and what the answer will be.
LEMMA FirstPiece ==
    ASSUME NEW r \in DOMAIN Store
    PROVE  /\ Store[r] \in {"missing", "ambiguous"} =>
                 Len(Pieces(r)) = 1 /\ Pieces(r)[1].is = Store[r]
           /\ Store[r] \notin {"missing", "ambiguous"} =>
                 Len(Pieces(r)) = 3 /\ Pieces(r)[1].is = "header"
           /\ Pieces(r)[1].of = r
           /\ Store[r] = "missing" => Truth(r) = <<"NotFound">>
           /\ Store[r] \in {"ambiguous", "blob"} => Truth(r) = <<"InvalidArgument">>
           /\ Store[r] = "huge" => Truth(r) = <<"TooLarge">>
           /\ Store[r] = "commit" => Truth(r) = <<"commit", r>>
<1>1. CASE Store[r] \in {"missing", "ambiguous"} BY <1>1 DEF Pieces, Truth
<1>2. CASE Store[r] \notin {"missing", "ambiguous"} BY <1>2 DEF Pieces, Truth
<1> QED BY <1>1, <1>2

\* What git writes into an empty pipe starts with noise or with the answer's first piece.
LEMMA PipeFills ==
    ASSUME NEW r \in DOMAIN Store
    PROVE  /\ <<>> \o Pieces(r) = Pieces(r)
           /\ \A n \in 0 .. Len(Pieces(r)) - 1 :
                 LET s == <<>> \o SubSeq(Pieces(r), 1, n) IN
                 s # <<>> => s[1] = Pieces(r)[1] /\ Len(s) <= Len(Pieces(r))
           /\ \A n \in Noise :
                 (Append(<<>>, [of |-> r, is |-> n]) \o Pieces(r))[1] = [of |-> r, is |-> n]
<1>1. Pieces(r) \in Seq(Piece) /\ Len(Pieces(r)) \in 1..3 BY PiecesType
<1>2. <<>> \o Pieces(r) = Pieces(r) BY <1>1
<1>3. ASSUME NEW n \in 0 .. Len(Pieces(r)) - 1
      PROVE  LET s == <<>> \o SubSeq(Pieces(r), 1, n) IN
             s # <<>> => s[1] = Pieces(r)[1] /\ Len(s) <= Len(Pieces(r))
  BY <1>1
<1>4. ASSUME NEW n \in Noise
      PROVE  (Append(<<>>, [of |-> r, is |-> n]) \o Pieces(r))[1] = [of |-> r, is |-> n]
  <2>1. [of |-> r, is |-> n] \in Piece BY DEF Piece
  <2> QED BY <1>1, <2>1
<1> QED BY <1>2, <1>3, <1>4

\* A step keeps the stream in step with the exchange.
LEMMA StreamPreserved ==
    ASSUME "warnsAmbiguous" \notin Noise, BatchInv, [Next]_vars
    PROVE  StreamInv'
<1> USE ReaderAssumption
    DEF BatchInv, SafeInv, LockInv, ChildInv, StreamInv, ClientStream, Types, Armed, Holding,
        Clean, childVars, watchVars, callVars
<1>1. ASSUME NEW c \in Clients, Client(c) PROVE StreamInv'
  <2> DEFINE r == Head(asked[c])
  <2>h. asked[c] # <<>> => r \in DOMAIN Store BY TailType
  <2>o. ASSUME pc[c] \in Holding, \A d \in Clients \ {c} : pc'[d] = pc[d], ClientStream(c)',
               lock' = "free" /\ ~poisoned' => Clean', ~impl' => Clean'
        PROVE  StreamInv'
    <3>1. ASSUME NEW d \in Clients, d # c PROVE ClientStream(d)'
      <4>1. pc[d] \notin Holding BY <2>o, <3>1
      <4>2. pc'[d] = pc[d] BY <2>o, <3>1
      <4> QED BY <4>1, <4>2
    <3>2. \A d \in Clients : ClientStream(d)' BY <2>o, <3>1
    <3> QED BY <2>o, <3>2
  <2>1. CASE ReadCommits(c)
    <3>1. ASSUME NEW d \in Clients PROVE ClientStream(d)'
      <4>1. CASE d = c BY <2>1, <4>1 DEF ReadCommits
      <4>2. CASE d # c
        <5>1. pc'[d] = pc[d] /\ asked'[d] = asked[d] BY <2>1, <4>2 DEF ReadCommits
        <5> QED BY <2>1, <5>1 DEF ReadCommits, HeaderNext, Settled
      <4> QED BY <4>1, <4>2
    <3> QED BY <2>1, <3>1 DEF ReadCommits
  <2>2. CASE Read(c) BY <2>2 DEF Read
  <2>3. CASE Discard(c) BY <2>3 DEF Discard, DestroyImpl
  <2>4. CASE Spawn(c)
    <3>1. <<"SpawnFailed">> \in Failures BY DEF Failures
    <3>2. ClientStream(c)'
      <4>1. CASE pc' = [pc EXCEPT ![c] = "arm"] BY <2>4, <4>1 DEF Spawn, Settled
      <4>2. CASE pc' # [pc EXCEPT ![c] = "arm"] BY <2>4, <3>1, <4>2 DEF Spawn, Settled
      <4> QED BY <4>1, <4>2
    <3> QED BY <2>4, <2>o, <3>2 DEF Spawn
  <2>5. CASE Arm(c) BY <2>5 DEF Arm
  <2>6. CASE Write(c)
    <3>1. <<"Io">> \in Failures BY DEF Failures
    <3>2. ClientStream(c)'
      <4>1. CASE child = "dead" BY <2>6, <3>1, <4>1 DEF Write, Poison, HeaderNext, Settled
      <4>2. CASE child # "dead" BY <2>6, <4>2 DEF Write, HeaderNext, Settled
      <4> QED BY <4>1, <4>2
    <3> QED BY <2>6, <2>o, <3>2 DEF Write, Poison
  <2>7. CASE ReadHeader(c)
    <3>1. <<"Io">> \in Failures /\ <<"ParseError">> \in Failures BY DEF Failures
    <3>2. r \in DOMAIN Store BY <2>7, <2>h DEF ReadHeader
    <3>3. out # <<>> => /\ Head(out) = out[1] /\ Len(Tail(out)) = Len(out) - 1
                        /\ Len(out) \in Nat /\ (Len(out) <= 1 => Tail(out) = <<>>)
      BY TailLen
    <3>f. /\ Store[r] \in {"missing", "ambiguous"} =>
                Len(Pieces(r)) = 1 /\ Pieces(r)[1].is = Store[r]
          /\ Store[r] \notin {"missing", "ambiguous"} =>
                Len(Pieces(r)) = 3 /\ Pieces(r)[1].is = "header"
          /\ Pieces(r)[1].of = r
      BY <3>2, FirstPiece
    <3>g. /\ Store[r] = "missing" => Truth(r) = <<"NotFound">>
          /\ Store[r] \in {"ambiguous", "blob"} => Truth(r) = <<"InvalidArgument">>
          /\ Store[r] = "huge" => Truth(r) = <<"TooLarge">>
          /\ Store[r] = "commit" => Truth(r) = <<"commit", r>>
      BY <3>2, FirstPiece
    <3>s. Store[r] \in {"commit", "blob", "missing", "ambiguous", "huge"}
      BY <3>2
    <3>4. ClientStream(c)'
      <4>1. CASE out = <<>> /\ child = "dead" BY <2>7, <3>1, <4>1 DEF ReadHeader, Poison, Settled
      <4>2. CASE out # <<>> /\ Head(out).is \in {"missing", "ambiguous", "warnsAmbiguous"}
        <5>1. out[1] = Pieces(r)[1] /\ Len(out) <= Len(Pieces(r)) /\ request = "none"
          BY <2>7, <3>3, <4>2 DEF ReadHeader, HeaderNext
        <5>2. Len(out) <= 1 /\ Store[r] = Head(out).is
          <6>1. Head(out) = Pieces(r)[1] BY <3>3, <4>2, <5>1
          <6>2. Store[r] \in {"missing", "ambiguous"} BY <3>f, <4>2, <6>1
          <6>3. Len(Pieces(r)) = 1 /\ Pieces(r)[1].is = Store[r] BY ONLY <3>f, <6>2
          <6>4. Len(out) <= 1 BY ONLY <5>1, <6>3, Zenon
          <6> QED BY ONLY <6>1, <6>3, <6>4
        <5>3. object' = Truth(r)
          BY <2>7, <3>g, <3>s, <4>2, <5>2 DEF ReadHeader
        <5>4. Clean'
          BY <2>7, <3>3, <4>2, <5>1, <5>2 DEF ReadHeader
        <5> QED BY <2>7, <4>2, <5>3, <5>4 DEF ReadHeader, Settled
      <4>3. CASE out # <<>> /\ Head(out).is = "header"
        <5>1. out[1] = Pieces(r)[1] /\ Len(out) <= Len(Pieces(r)) /\ request = "none"
          BY <2>7, <3>3, <4>3 DEF ReadHeader, HeaderNext
        <5>2. Len(out) <= 3 /\ Head(out).of = r /\ Store[r] \in {"commit", "blob", "huge"}
          BY ONLY <3>3, <3>f, <3>s, <4>3, <5>1
        <5>3. object' = Truth(r)
          BY <2>7, <3>g, <4>3, <5>2 DEF ReadHeader
        <5>4. Len(out') <= 2
          BY <2>7, <3>3, <4>3, <5>2 DEF ReadHeader
        <5> QED BY <2>7, <4>3, <5>1, <5>3, <5>4 DEF ReadHeader
      <4>4. CASE out # <<>> /\ Head(out).is \in {"payload", "lf", "junk"}
        BY <2>7, <3>1, <4>4 DEF ReadHeader, UnexpectedHeader, Settled
      <4> QED BY <2>7, <4>1, <4>2, <4>3, <4>4 DEF ReadHeader
    <3> QED BY <2>7, <2>o, <3>4 DEF ReadHeader, Poison, UnexpectedHeader
  <2>8. CASE ReadPayload(c)
    <3>1. <<"Io">> \in Failures BY DEF Failures
    <3>2. out # <<>> => Len(Tail(out)) = Len(out) - 1 /\ Len(out) \in Nat BY TailLen
    <3>3. ClientStream(c)'
      <4>1. CASE out = <<>> /\ child = "dead"
        <5>1. object' \in {Truth(r)} \cup Failures
          BY <2>8, <3>1, <4>1 DEF ReadPayload, Poison
        <5> QED BY <2>8, <4>1, <5>1 DEF ReadPayload, Poison, Settled
      <4>2. CASE out # <<>>
        <5>1. Len(out') <= 1 /\ UNCHANGED <<object, poisoned, request>> /\ pc'[c] = "lf"
          BY <2>8, <3>2, <4>2 DEF ReadPayload, Poison
        <5> QED BY <2>8, <5>1 DEF ReadPayload
      <4> QED BY <2>8, <4>1, <4>2 DEF ReadPayload
    <3> QED BY <2>8, <2>o, <3>3 DEF ReadPayload, Poison
  <2>9. CASE ReadTerminator(c)
    <3>1. <<"ParseError">> \in Failures BY DEF Failures
    <3>2. out # <<>> /\ Len(out) <= 1 => Tail(out) = <<>> BY TailLen
    <3>3. ClientStream(c)' BY <2>9, <3>1, <3>2 DEF ReadTerminator, Poison, Settled
    <3> QED BY <2>9, <2>o, <3>3 DEF ReadTerminator, Poison
  <2>10. CASE Disarm(c)
    <3>1. <<"Timeout">> \in Failures BY DEF Failures
    <3>2. ClientStream(c)' BY <2>10, <3>1 DEF Disarm, Settled
    <3> QED BY <2>10, <2>o, <3>2 DEF Disarm
  <2>11. CASE Return(c) BY <2>11 DEF Return
  <2> QED BY <1>1, <2>1, <2>2, <2>3, <2>4, <2>5, <2>6, <2>7, <2>8, <2>9, <2>10, <2>11 DEF Client
<1>2. CASE Watch BY <1>2 DEF Watch, HeaderNext, Settled
<1>3. CASE GitAnswers
  <2>1. ASSUME NEW c \in Clients PROVE ClientStream(c)'
    <3>1. CASE pc[c] = "header"
      <4> DEFINE r == Head(asked[c])
      <4>1. request = r /\ out = <<>> /\ r \in DOMAIN Store /\ ~poisoned
        BY <1>3, <3>1 DEF GitAnswers, HeaderNext
      <4>2. \/ out' = <<>> \o Pieces(r)
            \/ \E n \in Noise : out' = Append(<<>>, [of |-> r, is |-> n]) \o Pieces(r)
        BY <1>3, <4>1 DEF GitAnswers
      <4>3. CASE out' = <<>> \o Pieces(r)
        <5>1. out' = Pieces(r) BY <4>1, <4>3, PipeFills
        <5>2. HeaderNext(r)' BY <1>3, <3>1, <4>1, <5>1, PiecesType DEF GitAnswers, HeaderNext
        <5> QED BY <1>3, <3>1, <4>1, <5>2 DEF GitAnswers
      <4>4. CASE \E n \in Noise : out' = Append(<<>>, [of |-> r, is |-> n]) \o Pieces(r)
        <5>0. PICK n \in Noise : out' = Append(<<>>, [of |-> r, is |-> n]) \o Pieces(r) BY <4>4
        <5>1. out'[1].is = "junk"
          <6>1. out'[1] = [of |-> r, is |-> n] BY <4>1, <5>0, PipeFills
          <6>2. n = "junk" BY ReaderAssumption
          <6> QED BY ONLY <6>1, <6>2
        <5>2. HeaderNext(r)' BY <1>3, <3>1, <4>1, <5>1 DEF GitAnswers, HeaderNext
        <5> QED BY <1>3, <3>1, <4>1, <5>2 DEF GitAnswers
      <4> QED BY <4>2, <4>3, <4>4
    <3>2. CASE pc[c] # "header" BY <1>3, <3>2 DEF GitAnswers, Settled
    <3> QED BY <3>1, <3>2
  <2> QED BY <1>3, <2>1 DEF GitAnswers
<1>4. CASE GitFails
  <2>1. ASSUME NEW c \in Clients PROVE ClientStream(c)'
    <3>1. CASE pc[c] = "header" /\ request # "none" /\ request' = "none"
      <4> DEFINE r == Head(asked[c])
      <4>1. request = r /\ out = <<>> /\ r \in DOMAIN Store /\ ~poisoned
        BY <1>4, <3>1 DEF GitFails, HeaderNext
      <4>2. PICK n \in 0 .. Len(Pieces(r)) - 1 : out' = <<>> \o SubSeq(Pieces(r), 1, n)
        BY <1>4, <3>1, <4>1 DEF GitFails
      <4>3. HeaderNext(r)' BY <1>4, <3>1, <4>1, <4>2, PipeFills DEF GitFails, HeaderNext
      <4> QED BY <1>4, <3>1, <4>1, <4>3 DEF GitFails
    <3>2. CASE UNCHANGED <<request, out>> BY <1>4, <3>2 DEF GitFails, HeaderNext, Settled
    <3>3. CASE pc[c] # "header" BY <1>4, <3>3 DEF GitFails, Settled
    <3> QED BY <1>4, <3>1, <3>2, <3>3 DEF GitFails
  <2> QED BY <1>4, <2>1 DEF GitFails
<1>5. CASE Close BY <1>5 DEF Close, HeaderNext, Settled
<1>6. CASE Stop BY <1>6 DEF Stop, DestroyImpl
<1>7. CASE UNCHANGED vars BY <1>7 DEF vars, HeaderNext, Settled
<1> QED BY <1>1, <1>2, <1>3, <1>4, <1>5, <1>6, <1>7 DEF Next

\* BatchInv is inductive, where stderr cannot put a line that reads as an answer of git
\* into the stream.
LEMMA BatchInvariant ==
    ASSUME "warnsAmbiguous" \notin Noise
    PROVE  Spec => []BatchInv
<1>1. Init => StreamInv
  BY DEF Init, StreamInv, ClientStream, Clean
<1>2. BatchInv /\ [Next]_vars => StreamInv'
  BY StreamPreserved
<1> QED BY <1>1, <1>2, SafeInvariant, PTL DEF Spec, BatchInv

\* CatFileBatch implements ObjectReader step by step: however clients, watchdog and child
\* interleave, whatever child died, hung or was replaced, a request is answered with its
\* own object, its own refusal or a failure (CatFileBatch::read, exchangeLocked).  The
\* hypothesis says that no line of stderr that shares the pipe reads as one of git's
\* answers; on POSIX stderr is a pipe of its own.
THEOREM BatchImplementsReader ==
    ASSUME "warnsAmbiguous" \notin Noise
    PROVE  Spec => Reader!Safety
<1>1. Init => Reader!Init
  BY DEF Init, Reader!Init
<1>2. BatchInv /\ [Next]_vars => [Reader!Next]_(Reader!vars)
  <2> SUFFICES ASSUME BatchInv, [Next]_vars PROVE [Reader!Next]_(Reader!vars)
    OBVIOUS
  <2> USE DEF Reader!Next, Reader!vars, callVars
  <2>1. ASSUME NEW c \in Clients, Client(c) PROVE [Reader!Next]_(Reader!vars)
    <3>1. CASE ReadCommits(c) BY <3>1 DEF ReadCommits, Reader!GiveUp
    <3>2. CASE Return(c)
      <4>1. asked[c] # <<>> /\ Settled(Head(asked[c]))
        BY <3>2 DEF Return, BatchInv, SafeInv, LockInv, StreamInv, ClientStream
      <4>2. Reader!Answer(c) BY <3>2, <4>1 DEF Return, Settled, Reader!Answer
      <4> QED BY <4>2
    <3>3. CASE UNCHANGED <<asked, answers, cancelled>> BY <3>3
    <3> QED BY <2>1, <3>1, <3>2, <3>3
            DEF Client, Read, Discard, Spawn, Arm, Write, ReadHeader, ReadPayload, ReadTerminator,
                Disarm
  <2>2. CASE Close BY <2>2 DEF Close, Reader!Cancel, BatchInv, SafeInv, Types
  <2>3. CASE UNCHANGED <<asked, answers, cancelled>> BY <2>3
  <2> QED BY <2>1, <2>2, <2>3 DEF Next, Watch, GitAnswers, GitFails, Stop, vars
<1> QED BY <1>1, <1>2, BatchInvariant, PTL DEF Spec, Reader!Safety
=============================================================================
