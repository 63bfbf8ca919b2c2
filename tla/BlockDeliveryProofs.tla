------------------------ MODULE BlockDeliveryProofs ------------------------
(***************************************************************************)
(* Proofs about BlockDelivery for every set of blocks, every bound on the  *)
(* blocks of one request and any number of connections.                    *)
(***************************************************************************)
EXTENDS BlockDelivery, TLAPS

(***************************************************************************)
(* What every connection shows is a beginning of Truth: of the recorded    *)
(* answer once there is one, and of the confirmed blocks before.           *)
(***************************************************************************)
Truth == IF response.kind = "answer" THEN response.blocks ELSE stored

\* The row keeps what it confirmed when it is settled.
RowInv ==
    /\ state = "free" => stored = <<>> /\ gen = "none"
    /\ state # "settled" => response = NoResponse
    /\ state = "settled" => response \in OwnerResponse \cup {Interrupted} /\ Keeps(response, stored)

\* The journal and an acknowledged publication lag behind the row, and an
\* answer the task returns has been recorded.
JobInv ==
    /\ pub.tx = "committed" => Extends(stored, pub.blocks)
    /\ Extends(stored, journal)
    /\ gen \in {"saving", "done"} => result \in OwnerResponse
    /\ gen = "done" /\ result.kind = "answer" => response = result

(***************************************************************************)
(* One connection k: what it sent, what it has read and what it holds to   *)
(* be the result.  A result that is not the recorded one is the error of a *)
(* task whose save was not acknowledged.                                   *)
(***************************************************************************)
SentInv(k) ==
    /\ Len(k.sent) <= Len(Truth)
    /\ \A i \in 1..Len(k.sent) : k.sent[i] = <<i, Truth[i]>>
    /\ k.cursor <= Len(k.sent)

ReadInv(k) ==
    /\ k.pc \in {"off", "following", "asking"} => k.read = <<>>
    /\ k.read # <<>> =>
           /\ Extends(stored, k.read[1])
           /\ k.pc = "ending" /\ k.resolved = response => k.read[1] = stored

ResolvedInv(k) ==
    /\ state = "free" => k.pc = "off"
    /\ k.pc = "off" => k.resolved = NoResponse
    /\ k.pc \in {"ending", "rendering"} => k.resolved # NoResponse
    /\ \/ k.resolved \in {NoResponse, response}
       \/ k.resolved = Failed /\ gen \in {"done", "lost"}

EndInv(k) ==
    /\ k.pc = "rendering" /\ k.resolved = response => Len(stored) <= Len(k.sent)
    /\ k.end = "done" => /\ k.pc = "over" /\ response.kind = "answer"
                         /\ Len(k.sent) = Len(response.blocks)

ConnInv(k) == SentInv(k) /\ ReadInv(k) /\ ResolvedInv(k) /\ EndInv(k)

IInv == TypeOK /\ RowInv /\ JobInv /\ \A c \in Conn : ConnInv(conn[c])

-----------------------------------------------------------------------------
(* Lemmas about sequences of blocks and responses.                         *)

\* A sequence of blocks is a sequence of at most MaxBlocks of them.
LEMMA BlockSeqIsSeq ==
    ASSUME NEW bs \in BlockSeq
    PROVE  /\ bs \in Seq(Block) /\ Len(bs) \in 0..MaxBlocks
           /\ DOMAIN bs = 1..Len(bs)
           /\ \A i \in 1..Len(bs) : bs[i] \in Block
<1>1. PICK n \in 0..MaxBlocks : bs \in [1..n -> Block]
    BY DEF BlockSeq
<1>2. n \in Nat /\ bs \in Seq(Block)
    BY <1>1, MaxBlocksAssumption
<1>3. Len(bs) = n
    BY <1>1, <1>2
<1> QED BY <1>1, <1>2, <1>3

\* Nothing confirmed yet is a legal content.
LEMMA EmptyIsBlockSeq == <<>> \in BlockSeq /\ Len(<<>>) = 0
<1>1. <<>> \in [1..0 -> Block]
    OBVIOUS
<1>2. 0 \in 0..MaxBlocks
    BY MaxBlocksAssumption
<1> QED BY <1>1, <1>2 DEF BlockSeq

\* The parts of a response.
LEMMA ResponseParts ==
    ASSUME NEW r \in Response
    PROVE  /\ r.blocks \in BlockSeq
           /\ r.kind = "answer" => r \in OwnerResponse /\ r = Answer(r.blocks)
BY EmptyIsBlockSeq DEF Response, OwnerResponse, Answer, Failed, Interrupted, NoResponse

\* The four kinds of response are told apart.
LEMMA Kinds ==
    /\ Failed # NoResponse /\ Failed # Interrupted /\ Interrupted # NoResponse
    /\ NoResponse \notin OwnerResponse /\ Interrupted \notin OwnerResponse
    /\ Failed \in OwnerResponse
    /\ Failed.kind # "answer" /\ Interrupted.kind # "answer" /\ NoResponse.kind # "answer"
BY DEF Failed, NoResponse, Interrupted, OwnerResponse, Answer

\* Extends is a partial order on sequences of blocks.
LEMMA ExtendsItself == ASSUME NEW bs \in BlockSeq PROVE Extends(bs, bs) /\ Extends(bs, <<>>)
BY BlockSeqIsSeq, EmptyIsBlockSeq DEF Extends

LEMMA ExtendsTrans ==
    ASSUME NEW a \in BlockSeq, NEW b \in BlockSeq, NEW d \in BlockSeq,
           Extends(a, b), Extends(b, d)
    PROVE  Extends(a, d)
<1>1. Len(a) \in Nat /\ Len(b) \in Nat /\ Len(d) \in Nat
    BY BlockSeqIsSeq
<1> QED BY <1>1 DEF Extends

\* What is true extends what was confirmed.
LEMMA TruthExtendsStored ==
    ASSUME TypeOK, RowInv
    PROVE  Truth \in BlockSeq /\ Extends(Truth, stored)
<1>1. CASE response.kind = "answer"
    <2>1. state = "settled"
        BY <1>1, Kinds DEF RowInv, TypeOK
    <2> QED BY <1>1, <2>1, ResponseParts DEF RowInv, Truth, Keeps, TypeOK
<1>2. CASE response.kind # "answer"
    BY <1>2, ExtendsItself DEF Truth, TypeOK
<1> QED BY <1>1, <1>2

\* The parts of a connection.
LEMMA ConnectionParts ==
    ASSUME TypeOK, NEW c \in Conn
    PROVE  /\ conn[c] \in Connection
           /\ Len(conn[c].sent) \in Nat
           /\ conn[c].read # <<>> => conn[c].read[1] \in BlockSeq /\ conn[c].read = <<conn[c].read[1]>>
BY DEF TypeOK, Connection

-----------------------------------------------------------------------------
(* The store and the job move: what that leaves to the connections.        *)

(***************************************************************************)
(* Blocks and truth only grow, a recorded response is final, and a job     *)
(* that is over writes no response of its own any more.                    *)
(***************************************************************************)
Grows ==
    /\ stored' \in BlockSeq /\ Extends(stored', stored)
    /\ Truth' \in BlockSeq /\ Extends(Truth', Truth)
    /\ state' = "free" => state = "free"
    /\ response # NoResponse => response' = response /\ stored' = stored
    /\ gen \in {"done", "lost"} /\ state # "free" =>
           /\ gen' \in {"done", "lost"}
           /\ response' \in {response, Interrupted}

\* A connection is as good after such a move as before.
LEMMA GrowthKeeps ==
    ASSUME TypeOK, RowInv, Grows, NEW k \in Connection, ConnInv(k)
    PROVE  ConnInv(k)'
<1>0. /\ Len(k.sent) \in Nat
      /\ k.read # <<>> => k.read[1] \in BlockSeq
    BY DEF Connection
<1>1. Truth \in BlockSeq /\ Truth' \in BlockSeq /\ stored \in BlockSeq /\ stored' \in BlockSeq
    BY TruthExtendsStored DEF Grows, TypeOK
<1>2. SentInv(k)'
    <2>1. Len(Truth) \in Nat /\ Len(Truth') \in Nat
        BY <1>1, BlockSeqIsSeq
    <2> QED BY <1>0, <2>1 DEF ConnInv, SentInv, Grows, Extends
<1>3. ReadInv(k)'
    <2>1. k.read # <<>> => Extends(stored', k.read[1])
        BY <1>0, <1>1, ExtendsTrans DEF ConnInv, ReadInv, Grows
    <2>2. k.pc = "ending" /\ k.resolved = response' => k.resolved = response /\ stored' = stored
        BY Kinds DEF ConnInv, ResolvedInv, Grows
    <2> QED BY <2>1, <2>2 DEF ConnInv, ReadInv
<1>4. ResolvedInv(k)'
    BY DEF ConnInv, ResolvedInv, Grows
<1>5. EndInv(k)'
    <2>1. k.pc = "rendering" /\ k.resolved = response' => k.resolved = response /\ stored' = stored
        BY Kinds DEF ConnInv, ResolvedInv, Grows
    <2>2. response.kind = "answer" => response' = response
        BY Kinds DEF Grows
    <2> QED BY <2>1, <2>2 DEF ConnInv, EndInv
<1> QED BY <1>2, <1>3, <1>4, <1>5 DEF ConnInv

-----------------------------------------------------------------------------
(* The steps of the store and the job.                                     *)

StoreMoves == TypeOK' /\ RowInv' /\ JobInv' /\ Grows

\* A step that leaves the row and the fate of the job alone lets nothing grow.
LEMMA NothingGrows ==
    ASSUME IInv, UNCHANGED <<stored, response>>, state' = state,
           gen \in {"done", "lost"} => gen' \in {"done", "lost"}
    PROVE  Grows
<1>1. Truth' = Truth
    BY DEF Truth
<1>2. Truth \in BlockSeq /\ stored \in BlockSeq
    BY TruthExtendsStored DEF IInv, TypeOK
<1> QED BY <1>1, <1>2, ExtendsItself DEF Grows, store

LEMMA ClaimMoves == ASSUME IInv, Claim PROVE StoreMoves
<1>1. Grows
    BY TruthExtendsStored, ExtendsItself DEF IInv, RowInv, TypeOK, Claim, Grows, Truth
<1> QED BY <1>1 DEF IInv, TypeOK, RowInv, JobInv, Claim, StoreMoves

LEMMA PublishMoves == ASSUME IInv, NEW bs \in BlockSeq, Publish(bs) PROVE StoreMoves
<1>1. Grows
    BY NothingGrows DEF Publish, store
<1> QED BY <1>1 DEF IInv, TypeOK, RowInv, JobInv, Publish, store, StoreMoves

\* The row of a pending claim grows from what was confirmed to what is published.
LEMMA CommitMoves == ASSUME IInv, PublicationCommits PROVE StoreMoves
<1>0. pub.blocks \in BlockSeq /\ stored \in BlockSeq /\ journal \in BlockSeq
    BY DEF IInv, TypeOK
<1>1. response = NoResponse /\ state = "pending"
    BY DEF IInv, RowInv, PublicationCommits
<1>2. Truth = stored /\ Truth' = stored'
    BY <1>1, Kinds DEF Truth, PublicationCommits
<1>3. Grows
    BY <1>0, <1>1, <1>2 DEF Grows, PublicationCommits
<1>4. Extends(pub.blocks, pub.blocks) /\ Extends(stored', journal)
    BY <1>0, ExtendsItself, ExtendsTrans DEF IInv, JobInv, PublicationCommits
<1>5. TypeOK'
    BY <1>0 DEF IInv, TypeOK, PublicationCommits
<1>6. RowInv' /\ JobInv'
    BY <1>0, <1>1, <1>4 DEF IInv, TypeOK, RowInv, JobInv, PublicationCommits
<1> QED BY <1>3, <1>5, <1>6 DEF StoreMoves

LEMMA FailMoves == ASSUME IInv, PublicationFails PROVE StoreMoves
<1>1. Grows
    BY NothingGrows DEF PublicationFails, store
<1> QED BY <1>1 DEF IInv, TypeOK, RowInv, JobInv, PublicationFails, store, StoreMoves

LEMMA AcknowledgeMoves == ASSUME IInv, PublicationAcknowledged PROVE StoreMoves
<1>1. Grows
    BY NothingGrows DEF PublicationAcknowledged, store, IInv, TypeOK
<1>2. NoPub \in [tx : {"none", "queued", "committed", "failed"}, blocks : BlockSeq]
      /\ NoPub.tx = "none"
    BY EmptyIsBlockSeq DEF NoPub
<1> QED BY <1>1, <1>2
        DEF IInv, TypeOK, RowInv, JobInv, PublicationAcknowledged, store, StoreMoves

LEMMA AbandonMoves == ASSUME IInv, PublicationAbandoned PROVE StoreMoves
<1>1. Grows
    BY NothingGrows DEF PublicationAbandoned, store
<1>2. NoPub \in [tx : {"none", "queued", "committed", "failed"}, blocks : BlockSeq]
      /\ NoPub.tx = "none" /\ Failed \in Response /\ Failed \in OwnerResponse
    BY EmptyIsBlockSeq, Kinds DEF NoPub, Response
<1> QED BY <1>1, <1>2
        DEF IInv, TypeOK, RowInv, JobInv, PublicationAbandoned, store, StoreMoves

LEMMA EndMoves == ASSUME IInv, NEW end \in OwnerResponse, GenerationEnds(end) PROVE StoreMoves
<1>1. Grows
    BY NothingGrows DEF GenerationEnds, store
<1>2. end \in Response
    BY DEF Response
<1> QED BY <1>1, <1>2
        DEF IInv, TypeOK, RowInv, JobInv, GenerationEnds, store, StoreMoves

\* A row that was never settled is settled with the result of its job.
LEMMA SaveMoves == ASSUME IInv, SaveCommits PROVE StoreMoves
<1>0. /\ result \in OwnerResponse /\ result \in Response /\ stored \in BlockSeq
      /\ response = NoResponse /\ state = "pending" /\ gen = "saving"
      /\ Failed \in OwnerResponse /\ Failed \in Response
    BY Kinds DEF IInv, TypeOK, RowInv, JobInv, SaveCommits, Response
<1>1. TypeOK'
    BY <1>0 DEF IInv, TypeOK, SaveCommits
<1>2. RowInv'
    BY <1>0 DEF RowInv, SaveCommits
<1>3. JobInv'
    BY <1>0, Kinds DEF IInv, JobInv, SaveCommits
<1>4. Truth = stored
    BY <1>0, Kinds DEF Truth
<1>5. Truth' \in BlockSeq /\ Extends(Truth', Truth)
    BY <1>0, <1>4, ResponseParts, ExtendsItself DEF Truth, SaveCommits, Keeps
<1>6. Grows
    BY <1>0, <1>5, ExtendsItself DEF Grows, SaveCommits
<1> QED BY <1>1, <1>2, <1>3, <1>6 DEF StoreMoves

LEMMA NoSaveMoves == ASSUME IInv, SaveFails PROVE StoreMoves
<1>1. Grows
    BY NothingGrows DEF SaveFails, store
<1>2. Failed \in Response /\ Failed \in OwnerResponse
    BY Kinds DEF Response
<1> QED BY <1>1, <1>2, Kinds DEF IInv, TypeOK, RowInv, JobInv, SaveFails, store, StoreMoves

\* A row that was never settled is settled with the interruption.
LEMMA LossMoves == ASSUME IInv, LeaseLost PROVE StoreMoves
<1>0. /\ response = NoResponse /\ state = "pending" /\ stored \in BlockSeq
      /\ Interrupted \in Response
    BY DEF IInv, TypeOK, RowInv, LeaseLost, Response
<1>1. TypeOK'
    BY <1>0 DEF IInv, TypeOK, LeaseLost, job
<1>2. RowInv'
    BY <1>0, Kinds DEF RowInv, LeaseLost, job, Keeps
<1>3. JobInv'
    BY <1>0, Kinds DEF IInv, JobInv, LeaseLost, job
<1>4. Truth = stored /\ Truth' = stored
    BY <1>0, Kinds DEF Truth, LeaseLost
<1>5. Grows
    BY <1>0, <1>4, ExtendsItself DEF Grows, LeaseLost, job
<1> QED BY <1>1, <1>2, <1>3, <1>5 DEF StoreMoves

\* The process takes its journal with it.
LEMMA CrashMoves == ASSUME IInv, Crash PROVE StoreMoves
<1>1. Grows
    BY NothingGrows DEF Crash, store
<1>2. \A c \in Conn : conn'[c] \in Connection
    BY DEF IInv, TypeOK, Crash, Connection
<1>3. conn' \in [Conn -> Connection]
    BY <1>2 DEF Crash
<1>4. <<>> \in BlockSeq /\ NoResponse \in Response /\ Extends(stored, <<>>)
    BY EmptyIsBlockSeq, ExtendsItself DEF Response, IInv, TypeOK
<1> QED BY <1>1, <1>3, <1>4, Kinds DEF IInv, TypeOK, RowInv, JobInv, Crash, store, StoreMoves

-----------------------------------------------------------------------------
(* The steps of a connection.                                              *)

ConnMoves(c) ==
    /\ UNCHANGED <<store, job>>
    /\ \E k \in Connection : ConnInv(k) /\ Set(c, k)

\* A connection was sent the first blocks of the truth and lacks the rest.
LEMMA UnsentAreNext ==
    ASSUME IInv, NEW c \in Conn, NEW bs \in BlockSeq
    PROVE  Unsent(c, bs) = {i \in 1..Len(bs) : i > Len(conn[c].sent)}
<1>1. Len(conn[c].sent) \in Nat /\ DOMAIN conn[c].sent = 1..Len(conn[c].sent)
    BY ConnectionParts DEF IInv, Connection
<1>2. \A i \in DOMAIN conn[c].sent : conn[c].sent[i][1] = i
    BY <1>1 DEF IInv, ConnInv, SentInv
<1>3. {conn[c].sent[i][1] : i \in DOMAIN conn[c].sent} = 1..Len(conn[c].sent)
    BY <1>1, <1>2
<1>4. DOMAIN bs = 1..Len(bs) /\ Len(bs) \in Nat
    BY BlockSeqIsSeq
<1> QED BY <1>1, <1>3, <1>4 DEF Unsent

\* The connection after one more block of the truth, in its place.
More(c, n) ==
    [conn[c] EXCEPT !.cursor = n,
                    !.sent = Append(@, <<Len(conn[c].sent) + 1, Truth[Len(conn[c].sent) + 1]>>)]

LEMMA AppendKeeps ==
    ASSUME IInv, NEW c \in Conn, state # "free", Len(conn[c].sent) < Len(Truth),
           conn[c].pc # "over",
           NEW n \in 0..MaxBlocks, n <= Len(conn[c].sent) + 1
    PROVE  More(c, n) \in Connection /\ ConnInv(More(c, n))
<1> DEFINE len == Len(conn[c].sent)
           k == More(c, n)
           p == <<len + 1, Truth[len + 1]>>
<1>0. /\ conn[c] \in Connection /\ len \in Nat /\ ConnInv(conn[c])
      /\ conn[c].sent \in Seq(Packet)
    BY ConnectionParts DEF IInv, Connection
<1>1. Truth \in BlockSeq
    BY TruthExtendsStored DEF IInv
<1>2. len + 1 \in 1..Len(Truth) /\ len + 1 \in 1..MaxBlocks /\ Truth[len + 1] \in Block
    BY <1>0, <1>1, BlockSeqIsSeq, MaxBlocksAssumption
<1>3. p \in Packet
    BY <1>2 DEF Packet
<1>4. /\ k.sent = Append(conn[c].sent, p) /\ k.cursor = n
      /\ k.pc = conn[c].pc /\ k.read = conn[c].read /\ k.hasJob = conn[c].hasJob
      /\ k.resolved = conn[c].resolved /\ k.end = conn[c].end
    BY <1>0 DEF Connection, More
<1>5. /\ k.sent \in Seq(Packet) /\ Len(k.sent) = len + 1
      /\ \A i \in 1..len : k.sent[i] = conn[c].sent[i]
      /\ k.sent[len + 1] = p
    BY <1>0, <1>3, <1>4
<1>6. k \in Connection
    BY <1>0, <1>5 DEF Connection, More
<1> HIDE DEF k
<1>7. SentInv(k)
    BY <1>0, <1>1, <1>2, <1>4, <1>5, BlockSeqIsSeq DEF ConnInv, SentInv
<1>8. ReadInv(k) /\ ResolvedInv(k)
    BY <1>0, <1>4 DEF ConnInv, ReadInv, ResolvedInv
<1>9. EndInv(k)
    <2>1. stored \in BlockSeq /\ Len(stored) \in Nat
        BY BlockSeqIsSeq DEF IInv, TypeOK
    <2> QED BY <1>0, <1>4, <1>5, <2>1 DEF ConnInv, EndInv
<1> QED BY <1>6, <1>7, <1>8, <1>9 DEF ConnInv, k

\* Sending the first block that is lacking of a beginning of the truth.
LEMMA SendNextKeeps ==
    ASSUME IInv, NEW c \in Conn, state # "free", conn[c].pc # "over",
           NEW bs \in BlockSeq, Extends(Truth, bs), SendNext(c, bs)
    PROVE  \E k \in Connection : ConnInv(k) /\ Set(c, k)
<1> DEFINE len == Len(conn[c].sent)
<1>0. /\ conn[c] \in Connection /\ len \in Nat /\ conn[c].cursor \in 0..MaxBlocks
      /\ conn[c].cursor <= len
      /\ Truth \in BlockSeq /\ Len(Truth) \in Nat /\ Len(bs) \in Nat
    BY ConnectionParts, TruthExtendsStored, BlockSeqIsSeq DEF IInv, Connection, ConnInv, SentInv
<1>1. PICK i \in Unsent(c, bs) :
        /\ \A j \in Unsent(c, bs) : i <= j
        /\ Set(c, [conn[c] EXCEPT !.sent = Append(@, <<i, bs[i]>>)])
    BY DEF SendNext
<1>2. i = len + 1 /\ i <= Len(bs)
    <2>1. Unsent(c, bs) = {j \in 1..Len(bs) : j > len}
        BY UnsentAreNext
    <2>2. i \in 1..Len(bs) /\ i > len
        BY <1>1, <2>1
    <2>3. len + 1 \in Unsent(c, bs)
        BY <1>0, <2>1, <2>2
    <2> QED BY <1>0, <1>1, <2>2, <2>3
<1>3. bs[i] = Truth[len + 1] /\ len < Len(Truth)
    BY <1>0, <1>2 DEF Extends
<1>4. More(c, conn[c].cursor) = [conn[c] EXCEPT !.sent = Append(@, <<i, bs[i]>>)]
    BY <1>0, <1>2, <1>3 DEF Connection, More
<1>5. More(c, conn[c].cursor) \in Connection /\ ConnInv(More(c, conn[c].cursor))
    BY <1>0, <1>3, AppendKeeps
<1> QED BY <1>1, <1>4, <1>5

\* What the lemmas about the steps of a connection use of the invariant.
LEMMA ConnectionFacts ==
    ASSUME IInv, NEW c \in Conn
    PROVE  /\ conn[c] \in Connection /\ ConnInv(conn[c])
           /\ conn[c].pc # "off" => state # "free"
           /\ stored \in BlockSeq /\ response \in Response
           /\ Extends(Truth, stored) /\ Truth \in BlockSeq
           /\ response.kind = "answer" => Truth = response.blocks
BY TruthExtendsStored DEF IInv, TypeOK, ConnInv, ResolvedInv, Truth

LEMMA OpenMoves == ASSUME IInv, NEW c \in Conn, Open(c) PROVE ConnMoves(c)
<1>1. PICK found \in BOOLEAN :
        Set(c, [conn[c] EXCEPT !.pc = "opening", !.resolved = response, !.hasJob = found])
    BY DEF Open
<1> DEFINE k == [conn[c] EXCEPT !.pc = "opening", !.resolved = response, !.hasJob = found]
<1>2. /\ k \in Connection /\ k.pc = "opening" /\ k.resolved = response
      /\ k.sent = conn[c].sent /\ k.cursor = conn[c].cursor /\ k.read = conn[c].read
      /\ k.end = conn[c].end
    BY ConnectionFacts DEF Connection
<1>3. state # "free" /\ conn[c].pc = "off"
    BY DEF Open
<1> HIDE DEF k
<1>4. ConnInv(k)
    BY <1>2, <1>3, ConnectionFacts DEF ConnInv, SentInv, ReadInv, ResolvedInv, EndInv
<1> QED BY <1>1, <1>2, <1>4 DEF Open, ConnMoves, k

LEMMA ReadMoves == ASSUME IInv, NEW c \in Conn, ReadStored(c) PROVE ConnMoves(c)
<1> DEFINE k == [conn[c] EXCEPT !.read = <<stored>>]
<1>1. <<stored>> \in {<<bs>> : bs \in BlockSeq} /\ <<stored>>[1] = stored
    BY ConnectionFacts
<1>2. /\ k \in Connection /\ k.pc = conn[c].pc /\ k.resolved = conn[c].resolved
      /\ k.sent = conn[c].sent /\ k.cursor = conn[c].cursor /\ k.read = <<stored>>
      /\ k.end = conn[c].end
    BY <1>1, ConnectionFacts DEF Connection
<1>3. Extends(stored, stored) /\ conn[c].pc \in {"opening", "polling", "ending"}
    BY ConnectionFacts, ExtendsItself DEF ReadStored
<1> HIDE DEF k
<1>4. ConnInv(k)
    BY <1>1, <1>2, <1>3, ConnectionFacts DEF ConnInv, SentInv, ReadInv, ResolvedInv, EndInv
<1> QED BY <1>2, <1>4 DEF ReadStored, ConnMoves, k

\* The stream is over, with an error or without a word.
LEMMA OverKeeps ==
    ASSUME IInv, NEW c \in Conn, conn[c].pc # "off", NEW end \in {conn[c].end, "error"},
           conn[c].pc # "over"
    PROVE  /\ [conn[c] EXCEPT !.pc = "over", !.end = end] \in Connection
           /\ ConnInv([conn[c] EXCEPT !.pc = "over", !.end = end])
<1> DEFINE k == [conn[c] EXCEPT !.pc = "over", !.end = end]
<1>1. /\ k \in Connection /\ k.pc = "over" /\ k.resolved = conn[c].resolved
      /\ k.sent = conn[c].sent /\ k.cursor = conn[c].cursor /\ k.read = conn[c].read
      /\ k.end = end
    BY ConnectionFacts DEF Connection
<1> HIDE DEF k
<1>2. ConnInv(k)
    BY <1>1, ConnectionFacts DEF ConnInv, SentInv, ReadInv, ResolvedInv, EndInv
<1> QED BY <1>1, <1>2 DEF k

LEMMA FailedReadMoves == ASSUME IInv, NEW c \in Conn, ReadFails(c) PROVE ConnMoves(c)
BY OverKeeps DEF ReadFails, ConnMoves

LEMMA PollingEndMoves == ASSUME IInv, NEW c \in Conn, PollingEnds(c) PROVE ConnMoves(c)
BY OverKeeps DEF PollingEnds, ConnMoves

LEMMA DisconnectMoves == ASSUME IInv, NEW c \in Conn, Disconnect(c) PROVE ConnMoves(c)
<1>1. [conn[c] EXCEPT !.pc = "over"] = [conn[c] EXCEPT !.pc = "over", !.end = conn[c].end]
    BY ConnectionFacts DEF Connection
<1> QED BY <1>1, OverKeeps DEF Disconnect, ConnMoves

LEMMA SendStoredMoves == ASSUME IInv, NEW c \in Conn, SendStored(c) PROVE ConnMoves(c)
<1>1. conn[c].read[1] \in BlockSeq /\ conn[c].read # <<>> /\ conn[c].pc # "over"
    BY ConnectionParts DEF SendStored, IInv
<1>2. Extends(Truth, conn[c].read[1])
    BY <1>1, ConnectionFacts, ExtendsTrans DEF ConnInv, ReadInv
<1>3. state # "free"
    BY <1>1, ConnectionFacts DEF ConnInv, ReadInv
<1> QED BY <1>1, <1>2, <1>3, SendNextKeeps DEF SendStored, ConnMoves

\* When the last read of the store is sent, all that was confirmed is sent.
LEMMA StoredSentMoves == ASSUME IInv, NEW c \in Conn, StoredSent(c) PROVE ConnMoves(c)
<1> DEFINE next == CASE conn[c].pc = "polling" -> "asking"
                     [] conn[c].pc = "ending" -> "rendering"
                     [] conn[c].resolved # NoResponse -> "ending"
                     [] conn[c].hasJob -> "following"
                     [] OTHER -> "polling"
           k == [conn[c] EXCEPT !.read = <<>>, !.pc = next]
           len == Len(conn[c].sent)
<1>0. /\ conn[c].read[1] \in BlockSeq /\ conn[c].read # <<>> /\ conn[c].pc # "over"
      /\ len \in Nat /\ Len(conn[c].read[1]) \in Nat
    BY ConnectionParts, BlockSeqIsSeq DEF StoredSent, IInv
<1>1. Len(conn[c].read[1]) <= len
    <2>1. Unsent(c, conn[c].read[1]) = {i \in 1..Len(conn[c].read[1]) : i > len}
        BY <1>0, UnsentAreNext
    <2>2. Unsent(c, conn[c].read[1]) = {}
        BY DEF StoredSent
    <2>3. Len(conn[c].read[1]) > len => Len(conn[c].read[1]) \in 1..Len(conn[c].read[1])
        BY <1>0
    <2> QED BY <1>0, <2>1, <2>2, <2>3
<1>2. /\ next \in {"asking", "rendering", "ending", "following", "polling"}
      /\ next = "rendering" => conn[c].pc = "ending"
      /\ next = "ending" => conn[c].resolved # NoResponse
    <2>1. CASE conn[c].pc = "polling"
        BY <2>1
    <2>2. CASE conn[c].pc = "ending"
        BY <2>2
    <2>3. CASE conn[c].pc \notin {"polling", "ending"}
        BY <2>3
    <2> QED BY <2>1, <2>2, <2>3
<1>3. Set(c, k)
    BY DEF StoredSent
<1> HIDE DEF next
<1>4. /\ k \in Connection /\ k.pc = next /\ k.resolved = conn[c].resolved
      /\ k.sent = conn[c].sent /\ k.cursor = conn[c].cursor /\ k.read = <<>>
      /\ k.end = conn[c].end
    BY <1>2, ConnectionFacts DEF Connection
<1> HIDE DEF k
<1>5. conn[c].pc # "off" /\ state # "free"
    BY <1>0, ConnectionFacts DEF ConnInv, ReadInv
<1>6. SentInv(k) /\ ReadInv(k)
    BY <1>4, ConnectionFacts DEF ConnInv, SentInv, ReadInv
<1>7. ResolvedInv(k)
    BY <1>2, <1>4, <1>5, ConnectionFacts DEF ConnInv, ResolvedInv
<1>8. EndInv(k)
    <2>1. k.pc = "rendering" /\ k.resolved = response => Len(stored) <= Len(k.sent)
        BY <1>0, <1>1, <1>2, <1>4, ConnectionFacts DEF ConnInv, ReadInv
    <2>2. k.end # "done"
        BY <1>0, <1>4, ConnectionFacts DEF ConnInv, EndInv
    <2> QED BY <2>1, <2>2 DEF EndInv
<1>9. ConnInv(k)
    BY <1>6, <1>7, <1>8 DEF ConnInv
<1> QED BY <1>3, <1>4, <1>9 DEF StoredSent, ConnMoves

\* An event of the journal is a confirmed block; the cursor never runs ahead.
LEMMA JournalMoves == ASSUME IInv, NEW c \in Conn, SendJournal(c) PROVE ConnMoves(c)
<1> DEFINE len == Len(conn[c].sent)
           n == conn[c].cursor + 1
<1>0. /\ journal \in BlockSeq /\ Len(journal) \in Nat /\ Len(journal) <= MaxBlocks
      /\ Extends(stored, journal) /\ len \in Nat
      /\ conn[c].cursor \in 0..MaxBlocks /\ conn[c].cursor <= len
      /\ conn[c].cursor < Len(journal) /\ state # "free"
      /\ MaxBlocks \in Nat
    BY ConnectionFacts, ConnectionParts, BlockSeqIsSeq, MaxBlocksAssumption
    DEF IInv, TypeOK, JobInv, SendJournal, Connection, ConnInv, SentInv
<1>1. Extends(Truth, journal)
    BY <1>0, ConnectionFacts, ExtendsTrans
<1>2. Len(Truth) \in Nat /\ n <= Len(Truth) /\ Truth[n] = journal[n] /\ n \in 0..MaxBlocks
    BY <1>0, <1>1, ConnectionFacts, BlockSeqIsSeq DEF Extends
<1>3. \A i \in 1..len : conn[c].sent[i] = <<i, Truth[i]>>
    BY ConnectionFacts DEF ConnInv, SentInv
<1>4. DOMAIN conn[c].sent = 1..len
    BY <1>0, ConnectionFacts DEF Connection
<1>5. CASE n <= len
    <2> DEFINE k == [conn[c] EXCEPT !.cursor = n]
    <2>1. \E j \in DOMAIN conn[c].sent : conn[c].sent[j][1] = n
        <3>1. n \in 1..len /\ n \in DOMAIN conn[c].sent
            BY <1>0, <1>4, <1>5
        <3>2. conn[c].sent[n] = <<n, Truth[n]>>
            BY <1>3, <3>1
        <3>3. conn[c].sent[n][1] = n
            BY <3>2
        <3> QED BY <3>1, <3>3
    <2>2. Set(c, [conn[c] EXCEPT !.cursor = n, !.sent = conn[c].sent])
        BY <2>1 DEF SendJournal
    <2>3. [conn[c] EXCEPT !.cursor = n, !.sent = conn[c].sent] = k
        BY ConnectionFacts DEF Connection
    <2>4. /\ k \in Connection /\ k.pc = conn[c].pc /\ k.resolved = conn[c].resolved
          /\ k.sent = conn[c].sent /\ k.cursor = n /\ k.read = conn[c].read
          /\ k.end = conn[c].end
        BY <1>2, ConnectionFacts DEF Connection
    <2> HIDE DEF k
    <2>5. ConnInv(k)
        BY <1>5, <2>4, ConnectionFacts DEF ConnInv, SentInv, ReadInv, ResolvedInv, EndInv
    <2> QED BY <2>2, <2>3, <2>4, <2>5 DEF SendJournal, ConnMoves
<1>6. CASE n > len
    <2>1. n = len + 1
        BY <1>0, <1>6
    <2>2. ~ \E j \in DOMAIN conn[c].sent : conn[c].sent[j][1] = n
        BY <1>0, <1>3, <1>4, <1>6
    <2>3. Set(c, [conn[c] EXCEPT !.cursor = n, !.sent = Append(@, <<n, journal[n]>>)])
        BY <2>2 DEF SendJournal
    <2>4. [conn[c] EXCEPT !.cursor = n, !.sent = Append(@, <<n, journal[n]>>)] = More(c, n)
        BY <1>2, <2>1 DEF More
    <2>5. conn[c].pc # "over" /\ len < Len(Truth) /\ n <= len + 1
        BY <1>0, <1>2, <2>1 DEF SendJournal
    <2>6. More(c, n) \in Connection /\ ConnInv(More(c, n))
        BY <1>0, <1>2, <2>5, AppendKeeps
    <2> QED BY <2>3, <2>4, <2>6 DEF SendJournal, ConnMoves
<1> QED BY <1>0, <1>5, <1>6

LEMMA ResolvedMoves == ASSUME IInv, NEW c \in Conn, JobResolved(c) PROVE ConnMoves(c)
<1> DEFINE k == [conn[c] EXCEPT !.pc = "ending", !.resolved = result]
<1>1. /\ gen = "done" /\ result \in OwnerResponse /\ result \in Response
      /\ result.kind = "answer" => response = result
      /\ conn[c].pc = "following" /\ state # "free" /\ conn[c].end # "done"
    BY ConnectionFacts DEF IInv, TypeOK, JobInv, JobResolved, ConnInv, ResolvedInv, EndInv
<1>2. result \in {response, Failed} /\ result # NoResponse
    BY <1>1, Kinds DEF OwnerResponse, Answer
<1>3. /\ k \in Connection /\ k.pc = "ending" /\ k.resolved = result
      /\ k.sent = conn[c].sent /\ k.cursor = conn[c].cursor /\ k.read = conn[c].read
      /\ k.end = conn[c].end
    BY <1>1, ConnectionFacts DEF Connection
<1> HIDE DEF k
<1>4. ConnInv(k)
    BY <1>1, <1>2, <1>3, ConnectionFacts DEF ConnInv, SentInv, ReadInv, ResolvedInv, EndInv
<1> QED BY <1>3, <1>4 DEF JobResolved, ConnMoves, k

LEMMA AskMoves == ASSUME IInv, NEW c \in Conn, AskResult(c) PROVE ConnMoves(c)
<1> DEFINE pc == IF state = "settled" THEN "ending" ELSE "polling"
           k == [conn[c] EXCEPT !.pc = pc, !.resolved = response]
<1>1. /\ conn[c].pc = "asking" /\ state # "free" /\ conn[c].end # "done"
      /\ state = "settled" => response # NoResponse
    BY ConnectionFacts, Kinds DEF AskResult, IInv, RowInv, ConnInv, ResolvedInv, EndInv
<1>2. /\ k \in Connection /\ k.pc = pc /\ k.resolved = response
      /\ k.sent = conn[c].sent /\ k.cursor = conn[c].cursor /\ k.read = conn[c].read
      /\ k.end = conn[c].end
    BY ConnectionFacts DEF Connection
<1> HIDE DEF k
<1>3. ConnInv(k)
    BY <1>1, <1>2, ConnectionFacts DEF ConnInv, SentInv, ReadInv, ResolvedInv, EndInv
<1> QED BY <1>2, <1>3 DEF AskResult, ConnMoves, k

\* The result a connection renders an answer from is the recorded one.
LEMMA RenderedIsRecorded ==
    ASSUME IInv, NEW c \in Conn, conn[c].resolved.kind = "answer"
    PROVE  /\ response = conn[c].resolved /\ Truth = response.blocks
           /\ Truth \in BlockSeq /\ state # "free"
<1>1. conn[c].resolved = response
    BY ConnectionFacts, Kinds DEF ConnInv, ResolvedInv
<1>2. response.kind = "answer" /\ response # NoResponse
    BY <1>1, Kinds
<1> QED BY <1>1, <1>2, ConnectionFacts DEF IInv, RowInv

LEMMA RenderBlockMoves == ASSUME IInv, NEW c \in Conn, RenderBlock(c) PROVE ConnMoves(c)
<1>1. /\ conn[c].resolved.blocks = Truth /\ Truth \in BlockSeq /\ state # "free"
      /\ conn[c].pc # "over"
    BY RenderedIsRecorded DEF RenderBlock
<1>2. SendNext(c, Truth)
    BY <1>1 DEF RenderBlock
<1>3. Extends(Truth, Truth)
    BY <1>1, ExtendsItself
<1>4. \E k \in Connection : ConnInv(k) /\ Set(c, k)
    BY <1>1, <1>2, <1>3, SendNextKeeps
<1> QED BY <1>4 DEF RenderBlock, ConnMoves

\* "done" is sent when nothing of the recorded answer is lacking.
LEMMA RenderMoves == ASSUME IInv, NEW c \in Conn, Render(c) PROVE ConnMoves(c)
<1>0. conn[c].pc = "rendering"
    BY DEF Render
<1>1. CASE conn[c].resolved.kind = "answer"
    <2> DEFINE k == [conn[c] EXCEPT !.pc = "over", !.end = "done"]
               len == Len(conn[c].sent)
    <2>1. /\ response = conn[c].resolved /\ Truth = response.blocks /\ Truth \in BlockSeq
          /\ state # "free"
        BY <1>1, RenderedIsRecorded
    <2>2. Unsent(c, Truth) = {} /\ Set(c, k)
        BY <1>1, <2>1 DEF Render
    <2>3. Unsent(c, Truth) = {i \in 1..Len(Truth) : i > len}
        BY <2>1, UnsentAreNext
    <2>4. Len(Truth) \in Nat /\ len \in Nat /\ len <= Len(Truth)
        BY <2>1, BlockSeqIsSeq, ConnectionParts, ConnectionFacts DEF ConnInv, SentInv, IInv
    <2>5. Len(Truth) > len => Len(Truth) \in 1..Len(Truth)
        BY <2>4
    <2>6. len = Len(Truth)
        BY <2>2, <2>3, <2>4, <2>5
    <2>7. /\ k \in Connection /\ k.pc = "over" /\ k.resolved = conn[c].resolved
          /\ k.sent = conn[c].sent /\ k.cursor = conn[c].cursor /\ k.read = conn[c].read
          /\ k.end = "done"
        BY ConnectionFacts DEF Connection
    <2> HIDE DEF k
    <2>8. ConnInv(k)
        BY <1>1, <2>1, <2>6, <2>7, ConnectionFacts
        DEF ConnInv, SentInv, ReadInv, ResolvedInv, EndInv
    <2> QED BY <2>2, <2>7, <2>8 DEF Render, ConnMoves
<1>2. CASE conn[c].resolved.kind # "answer"
    BY <1>0, <1>2, OverKeeps DEF Render, ConnMoves
<1> QED BY <1>1, <1>2

-----------------------------------------------------------------------------
(* The inductive invariant.                                                *)

LEMMA InitialInv == Init => IInv
<1> SUFFICES ASSUME Init PROVE IInv
    OBVIOUS
<1>0. /\ <<>> \in BlockSeq /\ Len(<<>>) = 0 /\ NoResponse \in Response
      /\ MaxBlocks \in Nat
    BY EmptyIsBlockSeq, MaxBlocksAssumption DEF Response
<1>1. NoPub \in [tx : {"none", "queued", "committed", "failed"}, blocks : BlockSeq]
      /\ NoPub.tx = "none"
    BY <1>0 DEF NoPub
<1>2. Closed \in Connection
    BY <1>0 DEF Closed, Connection
<1>3. TypeOK /\ RowInv
    BY <1>0, <1>1, <1>2 DEF Init, TypeOK, RowInv
<1>4. JobInv
    BY <1>0, <1>1, ExtendsItself DEF Init, JobInv
<1>5. Truth = <<>>
    BY Kinds DEF Init, Truth
<1>6. ConnInv(Closed)
    BY <1>0, <1>5 DEF Closed, Init, ConnInv, SentInv, ReadInv, ResolvedInv, EndInv
<1> QED BY <1>3, <1>4, <1>6 DEF Init, IInv

\* A move of the store or the job that leaves the connections as they are.
LEMMA StoreMoveKeeps == ASSUME IInv, StoreMoves, conn' = conn PROVE IInv'
<1>1. ASSUME NEW c \in Conn PROVE ConnInv(conn[c])'
    <2>1. PICK k : k = conn[c]
        OBVIOUS
    <2>2. ConnInv(k)'
        BY <2>1, GrowthKeeps, ConnectionFacts DEF IInv, StoreMoves
    <2>3. conn'[c] = k
        BY <2>1
    <2> QED BY <2>2, <2>3 DEF ConnInv, SentInv, ReadInv, ResolvedInv, EndInv
<1> QED BY <1>1 DEF IInv, StoreMoves

LEMMA CrashKeeps == ASSUME IInv, Crash PROVE IInv'
<1>1. StoreMoves
    BY CrashMoves
<1>2. ASSUME NEW c \in Conn PROVE ConnInv(conn[c])'
    <2>1. conn[c] \in Connection /\ ConnInv(conn[c])
        BY ConnectionFacts
    <2>2. CASE conn[c].pc = "off"
        <3>1. PICK k : k = conn[c]
            OBVIOUS
        <3>2. ConnInv(k)'
            BY <1>1, <2>1, <3>1, GrowthKeeps DEF IInv, StoreMoves
        <3>3. conn'[c] = k
            BY <2>2, <3>1 DEF Crash
        <3> QED BY <3>2, <3>3 DEF ConnInv, SentInv, ReadInv, ResolvedInv, EndInv
    <2>3. CASE conn[c].pc # "off"
        <3>1. PICK k : k = [conn[c] EXCEPT !.pc = "over"]
            OBVIOUS
        <3>2. /\ k \in Connection /\ k.pc = "over" /\ k.resolved = conn[c].resolved
              /\ k.sent = conn[c].sent /\ k.cursor = conn[c].cursor /\ k.read = conn[c].read
              /\ k.end = conn[c].end
            BY <2>1, <3>1 DEF Connection
        <3>3. state # "free"
            BY DEF Crash
        <3>4. ConnInv(k)
            BY <2>1, <3>2, <3>3 DEF ConnInv, SentInv, ReadInv, ResolvedInv, EndInv
        <3>5. ConnInv(k)'
            BY <1>1, <3>2, <3>4, GrowthKeeps DEF IInv, StoreMoves
        <3>6. conn'[c] = k
            BY <2>3, <3>1 DEF Crash
        <3> QED BY <3>5, <3>6 DEF ConnInv, SentInv, ReadInv, ResolvedInv, EndInv
    <2> QED BY <2>2, <2>3
<1> QED BY <1>1, <1>2 DEF IInv, StoreMoves

\* A step of one connection leaves the others, the store and the job alone.
LEMMA ConnMoveKeeps == ASSUME IInv, NEW c \in Conn, ConnMoves(c) PROVE IInv'
<1>1. PICK k \in Connection : ConnInv(k) /\ conn' = [conn EXCEPT ![c] = k]
    BY DEF ConnMoves, Set
<1>2. /\ state' = state /\ stored' = stored /\ response' = response
      /\ gen' = gen /\ published' = published /\ pub' = pub /\ result' = result
      /\ journal' = journal
    BY DEF ConnMoves, store, job
<1>3. TypeOK' /\ RowInv' /\ JobInv'
    BY <1>1, <1>2 DEF IInv, TypeOK, RowInv, JobInv
<1>4. Truth' = Truth
    BY <1>2 DEF Truth
<1>5. ASSUME NEW d \in Conn PROVE ConnInv(conn[d])'
    <2>1. conn'[d] = IF d = c THEN k ELSE conn[d]
        BY <1>1 DEF IInv, TypeOK
    <2>2. PICK l : l = conn'[d]
        OBVIOUS
    <2>3. ConnInv(l)
        BY <1>1, <2>1, <2>2 DEF IInv
    <2> QED BY <1>2, <1>4, <2>2, <2>3
            DEF ConnInv, SentInv, ReadInv, ResolvedInv, EndInv
<1> QED BY <1>3, <1>5 DEF IInv

LEMMA StepKeeps == ASSUME IInv, [Next]_vars PROVE IInv'
<1>1. CASE Claim
    BY <1>1, ClaimMoves, StoreMoveKeeps DEF Claim
<1>2. CASE \E bs \in BlockSeq : Publish(bs)
    BY <1>2, PublishMoves, StoreMoveKeeps DEF Publish
<1>3. CASE PublicationCommits
    BY <1>3, CommitMoves, StoreMoveKeeps DEF PublicationCommits
<1>4. CASE PublicationFails
    BY <1>4, FailMoves, StoreMoveKeeps DEF PublicationFails
<1>5. CASE PublicationAcknowledged
    BY <1>5, AcknowledgeMoves, StoreMoveKeeps DEF PublicationAcknowledged
<1>6. CASE PublicationAbandoned
    BY <1>6, AbandonMoves, StoreMoveKeeps DEF PublicationAbandoned
<1>7. CASE \E end \in OwnerResponse : GenerationEnds(end)
    BY <1>7, EndMoves, StoreMoveKeeps DEF GenerationEnds
<1>8. CASE SaveCommits
    BY <1>8, SaveMoves, StoreMoveKeeps DEF SaveCommits
<1>9. CASE SaveFails
    BY <1>9, NoSaveMoves, StoreMoveKeeps DEF SaveFails
<1>10. CASE LeaseLost
    BY <1>10, LossMoves, StoreMoveKeeps DEF LeaseLost
<1>11. CASE Crash
    BY <1>11, CrashKeeps
<1>12. CASE \E c \in Conn : Open(c) \/ ConnStep(c) \/ Disconnect(c)
    <2>1. PICK c \in Conn : Open(c) \/ ConnStep(c) \/ Disconnect(c)
        BY <1>12
    <2>2. ConnMoves(c)
        BY <2>1, OpenMoves, ReadMoves, FailedReadMoves, SendStoredMoves, StoredSentMoves,
           JournalMoves, ResolvedMoves, AskMoves, PollingEndMoves, RenderBlockMoves,
           RenderMoves, DisconnectMoves, Zenon DEF ConnStep
    <2> QED BY <2>2, ConnMoveKeeps
<1>13. CASE UNCHANGED vars
    BY <1>13 DEF vars, IInv, TypeOK, RowInv, JobInv, Truth, ConnInv, SentInv, ReadInv,
                 ResolvedInv, EndInv
<1> QED BY <1>1, <1>2, <1>3, <1>4, <1>5, <1>6, <1>7, <1>8, <1>9, <1>10, <1>11, <1>12, <1>13
        DEF Next, JobStep

LEMMA Invariance == Spec => []IInv
BY InitialInv, StepKeeps, PTL DEF Spec

-----------------------------------------------------------------------------
(* The theorems.                                                           *)

\* The variables stay within their types.
THEOREM TypeCorrect == Spec => []TypeOK
<1>1. IInv => TypeOK
    BY DEF IInv
<1> QED BY <1>1, Invariance, PTL

\* The blocks a connection was sent, in order.
LEMMA ShownAsSent ==
    ASSUME IInv, NEW c \in Conn
    PROVE  /\ Len(Shown(c)) = Len(conn[c].sent) /\ Len(Shown(c)) \in Nat
           /\ Shown(c) \in Seq(Block) /\ DOMAIN conn[c].sent = 1..Len(conn[c].sent)
           /\ \A i \in 1..Len(Shown(c)) : conn[c].sent[i][1] = i /\ Shown(c)[i] = Truth[i]
           /\ Extends(Truth, Shown(c))
<1> DEFINE len == Len(conn[c].sent)
<1>1. /\ len \in Nat /\ DOMAIN conn[c].sent = 1..len /\ len <= Len(Truth)
      /\ \A i \in 1..len : conn[c].sent[i] = <<i, Truth[i]>>
    BY ConnectionFacts, ConnectionParts DEF Connection, ConnInv, SentInv, IInv
<1>2. \A i \in 1..len : conn[c].sent[i][1] = i /\ conn[c].sent[i][2] = Truth[i]
    BY <1>1
<1>3. Truth \in BlockSeq /\ Len(Truth) \in Nat /\ \A i \in 1..Len(Truth) : Truth[i] \in Block
    BY ConnectionFacts, BlockSeqIsSeq
<1>4. Shown(c) = [i \in 1..len |-> Truth[i]]
    BY <1>1, <1>2 DEF Shown
<1>5. Shown(c) \in Seq(Block) /\ Len(Shown(c)) = len
    BY <1>1, <1>3, <1>4
<1>6. \A i \in 1..len : Shown(c)[i] = Truth[i]
    BY <1>4
<1> QED BY <1>1, <1>2, <1>5, <1>6 DEF Extends

\* What is shown is a gapless beginning of what the store holds, for any number
\* of connections, through lost acknowledgements, lost leases and crashes.
THEOREM NothingShownIsLost == Spec => []ShownIsDurable
<1>1. ASSUME IInv, NEW c \in Conn
      PROVE  /\ \A i \in DOMAIN conn[c].sent : conn[c].sent[i][1] = i
             /\ \/ Extends(stored, Shown(c))
                \/ response.kind = "answer" /\ Extends(response.blocks, Shown(c))
    BY <1>1, ShownAsSent DEF Truth
<1>2. IInv => ShownIsDurable
    BY <1>1 DEF ShownIsDurable
<1> QED BY <1>2, Invariance, PTL

\* "done" follows the whole recorded answer, and a connection that reports the
\* recorded result has first sent all that was confirmed.
THEOREM EndsAreTruthful == Spec => []EndsTruthfully
<1>1. ASSUME IInv, NEW c \in Conn, conn[c].end = "done"
      PROVE  response.kind = "answer" /\ Shown(c) = response.blocks
    <2>1. response.kind = "answer" /\ Len(conn[c].sent) = Len(response.blocks)
        BY <1>1, ConnectionFacts DEF ConnInv, EndInv
    <2>2. Truth = response.blocks /\ response.blocks \in Seq(Block)
        BY <1>1, <2>1, ConnectionFacts, BlockSeqIsSeq
    <2>3. Shown(c) = response.blocks
        BY <1>1, <2>1, <2>2, ShownAsSent
    <2> QED BY <2>1, <2>3
<1>2. ASSUME IInv, NEW c \in Conn, conn[c].pc = "rendering", conn[c].resolved = response
      PROVE  Extends(Shown(c), stored)
    <2>1. Len(stored) <= Len(conn[c].sent)
        BY <1>2, ConnectionFacts DEF ConnInv, EndInv
    <2>2. Extends(Truth, stored) /\ Len(stored) \in Nat
        BY <1>2, ConnectionFacts, BlockSeqIsSeq
    <2> QED BY <1>2, <2>1, <2>2, ShownAsSent DEF Extends
<1>3. IInv => EndsTruthfully
    BY <1>1, <1>2 DEF EndsTruthfully, DoneIsRecorded, EndsAfterConfirmed
<1> QED BY <1>3, Invariance, PTL

-----------------------------------------------------------------------------
(* BlockDelivery asks of the store what RequestLedger allows.              *)

Entry == [state |-> state, shown |-> stored, response |-> response]

\* The instance's copies of the shared definitions are the definitions.
LEMMA SameData ==
    /\ Store!NoResponse = NoResponse
    /\ Store!Interrupted = Interrupted
    /\ Store!BlockSeq = BlockSeq
    /\ Store!OwnerResponse = OwnerResponse
    /\ \A x, bs : Store!Extends(x, bs) <=> Extends(x, bs)
    /\ \A x, bs : Store!Keeps(x, bs) <=> Keeps(x, bs)
<1>1. Store!BlockSeq = BlockSeq
    BY DEF Store!BlockSeq, BlockSeq
<1>2. \A bs : Store!Answer(bs) = Answer(bs)
    BY DEF Store!Answer, Answer
<1>3. Store!Failed = Failed
    BY DEF Store!Failed, Failed
<1>4. Store!OwnerResponse = OwnerResponse
    BY <1>1, <1>2, <1>3 DEF Store!OwnerResponse, OwnerResponse
<1>5. \A x, bs : Store!Extends(x, bs) <=> Extends(x, bs)
    BY DEF Store!Extends, Extends
<1>6. \A x, bs : Store!Keeps(x, bs) <=> Keeps(x, bs)
    BY <1>5 DEF Store!Keeps, Keeps
<1> QED
    BY <1>1, <1>4, <1>5, <1>6
       DEF Store!NoResponse, NoResponse, Store!Interrupted, Interrupted

\* A step that leaves the row alone leaves its entry alone.
LEMMA SameEntry == ASSUME UNCHANGED store PROVE Store!Move(Entry, Entry')
BY DEF store, Entry, Store!Move

LEMMA StepImplements == ASSUME IInv, [Next]_vars PROVE Store!Move(Entry, Entry')
<1>1. CASE Claim
    <2>1. Entry' = Store!Pending(<<>>)
        BY <1>1, SameData DEF IInv, RowInv, Claim, Entry, Store!Pending
    <2> QED BY <2>1 DEF Store!Move, Store!Opens
<1>2. CASE PublicationCommits
    <2>1. Entry' = Store!Pending(pub.blocks) /\ pub.blocks \in BlockSeq
        BY <1>2, SameData DEF IInv, TypeOK, RowInv, PublicationCommits, Entry, Store!Pending
    <2>2. Entry.state = "pending" /\ Entry.shown = stored /\ Extends(pub.blocks, stored)
        BY <1>2 DEF PublicationCommits, Entry
    <2> QED BY <2>1, <2>2, SameData DEF Store!Move, Store!Shows
<1>3. CASE SaveCommits
    <2>1. Entry' = Store!Settled(stored, result) /\ result \in OwnerResponse
        BY <1>3 DEF IInv, JobInv, SaveCommits, Entry, Store!Settled
    <2>2. Entry.state = "pending" /\ Entry.shown = stored /\ Keeps(result, stored)
        BY <1>3 DEF SaveCommits, Entry
    <2> QED BY <2>1, <2>2, SameData DEF Store!Move, Store!Settles
<1>4. CASE LeaseLost
    <2>1. Entry' = Store!Settled(stored, Interrupted)
        BY <1>4 DEF LeaseLost, Entry, Store!Settled
    <2>2. Entry.state = "pending" /\ Entry.shown = stored /\ Keeps(Interrupted, stored)
        BY <1>4, Kinds DEF LeaseLost, Entry, Keeps
    <2> QED BY <2>1, <2>2, SameData DEF Store!Move, Store!Settles
<1>5. CASE Crash \/ UNCHANGED vars
    BY <1>5, SameEntry DEF Crash, vars, store
<1>6. CASE \E bs \in BlockSeq : Publish(bs)
    BY <1>6, SameEntry DEF Publish
<1>7. CASE PublicationFails \/ PublicationAcknowledged \/ PublicationAbandoned \/ SaveFails
    BY <1>7, SameEntry
    DEF PublicationFails, PublicationAcknowledged, PublicationAbandoned, SaveFails
<1>8. CASE \E end \in OwnerResponse : GenerationEnds(end)
    BY <1>8, SameEntry DEF GenerationEnds
<1>9. CASE \E c \in Conn : Open(c) \/ ConnStep(c) \/ Disconnect(c)
    <2>1. PICK c \in Conn : Open(c) \/ ConnStep(c) \/ Disconnect(c)
        BY <1>9
    <2>2. UNCHANGED store
        BY <2>1 DEF ConnStep, Open, ReadStored, ReadFails, SendStored, StoredSent, SendJournal,
           JobResolved, AskResult, PollingEnds, RenderBlock, Render, Disconnect
    <2> QED BY <2>2, SameEntry
<1> QED BY <1>1, <1>2, <1>3, <1>4, <1>5, <1>6, <1>7, <1>8, <1>9 DEF Next, JobStep

\* Whatever job and connections do, the row moves as the ledger allows: it is
\* claimed once, grows, and is settled once with what it confirmed.
THEOREM Implementation == Spec => RespectsStore
<1>1. Init => Store!Init
    BY SameData DEF Init, Store!Init, Store!Free
<1>2. IInv /\ [Next]_vars => [Store!Next]_([r \in {"r"} |-> Entry])
    <2> SUFFICES ASSUME IInv, [Next]_vars PROVE Store!Next
        OBVIOUS
    <2>1. Store!Move(Entry, Entry')
        BY StepImplements
    <2> QED BY <2>1 DEF Store!Next, Entry
<1>3. [r \in {"r"} |-> Entry]
          = [r \in {"r"} |-> [state |-> state, shown |-> stored, response |-> response]]
    BY DEF Entry
<1> QED BY <1>1, <1>2, <1>3, Invariance, PTL DEF Spec, RespectsStore, Store!Spec, Entry

=============================================================================
