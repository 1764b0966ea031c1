------------------------- MODULE EncapsulateProofs --------------------------
(***************************************************************************)
(* Proofs that pcap2vxlan writes IPv4 headers with the right checksum, and *)
(* records with the right lengths and addresses, for every configuration   *)
(* with 16-bit address words, every number of packets and every captured   *)
(* length, although each header is made from that of the packet before it. *)
(***************************************************************************)
EXTENDS Encapsulate, SequenceTheorems, WellFoundedInduction, TLAPS

Headers == [1..10 -> Words]

Verifies(words) == Folded(Folded(WordSum(words))) = Word - 1

(* What fwrite() is given. *)
Pieces ==
  [kind : {"header", "ether", "vxlan", "data"}, bytes : Nat]
  \cup [kind : {"record"}, bytes : Nat, caplen : Nat]
  \cup [kind : {"ip"}, bytes : Nat, words : {w \in Headers : Verifies(w)}]
  \cup [kind : {"udp"}, bytes : Nat, dport : Nat, ulen : Nat]

(* The headers that are used again consist of words, and what has been     *)
(* written consists of pieces, of which the IPv4 headers verify.           *)
IInv ==
  /\ step \in {"headers", "loop"} =>
       /\ conf.src_ip \in Words \X Words
       /\ conf.dst_ip \in Words \X Words
       /\ conf.vxlan_port \in Int
  /\ step = "loop" => iph \in [out : Headers, in : Headers]
  /\ file \in Seq(Pieces)

-----------------------------------------------------------------------------
(* Folding *)

(* A number is its quotient and its remainder. *)
LEMMA Divided ==
  ASSUME NEW s \in Nat
  PROVE  /\ s \div Word \in Nat
         /\ s % Word \in Words
         /\ s = Word * (s \div Word) + (s % Word)
  BY SMT DEF Word, Words

LEMMA Quotient ==
  ASSUME NEW q \in Nat, NEW r \in Words
  PROVE  (Word * q + r) \div Word = q
  BY SMT DEF Word, Words

(* Folding adds the two. *)
LEMMA FoldingAdds ==
  ASSUME NEW q \in Nat, NEW r \in Words
  PROVE  Folded(Word * q + r) = q + r
<1> DEFINE s == Word * q + r
           m == s % Word
<1>1. s \in Nat
  BY SMT DEF Word, Words
<1>2. s \div Word = q
  BY Quotient
<1>3. m \in Words /\ Word * q + r = Word * q + m
  BY <1>1, <1>2, Divided
<1> HIDE DEF m
<1>4. m = r
  BY <1>3, SMT DEF Word, Words
<1> QED
  BY <1>2, <1>4, SMT DEF Folded, m, Word, Words

(* A sum of ten words folds twice to a word, and with the complement of    *)
(* that it folds to all ones: the second folding takes up the carry that   *)
(* the first one may leave.                                                *)
LEMMA ComplementVerifies ==
  ASSUME NEW s \in Nat, s <= 10 * (Word - 1)
  PROVE  /\ Folded(Folded(s)) \in Words
         /\ Folded(Folded(s + ((Word - 1) - Folded(Folded(s))))) = Word - 1
<1>1. PICK q \in Nat, r \in Words : s = Word * q + r
  <2>1. s \div Word \in Nat /\ s % Word \in Words
    BY Divided
  <2>2. s = Word * (s \div Word) + (s % Word)
    BY Divided
  <2> QED
    BY <2>1, <2>2
<1>2. q <= 9
  BY <1>1, SMT DEF Word, Words
<1>3. Folded(s) = q + r
  BY <1>1, FoldingAdds
<1>4. Folded(Word - 1) = Word - 1
  <2>1. Folded(Word * 0 + (Word - 1)) = 0 + (Word - 1)
    BY FoldingAdds, SMT DEF Word, Words
  <2> QED
    BY <2>1, SMT DEF Word
<1>5. CASE q + r < Word
  <2>1. Folded(Word * 0 + (q + r)) = 0 + (q + r)
    <3>1. q + r \in Words
      BY <1>5, SMT DEF Word, Words
    <3> QED
      BY <3>1, FoldingAdds
  <2>2. Folded(Folded(s)) = q + r
    BY <1>3, <2>1, SMT DEF Word, Words
  <2>3. s + ((Word - 1) - (q + r)) = Word * q + ((Word - 1) - q)
    BY <1>1, SMT DEF Word, Words
  <2>4. Folded(Word * q + ((Word - 1) - q)) = q + ((Word - 1) - q)
    <3>1. (Word - 1) - q \in Words
      BY <1>2, SMT DEF Word, Words
    <3> QED
      BY <3>1, FoldingAdds
  <2>5. q + ((Word - 1) - q) = Word - 1 /\ q + r \in Words
    BY <1>5, SMT DEF Word, Words
  <2> QED
    BY <1>4, <2>2, <2>3, <2>4, <2>5
<1>6. CASE q + r >= Word
  <2>1. Folded(Word * 1 + (q + r - Word)) = 1 + (q + r - Word)
    <3>1. q + r - Word \in Words
      BY <1>2, <1>6, SMT DEF Word, Words
    <3> QED
      BY <3>1, FoldingAdds
  <2>2. Folded(Folded(s)) = 1 + (q + r - Word)
    BY <1>3, <2>1, SMT DEF Word, Words
  <2>3. s + ((Word - 1) - (1 + (q + r - Word))) = Word * (q + 1) + ((Word - 2) - q)
    BY <1>1, SMT DEF Word, Words
  <2>4. Folded(Word * (q + 1) + ((Word - 2) - q)) = (q + 1) + ((Word - 2) - q)
    <3>1. (Word - 2) - q \in Words
      BY <1>2, SMT DEF Word, Words
    <3> QED
      BY <3>1, FoldingAdds
  <2>5. (q + 1) + ((Word - 2) - q) = Word - 1 /\ 1 + (q + r - Word) \in Words
    BY <1>2, <1>6, SMT DEF Word, Words
  <2> QED
    BY <1>4, <2>2, <2>3, <2>4, <2>5
<1> QED
  BY <1>5, <1>6, SMT DEF Word, Words

(* The sum of a header is that of ten words. *)
LEMMA SumOfHeader ==
  ASSUME NEW h \in Headers
  PROVE  WordSum(h) \in Nat /\ WordSum(h) <= 10 * (Word - 1)
<1>1. \A n \in 1..10 : h[n] \in Words
  BY DEF Headers
<1>2. QED
  BY <1>1, SMT DEF WordSum, Words, Word

(* Checksummed gives a header that verifies, whatever checksum the one     *)
(* that is used again still had.                                           *)
LEMMA ChecksummedVerifies ==
  ASSUME NEW h \in Headers, NEW caplen \in Nat
  PROVE  Checksummed(h, caplen) \in Headers /\ Verifies(Checksummed(h, caplen))
<1> DEFINE header == [h EXCEPT ![2] = ip_size(caplen), ![6] = 0]
           sum == pkt_checksum(header)
<1>1. header \in Headers
  BY SMT DEF Headers, Words, Word, ip_size
<1>2. WordSum(header) \in Nat /\ WordSum(header) <= 10 * (Word - 1)
  BY <1>1, SumOfHeader
<1>3. sum \in Words
  BY <1>2, ComplementVerifies, SMT DEF pkt_checksum, Words, Word
<1>4. [header EXCEPT ![6] = sum] \in Headers
  BY <1>1, <1>3 DEF Headers
<1>5. WordSum([header EXCEPT ![6] = sum]) = WordSum(header) + sum
  <2>1. header[6] = 0 /\ \A n \in 1..10 : header[n] \in Int
    BY <1>1, SMT DEF Headers, Words, Word
  <2>2. sum \in Int
    BY <1>3, SMT DEF Words, Word
  <2> HIDE DEF sum
  <2>3. DOMAIN header = 1..10
    BY DEF Headers
  <2> HIDE DEF header
  <2>4. QED
    BY <2>1, <2>2, <2>3, SMT DEF WordSum
<1>6. Verifies([header EXCEPT ![6] = sum])
  <2>1. sum = (Word - 1) - Folded(Folded(WordSum(header)))
    BY DEF pkt_checksum
  <2> HIDE DEF sum, header
  <2>2. QED
    BY <1>2, <1>5, <2>1, ComplementVerifies DEF Verifies
<1>7. Checksummed(h, caplen) = [header EXCEPT ![6] = sum]
  BY DEF Checksummed
<1>8. QED
  BY <1>4, <1>6, <1>7

-----------------------------------------------------------------------------
(* The configuration *)

(* A nonempty set of numbers up to n has a greatest one. *)
LEMMA GreatestUpTo ==
  ASSUME NEW n \in Nat, NEW S \in SUBSET (1..n), S # {}
  PROVE  \E k \in S : \A m \in S : m <= k
<1> DEFINE R == OpToRel(<, Nat)
           T == {n - k : k \in S}
<1>1. \A k, m \in Nat : k < m => << k, m >> \in R
  BY DEF OpToRel
<1>2. IsWellFoundedOn(R, Nat)
  BY NatLessThanWellFounded
<1>3. T \in SUBSET Nat /\ T # {}
  <2>1. \A k \in S : n - k \in Nat
    OBVIOUS
  <2>2. PICK k : k \in S
    OBVIOUS
  <2>3. n - k \in T
    BY <2>2
  <2> QED
    BY <2>1, <2>3
<1> HIDE DEF R, T
<1>4. PICK t \in T : \A u \in T : << u, t >> \notin R
  BY <1>2, <1>3, WFMin
<1>5. \A u \in T : ~ (u < t)
  BY <1>1, <1>3, <1>4
<1>6. PICK k \in S : t = n - k
  BY DEF T
<1>7. \A m \in S : n - m \in T
  BY DEF T
<1>8. \A m \in S : m <= k
  BY <1>5, <1>6, <1>7
<1> QED
  BY <1>8

(* A value is that of a row, or the one that a missing row leaves. *)
LEMMA ValueIn ==
  ASSUME NEW rows, Len(rows) \in Nat, NEW key, NEW T, NEW zero \in T,
         \A n \in 1..Len(rows) : rows[n].key = key => rows[n].value \in T
  PROVE  Value(rows, key, zero) \in T
<1> DEFINE given == {n \in 1..Len(rows) : rows[n].key = key}
<1>1. CASE given = {}
  BY <1>1 DEF Value
<1>2. CASE given # {}
  <2> DEFINE last == CHOOSE n \in given : \A m \in given : m <= n
  <2>1. \E n \in given : \A m \in given : m <= n
    BY <1>2, GreatestUpTo
  <2>2. last \in given
    BY <2>1
  <2>3. Value(rows, key, zero) = rows[last].value
    BY <1>2 DEF Value
  <2> QED
    BY <2>2, <2>3
<1> QED
  BY <1>1, <1>2

(* The header of either direction consists of words. *)
LEMMA IpHeaderOfWords ==
  ASSUME NEW src \in Words \X Words, NEW dst \in Words \X Words
  PROVE  IpHeader(src, dst) \in Headers
<1>1. PICK a \in Words, b \in Words : src = << a, b >>
  OBVIOUS
<1>2. PICK c \in Words, d \in Words : dst = << c, d >>
  OBVIOUS
<1> DEFINE h == << 17664, 0, 0, 16384, 16401, 0 >>
<1>3. h \in Seq(Words) /\ Len(h) = 6
  BY SMT DEF Words, Word
<1>4. src \in Seq(Words) /\ Len(src) = 2 /\ dst \in Seq(Words) /\ Len(dst) = 2
  BY <1>1, <1>2
<1> HIDE DEF h
<1>5. h \o src \in Seq(Words) /\ Len(h \o src) = 8
  <2>1. h \o src \in Seq(Words) /\ Len(h \o src) = Len(h) + Len(src)
    BY <1>3, <1>4, ConcatProperties, Zenon
  <2> QED
    BY <1>3, <1>4, <2>1
<1>6. (h \o src) \o dst \in Seq(Words) /\ Len((h \o src) \o dst) = 10
  <2>1. /\ (h \o src) \o dst \in Seq(Words)
        /\ Len((h \o src) \o dst) = Len(h \o src) + Len(dst)
    BY <1>4, <1>5, ConcatProperties, Zenon
  <2> QED
    BY <1>4, <1>5, <2>1
<1>7. (h \o src) \o dst \in [1..10 -> Words]
  BY <1>6, LenProperties
<1>8. IpHeader(src, dst) = (h \o src) \o dst
  BY SMT DEF IpHeader, h
<1> QED
  BY <1>7, <1>8 DEF Headers

-----------------------------------------------------------------------------
(* The steps *)

(* What is written for a packet consists of pieces. *)
LEMMA RecordOfPieces ==
  ASSUME conf.vxlan_port \in Int,
         NEW packet, packet.caplen \in Nat,
         NEW header \in Headers, Verifies(header)
  PROVE  Record(packet, header) \in Seq(Pieces)
<1>1. conf.vxlan_port % Word \in Nat /\ udp_size(packet.caplen) \in Nat
  BY SMT DEF udp_size, Word
<1>2. [kind |-> "record", bytes |-> 16, caplen |-> packet.caplen + 50] \in Pieces
  <2>1. packet.caplen + 50 \in Nat
    OBVIOUS
  <2> QED
    BY <2>1 DEF Pieces
<1>3. [kind |-> "ether", bytes |-> 14] \in Pieces
  BY DEF Pieces
<1>4. [kind |-> "ip", bytes |-> 20, words |-> header] \in Pieces
  BY DEF Pieces
<1>5. [kind |-> "udp", bytes |-> 8, dport |-> conf.vxlan_port % Word,
       ulen |-> udp_size(packet.caplen)] \in Pieces
  BY <1>1 DEF Pieces
<1>6. [kind |-> "vxlan", bytes |-> 8] \in Pieces
  BY DEF Pieces
<1>7. [kind |-> "data", bytes |-> packet.caplen] \in Pieces
  BY DEF Pieces
<1> QED
  BY <1>2, <1>3, <1>4, <1>5, <1>6, <1>7 DEF Record

(* Init and every step preserve the invariant. *)
LEMMA InitEstablishesIInv == EncapInit => IInv
  BY DEF EncapInit, IInv

LEMMA NextPreservesIInv ==
  ASSUME IInv, [EncapNext]_encapVars
  PROVE  IInv'
<1>1. CASE UNCHANGED encapVars
  BY <1>1 DEF IInv, encapVars
<1>2. ASSUME NEW rows \in Confs, parse_conf(rows)
      PROVE  IInv'
  <2>1. /\ Len(rows) \in Nat
        /\ << 0, 0 >> \in Words \X Words
    BY EncapsulateAssumption, SMT DEF Words, Word
  <2>2. Value(rows, "OUTER_SRC_IP", << 0, 0 >>) \in Words \X Words
    BY <2>1, ValueIn, EncapsulateAssumption
  <2>3. Value(rows, "OUTER_DST_IP", << 0, 0 >>) \in Words \X Words
    BY <2>1, ValueIn, EncapsulateAssumption
  <2>4. Value(rows, "VXLAN_PORT", 0) \in Int
    BY <2>1, ValueIn, EncapsulateAssumption
  <2> QED
    BY <1>2, <2>2, <2>3, <2>4 DEF IInv, parse_conf
<1>3. CASE MakeHeaders
  <2>1. /\ conf.src_ip \in Words \X Words
        /\ conf.dst_ip \in Words \X Words
        /\ conf.vxlan_port \in Int
    BY <1>3 DEF IInv, MakeHeaders
  <2>2. iph' \in [out : Headers, in : Headers]
    <3>1. /\ IpHeader(conf.src_ip, conf.dst_ip) \in Headers
          /\ IpHeader(conf.dst_ip, conf.src_ip) \in Headers
      BY <2>1, IpHeaderOfWords
    <3> QED
      BY <1>3, <3>1 DEF MakeHeaders
  <2>3. file' \in Seq(Pieces)
    <3> DEFINE piece == [kind |-> "header", bytes |-> 24]
    <3>1. piece \in Pieces
      BY DEF Pieces
    <3>2. file' = << piece >> \/ file' = file
      BY <1>3 DEF MakeHeaders
    <3>3. file \in Seq(Pieces)
      BY DEF IInv
    <3> HIDE DEF piece
    <3>4. << piece >> \in Seq(Pieces)
      BY <3>1
    <3> QED
      BY <3>2, <3>3, <3>4
  <2> QED
    BY <1>3, <2>1, <2>2, <2>3 DEF IInv, MakeHeaders
<1>4. ASSUME NEW packet \in Packets, Encapsulate(packet)
      PROVE  IInv'
  <2> DEFINE way == Direction(packet)
             header == Checksummed(iph[way], packet.caplen)
             record == Record(packet, header)
  <2>1. packet.caplen \in Nat /\ way \in {"out", "in"}
    BY EncapsulateAssumption DEF Packets, Direction
  <2>2. iph \in [out : Headers, in : Headers] /\ conf.vxlan_port \in Int /\ file \in Seq(Pieces)
    BY <1>4 DEF IInv, Encapsulate
  <2>3. header \in Headers /\ Verifies(header)
    <3>1. iph[way] \in Headers
      BY <2>1, <2>2
    <3> QED
      BY <2>1, <3>1, ChecksummedVerifies
  <2>4. iph' \in [out : Headers, in : Headers]
    <3>1. iph' = [iph EXCEPT ![way] = header]
      BY <1>4 DEF Encapsulate
    <3> HIDE DEF header, way
    <3>2. CASE way = "out"
      BY <2>2, <2>3, <3>1, <3>2
    <3>3. CASE way = "in"
      BY <2>2, <2>3, <3>1, <3>3
    <3> QED
      BY <2>1, <3>2, <3>3
  <2>5. record \in Seq(Pieces)
    BY <2>1, <2>2, <2>3, RecordOfPieces
  <2>6. file' \in Seq(Pieces)
    <3>1. \/ file' = file \o record
          \/ \E n \in 0..5 : file' = file \o SubSeq(record, 1, n)
          \/ file' = file
      BY <1>4 DEF Encapsulate
    <3>2. \A n \in 0..5 : SubSeq(record, 1, n) \in Seq(Pieces)
      <4>1. Len(record) = 6
        BY DEF Record
      <4> HIDE DEF record
      <4>2. \A k \in 1..6 : record[k] \in Pieces
        BY <2>5, <4>1, ElementOfSeq, Zenon
      <4>3. \A n \in 0..5 : n \in Int /\ \A k \in 1..n : record[k] \in Pieces
        BY <4>2
      <4> QED
        BY <4>3, SubSeqProperties
    <3> HIDE DEF record
    <3> QED
      BY <2>2, <2>5, <3>1, <3>2, ConcatProperties
  <2> QED
    BY <1>4, <2>4, <2>6 DEF IInv, Encapsulate
<1>5. CASE Close
  BY <1>5 DEF IInv, Close
<1> QED
  BY <1>1, <1>2, <1>3, <1>4, <1>5 DEF EncapNext

(* The receiver of any packet that pcap2vxlan writes finds the checksum of *)
(* the outer IPv4 header right (pkt_checksum and lines 284 to 288 and 298  *)
(* to 302 of pcap2vxlan.c), for every number of packets and every captured *)
(* length.                                                                 *)
THEOREM ChecksumsRight == EncapSpec => []ChecksumVerifies
<1>1. EncapInit => IInv
  BY InitEstablishesIInv
<1>2. IInv /\ [EncapNext]_encapVars => IInv'
  BY NextPreservesIInv
<1>3. IInv => ChecksumVerifies
  <2> SUFFICES ASSUME IInv, NEW n \in 1..Len(file), file[n].kind = "ip"
               PROVE  Folded(Folded(WordSum(file[n].words))) = Word - 1
    BY DEF ChecksumVerifies
  <2>1. file[n] \in Pieces
    BY DEF IInv
  <2>2. file[n].words \in {w \in Headers : Verifies(w)}
    BY <2>1 DEF Pieces
  <2> QED
    BY <2>2 DEF Verifies
<1> QED
  BY <1>1, <1>2, <1>3, PTL DEF EncapSpec

-----------------------------------------------------------------------------
(* The records *)

(* A header for a packet from src to dst. *)
Between(words, src, dst) ==
  /\ words[7] = src[1] /\ words[8] = src[2]
  /\ words[9] = dst[1] /\ words[10] = dst[2]

(* What the k-th of the six pieces of a packet's record holds. *)
PieceOf(x, k, packet, src, dst) ==
  /\ k = 1 <=> x.kind = "record"
  /\ k = 1 => x.caplen = packet.caplen + 50
  /\ k = 2 => x.bytes = 14
  /\ k = 3 => /\ x.bytes = 20 /\ x.words[2] = ip_size(packet.caplen)
              /\ x.words \in Headers /\ Between(x.words, src, dst)
  /\ k = 4 => x.bytes = 8 /\ x.ulen = udp_size(packet.caplen)
  /\ k = 5 => x.bytes = 8
  /\ k = 6 => x.bytes = packet.caplen

(* The packets "in" are in the file f one after the other, after the file  *)
(* header, as far as f goes; those from the first one's source go from a   *)
(* to b, the others back.                                                  *)
Placed(f, in, a, b) ==
  \A m \in 1..Len(in), k \in 1..6 : 6 * m - 5 + k <= Len(f) =>
    PieceOf(f[6 * m - 5 + k], k, in[m],
            IF in[m].source = in[1].source THEN a ELSE b,
            IF in[m].source = in[1].source THEN b ELSE a)

(* Before the loop nothing is written.  Then the file holds six pieces for *)
(* every packet, unless a write failed, and the header of each direction   *)
(* the addresses of that direction.                                        *)
Layout ==
  /\ full \in BOOLEAN
  /\ step \notin {"loop", "done"} => file = << >> /\ input = << >> /\ i = 0 /\ full = FALSE
  /\ step \in {"loop", "done"} =>
       /\ input \in Seq(Packets) /\ i = Len(input)
       /\ 1 <= Len(file) /\ Len(file) <= 6 * Len(input) + 1
       /\ full = FALSE => Len(file) = 6 * Len(input) + 1
       /\ file[1].kind = "header"
       /\ Placed(file, input, conf.src_ip, conf.dst_ip)
       /\ conf.src_ip \in Words \X Words /\ conf.dst_ip \in Words \X Words
  /\ step = "loop" =>
       /\ Between(iph.out, conf.src_ip, conf.dst_ip)
       /\ Between(iph.in, conf.dst_ip, conf.src_ip)
       /\ i > 0 => smac = input[1].source

(* A packet that does not reach the file changes nothing. *)
LEMMA PlacedStays ==
  ASSUME NEW f \in Seq(Pieces), NEW in \in Seq(Packets), NEW a, NEW b, NEW packet \in Packets,
         Placed(f, in, a, b), Len(f) <= 6 * Len(in) + 1
  PROVE  Placed(f, Append(in, packet), a, b)
<1>1. /\ Len(Append(in, packet)) = Len(in) + 1 /\ Len(in) \in Nat /\ Len(f) \in Nat
      /\ \A m \in 1..Len(in) : Append(in, packet)[m] = in[m]
  OBVIOUS
<1> SUFFICES ASSUME NEW m \in 1..(Len(in) + 1), NEW k \in 1..6, 6 * m - 5 + k <= Len(f)
             PROVE  PieceOf(f[6 * m - 5 + k], k, Append(in, packet)[m],
                            IF Append(in, packet)[m].source = Append(in, packet)[1].source
                              THEN a ELSE b,
                            IF Append(in, packet)[m].source = Append(in, packet)[1].source
                              THEN b ELSE a)
  BY <1>1 DEF Placed
<1>2. m \in 1..Len(in) /\ 1 \in 1..Len(in)
  BY <1>1
<1>3. Append(in, packet)[m] = in[m] /\ Append(in, packet)[1] = in[1]
  BY <1>1, <1>2
<1> QED
  BY <1>2, <1>3 DEF Placed

(* The pieces t of the next packet are appended. *)
LEMMA PlacedGrows ==
  ASSUME NEW f \in Seq(Pieces), NEW in \in Seq(Packets), NEW a, NEW b, NEW packet \in Packets,
         Placed(f, in, a, b), Len(f) = 6 * Len(in) + 1,
         NEW t \in Seq(Pieces), NEW out \in BOOLEAN,
         out = TRUE <=> in = << >> \/ packet.source = in[1].source,
         \A k \in 1..Len(t) :
           PieceOf(t[k], k, packet, IF out THEN a ELSE b, IF out THEN b ELSE a)
  PROVE  Placed(f \o t, Append(in, packet), a, b)
<1> DEFINE n == Append(in, packet)
<1>1. /\ Len(n) = Len(in) + 1 /\ Len(in) \in Nat /\ Len(f) \in Nat /\ Len(t) \in Nat
      /\ n[Len(in) + 1] = packet /\ \A m \in 1..Len(in) : n[m] = in[m]
  OBVIOUS
<1>2. Len(f \o t) = Len(f) + Len(t)
  BY ConcatProperties
<1>3. \A j \in 1..(Len(f) + Len(t)) : (f \o t)[j] = IF j <= Len(f) THEN f[j] ELSE t[j - Len(f)]
  BY ConcatProperties
<1>4. n[1] = IF in = << >> THEN packet ELSE in[1]
  BY <1>1
<1> HIDE DEF n
<1> SUFFICES ASSUME NEW m \in 1..(Len(in) + 1), NEW k \in 1..6, 6 * m - 5 + k <= Len(f) + Len(t)
             PROVE  PieceOf((f \o t)[6 * m - 5 + k], k, n[m],
                            IF n[m].source = n[1].source THEN a ELSE b,
                            IF n[m].source = n[1].source THEN b ELSE a)
  BY <1>1, <1>2 DEF Placed, n
<1>5. CASE m \in 1..Len(in)
  <2>1. 6 * m - 5 + k \in 1..(Len(f) + Len(t)) /\ 6 * m - 5 + k <= Len(f)
    BY <1>1, <1>5
  <2>2. (f \o t)[6 * m - 5 + k] = f[6 * m - 5 + k]
    BY <1>3, <2>1
  <2>3. n[m] = in[m] /\ n[1] = in[1]
    BY <1>1, <1>4, <1>5
  <2> QED
    BY <1>5, <2>1, <2>2, <2>3 DEF Placed
<1>6. CASE m = Len(in) + 1
  <2>1. 6 * m - 5 + k = Len(f) + k
    BY <1>1, <1>6
  <2>2. k \in 1..Len(t) /\ Len(f) + k \in 1..(Len(f) + Len(t)) /\ (Len(f) + k) - Len(f) = k
        /\ ~ (Len(f) + k <= Len(f))
    BY <1>1, <2>1
  <2>3. (f \o t)[6 * m - 5 + k] = t[k]
    BY <1>3, <2>1, <2>2
  <2>4. n[m] = packet /\ (n[m].source = n[1].source <=> out = TRUE)
    BY <1>1, <1>4, <1>6
  <2> QED
    BY <2>2, <2>3, <2>4
<1>7. m \in 1..Len(in) \/ m = Len(in) + 1
  BY <1>1
<1> QED
  BY <1>5, <1>6, <1>7

(* The length is the packet's, and the addresses are left alone. *)
LEMMA ChecksummedBetween ==
  ASSUME NEW h \in Headers, NEW caplen \in Nat
  PROVE  /\ Checksummed(h, caplen)[2] = ip_size(caplen)
         /\ \A n \in 7..10 : Checksummed(h, caplen)[n] = h[n]
<1> DEFINE header == [h EXCEPT ![2] = ip_size(caplen), ![6] = 0]
<1>1. DOMAIN h = 1..10
  BY DEF Headers
<1>2. /\ DOMAIN header = 1..10 /\ header[2] = ip_size(caplen)
      /\ \A n \in 7..10 : header[n] = h[n]
  BY <1>1
<1> HIDE DEF header
<1>3. Checksummed(h, caplen) = [header EXCEPT ![6] = pkt_checksum(header)]
  BY DEF Checksummed, header
<1> QED
  BY <1>2, <1>3

LEMMA RecordPieces ==
  ASSUME NEW packet, packet.caplen \in Nat, NEW header \in Headers, NEW a, NEW b,
         header[2] = ip_size(packet.caplen), Between(header, a, b)
  PROVE  /\ Len(Record(packet, header)) = 6
         /\ \A k \in 1..6 : PieceOf(Record(packet, header)[k], k, packet, a, b)
<1>1. Len(Record(packet, header)) = 6
  BY DEF Record
<1>2. PieceOf(Record(packet, header)[1], 1, packet, a, b)
  BY DEF Record, PieceOf
<1>3. PieceOf(Record(packet, header)[2], 2, packet, a, b)
  BY DEF Record, PieceOf
<1>4. PieceOf(Record(packet, header)[3], 3, packet, a, b)
  BY DEF Record, PieceOf
<1>5. PieceOf(Record(packet, header)[4], 4, packet, a, b)
  BY DEF Record, PieceOf
<1>6. PieceOf(Record(packet, header)[5], 5, packet, a, b)
  BY DEF Record, PieceOf
<1>7. PieceOf(Record(packet, header)[6], 6, packet, a, b)
  BY DEF Record, PieceOf
<1> QED
  BY <1>1, <1>2, <1>3, <1>4, <1>5, <1>6, <1>7

(* The header that MakeHeaders makes has the addresses it is given. *)
LEMMA IpHeaderBetween ==
  ASSUME NEW src \in Words \X Words, NEW dst \in Words \X Words
  PROVE  Between(IpHeader(src, dst), src, dst)
<1>1. PICK a \in Words, b \in Words : src = << a, b >>
  OBVIOUS
<1>2. PICK c \in Words, d \in Words : dst = << c, d >>
  OBVIOUS
<1> DEFINE h == << 17664, 0, 0, 16384, 16401, 0 >>
           hs == h \o src
           w == hs \o dst
<1>3. h \in Seq(Words) /\ Len(h) = 6
  BY SMT DEF Words, Word
<1>4. src \in Seq(Words) /\ Len(src) = 2 /\ dst \in Seq(Words) /\ Len(dst) = 2
  BY <1>1, <1>2
<1>5. IpHeader(src, dst) = hs \o dst
  BY SMT DEF IpHeader
<1> HIDE DEF h
<1>6. /\ hs \in Seq(Words) /\ Len(hs) = Len(h) + Len(src)
      /\ \A n \in 1..(Len(h) + Len(src)) : hs[n] = IF n <= Len(h) THEN h[n] ELSE src[n - Len(h)]
  BY <1>3, <1>4, ConcatProperties
<1>7. Len(hs) = 8 /\ hs[7] = src[1] /\ hs[8] = src[2]
  BY <1>3, <1>4, <1>6
<1> HIDE DEF hs
<1>8. \A n \in 1..(Len(hs) + Len(dst)) :
        w[n] = IF n <= Len(hs) THEN hs[n] ELSE dst[n - Len(hs)]
  BY <1>4, <1>6, ConcatProperties
<1> HIDE DEF w
<1>9. Len(hs) + Len(dst) = 10
  BY <1>4, <1>7
<1>10. w[7] = hs[7] /\ w[8] = hs[8] /\ w[9] = dst[1] /\ w[10] = dst[2]
  BY <1>7, <1>8, <1>9
<1> QED
  BY <1>5, <1>7, <1>10 DEF Between, w

(* The four words of the addresses are the addresses. *)
LEMMA AddressesOfHeader ==
  ASSUME NEW words \in Headers, NEW src \in Words \X Words, NEW dst \in Words \X Words,
         Between(words, src, dst)
  PROVE  SubSeq(words, 7, 8) = src /\ SubSeq(words, 9, 10) = dst
<1>1. \A n \in 1..10 : words[n] \in Words
  BY DEF Headers
<1>2. src \in Seq(Words) /\ Len(src) = 2 /\ dst \in Seq(Words) /\ Len(dst) = 2
  <2>1. PICK a \in Words, b \in Words : src = << a, b >>
    OBVIOUS
  <2>2. PICK c \in Words, d \in Words : dst = << c, d >>
    OBVIOUS
  <2> QED
    BY <2>1, <2>2
<1>3. SubSeq(words, 7, 8) = src
  <2>1. \A n \in 7..8 : words[n] \in Words
    BY <1>1
  <2>2. /\ SubSeq(words, 7, 8) \in Seq(Words) /\ Len(SubSeq(words, 7, 8)) = 2
        /\ \A n \in 1..2 : SubSeq(words, 7, 8)[n] = words[7 + n - 1]
    BY <2>1, SubSeqProperties
  <2>3. SubSeq(words, 7, 8)[1] = src[1] /\ SubSeq(words, 7, 8)[2] = src[2]
    BY <2>2 DEF Between
  <2>4. \A n \in 1..Len(SubSeq(words, 7, 8)) : SubSeq(words, 7, 8)[n] = src[n]
    BY <2>2, <2>3
  <2>5. Len(SubSeq(words, 7, 8)) = Len(src)
    BY <1>2, <2>2
  <2> QED
    BY <1>2, <2>2, <2>4, <2>5, SeqEqual, Zenon
<1>4. SubSeq(words, 9, 10) = dst
  <2>1. \A n \in 9..10 : words[n] \in Words
    BY <1>1
  <2>2. /\ SubSeq(words, 9, 10) \in Seq(Words) /\ Len(SubSeq(words, 9, 10)) = 2
        /\ \A n \in 1..2 : SubSeq(words, 9, 10)[n] = words[9 + n - 1]
    BY <2>1, SubSeqProperties
  <2>3. SubSeq(words, 9, 10)[1] = dst[1] /\ SubSeq(words, 9, 10)[2] = dst[2]
    BY <2>2 DEF Between
  <2>4. \A n \in 1..Len(SubSeq(words, 9, 10)) : SubSeq(words, 9, 10)[n] = dst[n]
    BY <2>2, <2>3
  <2>5. Len(SubSeq(words, 9, 10)) = Len(dst)
    BY <1>2, <2>2
  <2> QED
    BY <1>2, <2>2, <2>4, <2>5, SeqEqual, Zenon
<1> QED
  BY <1>3, <1>4

LEMMA LayoutInitially == EncapInit => Layout
  BY DEF EncapInit, Layout

LEMMA EncapsulateKeepsLayout ==
  ASSUME IInv, Layout, NEW packet \in Packets, Encapsulate(packet)
  PROVE  Layout'
<1>1. PICK way : way = Direction(packet)
  OBVIOUS
<1>2. PICK header : header = Checksummed(iph[way], packet.caplen)
  OBVIOUS
<1>3. PICK record : record = Record(packet, header)
  OBVIOUS
<1>4. /\ step = "loop" /\ step' = "loop" /\ conf' = conf
      /\ smac' = FirstSource(packet) /\ i' = i + 1
      /\ iph' = [iph EXCEPT ![way] = header]
      /\ input' = Append(input, packet)
      /\ \/ ~full /\ file' = file \o record /\ full' = full
         \/ ~full /\ (\E n \in 0..5 : file' = file \o SubSeq(record, 1, n)) /\ full' = TRUE
         \/ full /\ file' = file /\ full' = full
  BY <1>1, <1>2, <1>3 DEF Encapsulate
<1>5. packet.caplen \in Nat /\ way \in {"out", "in"}
  BY <1>1, EncapsulateAssumption DEF Packets, Direction
<1>6. /\ iph \in [out : Headers, in : Headers] /\ file \in Seq(Pieces)
      /\ conf.vxlan_port \in Int
  BY <1>4 DEF IInv
<1>7. /\ input \in Seq(Packets) /\ i = Len(input) /\ full \in BOOLEAN
      /\ 1 <= Len(file) /\ Len(file) <= 6 * Len(input) + 1
      /\ full = FALSE => Len(file) = 6 * Len(input) + 1
      /\ file[1].kind = "header"
      /\ Placed(file, input, conf.src_ip, conf.dst_ip)
      /\ conf.src_ip \in Words \X Words /\ conf.dst_ip \in Words \X Words
      /\ Between(iph.out, conf.src_ip, conf.dst_ip)
      /\ Between(iph.in, conf.dst_ip, conf.src_ip)
      /\ i > 0 => smac = input[1].source
  BY <1>4 DEF Layout
<1> DEFINE out == way = "out"
           src == IF out THEN conf.src_ip ELSE conf.dst_ip
           dst == IF out THEN conf.dst_ip ELSE conf.src_ip
<1>8. Between(iph[way], src, dst) /\ iph[way] \in Headers
  BY <1>5, <1>6, <1>7
<1>9. header \in Headers /\ Verifies(header) /\ Between(header, src, dst)
      /\ header[2] = ip_size(packet.caplen)
  <2>1. /\ header \in Headers /\ Verifies(header)
    BY <1>2, <1>5, <1>8, ChecksummedVerifies
  <2>2. header[2] = ip_size(packet.caplen) /\ \A n \in 7..10 : header[n] = iph[way][n]
    BY <1>2, <1>5, <1>8, ChecksummedBetween
  <2> HIDE DEF src, dst
  <2> QED
    BY <1>8, <2>1, <2>2 DEF Between
<1>10. /\ record \in Seq(Pieces) /\ Len(record) = 6
       /\ \A k \in 1..6 : PieceOf(record[k], k, packet, src, dst)
  <2> HIDE DEF src, dst
  <2> QED
    BY <1>3, <1>5, <1>6, <1>9, RecordOfPieces, RecordPieces
<1>11. out \in BOOLEAN /\ (out = TRUE <=> input = << >> \/ packet.source = input[1].source)
  <2>1. CASE i = 0
    <3>1. input \in Seq(Packets) /\ Len(input) = 0
      BY <1>7, <2>1
    <3>2. input = << >>
      BY <3>1, EmptySeq
    <3> QED
      BY <1>1, <2>1, <3>2 DEF Direction, FirstSource
  <2>2. CASE i # 0
    <3>1. input # << >> /\ i > 0
      BY <1>7, <2>2
    <3>2. smac = input[1].source
      BY <1>7, <3>1
    <3> QED
      BY <1>1, <2>2, <3>1, <3>2 DEF Direction, FirstSource
  <2> QED
    BY <2>1, <2>2
<1>12. /\ input' \in Seq(Packets) /\ Len(input') = Len(input) + 1 /\ Len(input) \in Nat
       /\ input'[1] = IF input = << >> THEN packet ELSE input[1]
  BY <1>4, <1>7
(* What is appended to the file. *)
<1>13. ASSUME full = FALSE, NEW t \in Seq(Pieces), Len(t) \in 0..6, file' = file \o t,
              \A k \in 1..Len(t) : PieceOf(t[k], k, packet, src, dst)
       PROVE  /\ Placed(file', input', conf.src_ip, conf.dst_ip)
              /\ Len(file') = Len(file) + Len(t) /\ file'[1] = file[1]
  <2>1. Placed(file \o t, Append(input, packet), conf.src_ip, conf.dst_ip)
    <3> HIDE DEF out
    <3> QED
      BY <1>6, <1>7, <1>11, <1>13, PlacedGrows
  <2>2. /\ Len(file \o t) = Len(file) + Len(t)
        /\ \A j \in 1..(Len(file) + Len(t)) :
             (file \o t)[j] = IF j <= Len(file) THEN file[j] ELSE t[j - Len(file)]
    BY <1>6, ConcatProperties
  <2>3. Len(file) \in Nat /\ 1 \in 1..(Len(file) + Len(t))
    BY <1>6, <1>7, <1>13
  <2>4. (file \o t)[1] = file[1]
    BY <1>7, <2>2, <2>3
  <2> QED
    BY <1>4, <1>13, <2>1, <2>2, <2>4
<1> HIDE DEF src, dst
<1>14. /\ 1 <= Len(file') /\ Len(file') <= 6 * Len(input') + 1
       /\ full' \in BOOLEAN /\ (full' = FALSE => Len(file') = 6 * Len(input') + 1)
       /\ file'[1].kind = "header"
       /\ Placed(file', input', conf.src_ip, conf.dst_ip)
  <2>1. CASE full = FALSE /\ file' = file \o record /\ full' = full
    <3>1. /\ Placed(file', input', conf.src_ip, conf.dst_ip)
          /\ Len(file') = Len(file) + 6 /\ file'[1] = file[1]
      <4>1. Len(record) \in 0..6
        BY <1>10
      <4>2. \A k \in 1..Len(record) : PieceOf(record[k], k, packet, src, dst)
        BY <1>10
      <4> QED
        BY <1>10, <1>13, <2>1, <4>1, <4>2
    <3>2. Len(file) \in Nat /\ Len(file) = 6 * Len(input) + 1
      BY <1>6, <1>7, <2>1
    <3>3. Len(file') = 6 * Len(input') + 1 /\ 1 <= Len(file') /\ Len(file') <= 6 * Len(input') + 1
      BY <1>12, <3>1, <3>2
    <3> QED
      BY <1>7, <2>1, <3>1, <3>3
  <2>2. ASSUME full = FALSE, NEW n \in 0..5, file' = file \o SubSeq(record, 1, n), full' = TRUE
        PROVE  /\ 1 <= Len(file') /\ Len(file') <= 6 * Len(input') + 1
               /\ full' \in BOOLEAN /\ (full' = FALSE => Len(file') = 6 * Len(input') + 1)
               /\ file'[1].kind = "header"
               /\ Placed(file', input', conf.src_ip, conf.dst_ip)
    <3>1. PICK t : t = SubSeq(record, 1, n)
      OBVIOUS
    <3>2. \A k \in 1..6 : record[k] \in Pieces
      BY <1>10, ElementOfSeq, Zenon
    <3>3. n \in Int /\ 1 \in Int /\ \A k \in 1..n : record[k] \in Pieces
      BY <3>2
    <3>4. /\ t \in Seq(Pieces) /\ Len(t) = IF 1 <= n THEN n - 1 + 1 ELSE 0
          /\ \A k \in 1..(n - 1 + 1) : t[k] = record[1 + k - 1]
      BY <3>1, <3>3, SubSeqProperties
    <3>5. Len(t) = n /\ \A k \in 1..n : t[k] = record[k]
      BY <3>4
    <3>6. \A k \in 1..Len(t) : PieceOf(t[k], k, packet, src, dst)
      BY <1>10, <3>5
    <3>7. /\ Placed(file', input', conf.src_ip, conf.dst_ip)
          /\ Len(file') = Len(file) + n /\ file'[1] = file[1]
      <4>1. file' = file \o t
        BY <2>2, <3>1
      <4>2. Len(t) \in 0..6
        BY <3>5
      <4> QED
        BY <1>13, <2>2, <3>4, <3>5, <3>6, <4>1, <4>2
    <3>8. Len(file) \in Nat
      BY <1>6
    <3> QED
      BY <1>7, <1>12, <2>2, <3>7, <3>8
  <2>3. CASE full = TRUE /\ file' = file /\ full' = full
    <3>1. Placed(file', input', conf.src_ip, conf.dst_ip)
      BY <1>4, <1>6, <1>7, <2>3, PlacedStays
    <3>2. Len(file) \in Nat
      BY <1>6
    <3> QED
      BY <1>7, <1>12, <2>3, <3>1, <3>2
  <2> QED
    BY <1>4, <1>7, <2>1, <2>2, <2>3
<1>15. Between(iph'.out, conf.src_ip, conf.dst_ip) /\ Between(iph'.in, conf.dst_ip, conf.src_ip)
  <2>1. CASE way = "out"
    BY <1>4, <1>6, <1>7, <1>9, <2>1 DEF src, dst
  <2>2. CASE way = "in"
    BY <1>4, <1>6, <1>7, <1>9, <2>2 DEF src, dst
  <2> QED
    BY <1>5, <2>1, <2>2
<1>16. smac' = input'[1].source
  <2>1. CASE i = 0
    BY <1>4, <1>7, <1>12, <2>1 DEF FirstSource
  <2>2. CASE i # 0
    BY <1>4, <1>7, <1>12, <2>2 DEF FirstSource
  <2> QED
    BY <2>1, <2>2
<1>17. i' = Len(input')
  BY <1>4, <1>7, <1>12
<1> QED
  BY <1>4, <1>7, <1>12, <1>14, <1>15, <1>16, <1>17 DEF Layout

LEMMA LayoutStep ==
  ASSUME IInv, IInv', Layout, [EncapNext]_encapVars
  PROVE  Layout'
<1>1. CASE UNCHANGED encapVars
  BY <1>1 DEF Layout, encapVars
<1>2. ASSUME NEW rows \in Confs, parse_conf(rows)
      PROVE  Layout'
  <2>1. /\ step = "none" /\ step' \in {"aborted", "headers"}
        /\ UNCHANGED << i, smac, iph, input, file, full >>
    BY <1>2 DEF parse_conf
  <2> QED
    BY <2>1 DEF Layout
<1>3. CASE MakeHeaders
  <2>1. /\ step = "headers" /\ conf' = conf /\ i' = i /\ smac' = smac /\ input' = input /\ full' = full
        /\ iph' = [out |-> IpHeader(conf.src_ip, conf.dst_ip), in |-> IpHeader(conf.dst_ip, conf.src_ip)]
        /\ \/ step' = "loop" /\ file' = << [kind |-> "header", bytes |-> 24] >>
           \/ step' = "aborted" /\ file' = file
    BY <1>3 DEF MakeHeaders
  <2>2. file = << >> /\ input = << >> /\ i = 0 /\ full = FALSE
    BY <2>1 DEF Layout
  <2>3. CASE step' = "aborted" /\ file' = file
    BY <2>1, <2>2, <2>3 DEF Layout
  <2>4. CASE step' = "loop" /\ file' = << [kind |-> "header", bytes |-> 24] >>
    <3>1. conf.src_ip \in Words \X Words /\ conf.dst_ip \in Words \X Words
      BY <2>1 DEF IInv
    <3>2. Between(iph'.out, conf.src_ip, conf.dst_ip) /\ Between(iph'.in, conf.dst_ip, conf.src_ip)
      BY <2>1, <3>1, IpHeaderBetween
    <3>3. Len(file') = 1 /\ file'[1].kind = "header"
      BY <2>4
    <3>4. Len(input') = 0 /\ input' \in Seq(Packets)
      BY <2>1, <2>2
    <3>5. Placed(file', input', conf.src_ip, conf.dst_ip)
      BY <3>4 DEF Placed
    <3> QED
      BY <2>1, <2>2, <2>4, <3>1, <3>2, <3>3, <3>4, <3>5 DEF Layout
  <2> QED
    BY <2>1, <2>3, <2>4
<1>4. ASSUME NEW packet \in Packets, Encapsulate(packet)
      PROVE  Layout'
  BY <1>4, EncapsulateKeepsLayout
<1>5. CASE Close
  <2>1. step = "loop" /\ step' = "done" /\ UNCHANGED << conf, i, smac, iph, input, file, full >>
    BY <1>5 DEF Close
  <2> QED
    BY <2>1 DEF Layout
<1> QED
  BY <1>1, <1>2, <1>3, <1>4, <1>5 DEF EncapNext

(* The place of a record gives the number of its packet. *)
LEMMA PlaceOfPiece ==
  ASSUME NEW n \in Nat, n >= 2
  PROVE  /\ (n + 4) \div 6 \in Nat /\ (n + 4) \div 6 >= 1
         /\ n - (6 * ((n + 4) \div 6) - 5) \in 1..6
  OBVIOUS

(* What the layout says of the record at n. *)
LEMMA RecordPlaced ==
  ASSUME IInv, Layout, NEW n \in RecordsAt
  PROVE  \E m \in 1..Len(input) : \E a, b :
           /\ m = (n + 4) \div 6 /\ n = 6 * m - 4 /\ n \in Nat
           /\ << a, b >> = IF input[m].source = input[1].source THEN << conf.src_ip, conf.dst_ip >>
                           ELSE << conf.dst_ip, conf.src_ip >>
           /\ a \in Words \X Words /\ b \in Words \X Words
           /\ input[m].caplen \in Nat
           /\ full = FALSE => Len(file) >= n + 5
           /\ \A k \in 1..6 : n + k - 1 <= Len(file) => PieceOf(file[n + k - 1], k, input[m], a, b)
<1>1. n \in 1..Len(file) /\ file[n].kind = "record" /\ file \in Seq(Pieces) /\ Len(file) \in Nat
  BY DEF RecordsAt, IInv
<1>2. step \in {"loop", "done"}
  BY <1>1 DEF Layout
<1>3. /\ input \in Seq(Packets) /\ Len(input) \in Nat
      /\ Len(file) <= 6 * Len(input) + 1
      /\ full = FALSE => Len(file) = 6 * Len(input) + 1
      /\ file[1].kind = "header"
      /\ Placed(file, input, conf.src_ip, conf.dst_ip)
      /\ conf.src_ip \in Words \X Words /\ conf.dst_ip \in Words \X Words
  BY <1>2 DEF Layout
<1>4. n # 1 /\ n \in Nat /\ n >= 2
  BY <1>1, <1>3
<1>5. PICK m : m = (n + 4) \div 6
  OBVIOUS
<1>6. PICK j : j = n - (6 * m - 5)
  OBVIOUS
<1>7. m \in Nat /\ m >= 1 /\ j \in 1..6
  BY <1>4, <1>5, <1>6, PlaceOfPiece
<1>8. 6 * m - 5 + j = n
  BY <1>4, <1>6, <1>7
<1>9. m \in 1..Len(input)
  BY <1>1, <1>3, <1>7, <1>8
<1> DEFINE a == IF input[m].source = input[1].source THEN conf.src_ip ELSE conf.dst_ip
           b == IF input[m].source = input[1].source THEN conf.dst_ip ELSE conf.src_ip
<1>10. \A k \in 1..6 : 6 * m - 5 + k <= Len(file) => PieceOf(file[6 * m - 5 + k], k, input[m], a, b)
  BY <1>3, <1>9 DEF Placed
<1>11. a \in Words \X Words /\ b \in Words \X Words
  BY <1>3
<1>12. << a, b >> = IF input[m].source = input[1].source THEN << conf.src_ip, conf.dst_ip >>
                    ELSE << conf.dst_ip, conf.src_ip >>
  OBVIOUS
<1> HIDE DEF a, b
<1>13. PieceOf(file[n], j, input[m], a, b)
  <2>1. 6 * m - 5 + j <= Len(file)
    BY <1>1, <1>8
  <2> QED
    BY <1>7, <1>8, <1>10, <2>1
<1>14. j = 1
  BY <1>1, <1>13 DEF PieceOf
<1>15. n = 6 * m - 4
  BY <1>7, <1>8, <1>14
<1>16. \A k \in 1..6 : n + k - 1 = 6 * m - 5 + k
  BY <1>7, <1>15
<1>17. \A k \in 1..6 : n + k - 1 <= Len(file) => PieceOf(file[n + k - 1], k, input[m], a, b)
  BY <1>10, <1>16
<1>18. full = FALSE => Len(file) >= n + 5
  BY <1>3, <1>9, <1>15
<1>19. input[m].caplen \in Nat
  <2>1. input[m] \in Packets
    BY <1>3, <1>9
  <2> QED
    BY <2>1, EncapsulateAssumption DEF Packets
<1> QED
  BY <1>4, <1>5, <1>9, <1>11, <1>12, <1>15, <1>17, <1>18, <1>19

(* The lengths of a header that does not wrap around. *)
LEMMA SizesMatch ==
  ASSUME NEW caplen \in Nat
  PROVE  /\ caplen + 36 < Word => ip_size(caplen) = caplen + 36
         /\ caplen + 36 >= Word => ip_size(caplen) < caplen + 36
         /\ caplen + 16 < Word => udp_size(caplen) = caplen + 16
  BY DEF ip_size, udp_size, Word

LEMMA LayoutMeans ==
  ASSUME IInv, Layout
  PROVE  RecordsRight
<1> SUFFICES ASSUME NEW n \in RecordsAt
             PROVE  /\ LET number == (n + 4) \div 6
                       IN  \/ full /\ Len(file) < n + 5
                           \/ /\ Len(file) >= n + 5
                              /\ file[n].caplen = file[n+1].bytes + file[n+2].bytes
                                                  + file[n+3].bytes + file[n+4].bytes + file[n+5].bytes
                              /\ file[n+5].bytes = input[number].caplen
                    /\ Len(file) >= n + 3 =>
                         LET ip_len == file[n].caplen - 14
                         IN  /\ ip_len < Word => file[n+2].words[2] = ip_len
                             /\ ip_len >= Word => file[n+2].words[2] < ip_len
                             /\ ip_len - 20 < Word => file[n+3].ulen = ip_len - 20
                    /\ Len(file) >= n + 2 =>
                         LET number == (n + 4) \div 6
                             words == file[n+2].words
                         IN  << SubSeq(words, 7, 8), SubSeq(words, 9, 10) >> =
                               IF input[number].source = input[1].source
                               THEN << conf.src_ip, conf.dst_ip >>
                               ELSE << conf.dst_ip, conf.src_ip >>
  BY Zenon DEF RecordsRight, Framed, LengthsMatch, DirectionsKept
<1>1. PICK m, a, b :
        /\ m \in 1..Len(input) /\ m = (n + 4) \div 6 /\ n = 6 * m - 4 /\ n \in Nat
        /\ << a, b >> = IF input[m].source = input[1].source THEN << conf.src_ip, conf.dst_ip >>
                        ELSE << conf.dst_ip, conf.src_ip >>
        /\ a \in Words \X Words /\ b \in Words \X Words
        /\ input[m].caplen \in Nat
        /\ full = FALSE => Len(file) >= n + 5
        /\ \A k \in 1..6 : n + k - 1 <= Len(file) => PieceOf(file[n + k - 1], k, input[m], a, b)
  BY RecordPlaced, Zenon
<1>2. n \in 1..Len(file) /\ Len(file) \in Nat /\ full \in BOOLEAN
  BY DEF RecordsAt, IInv, Layout
<1> DEFINE p == input[m]
<1>3. /\ PieceOf(file[n], 1, p, a, b)
      /\ n + 1 <= Len(file) => PieceOf(file[n + 1], 2, p, a, b)
      /\ n + 2 <= Len(file) => PieceOf(file[n + 2], 3, p, a, b)
      /\ n + 3 <= Len(file) => PieceOf(file[n + 3], 4, p, a, b)
      /\ n + 4 <= Len(file) => PieceOf(file[n + 4], 5, p, a, b)
      /\ n + 5 <= Len(file) => PieceOf(file[n + 5], 6, p, a, b)
  <2>1. \A k \in 1..6 : n + k - 1 <= Len(file) => PieceOf(file[n + k - 1], k, p, a, b)
    BY <1>1
  <2>2. /\ n + 1 - 1 = n /\ n + 2 - 1 = n + 1 /\ n + 3 - 1 = n + 2 /\ n + 4 - 1 = n + 3
        /\ n + 5 - 1 = n + 4 /\ n + 6 - 1 = n + 5 /\ n <= Len(file)
    BY <1>2
  <2>3. 1 \in 1..6 /\ 2 \in 1..6 /\ 3 \in 1..6 /\ 4 \in 1..6 /\ 5 \in 1..6 /\ 6 \in 1..6
    OBVIOUS
  <2> HIDE DEF p
  <2> QED
    BY <2>1, <2>2, <2>3
<1>4. p.caplen \in Nat
  BY <1>1
<1> HIDE DEF p
<1>5. file[n].caplen = p.caplen + 50
  BY <1>3 DEF PieceOf
<1>6. ASSUME Len(file) >= n + 5
      PROVE  /\ file[n].caplen = file[n+1].bytes + file[n+2].bytes
                                 + file[n+3].bytes + file[n+4].bytes + file[n+5].bytes
             /\ file[n+5].bytes = p.caplen
  <2>1. /\ n + 1 <= Len(file) /\ n + 2 <= Len(file) /\ n + 3 <= Len(file) /\ n + 4 <= Len(file)
        /\ n + 5 <= Len(file)
    BY <1>2, <1>6
  <2>2. /\ file[n+1].bytes = 14 /\ file[n+2].bytes = 20 /\ file[n+3].bytes = 8
        /\ file[n+4].bytes = 8 /\ file[n+5].bytes = p.caplen
    BY <1>3, <2>1 DEF PieceOf
  <2> QED
    BY <1>4, <1>5, <2>2
<1>7. (full = TRUE /\ Len(file) < n + 5) \/ Len(file) >= n + 5
  <2>1. n \in Nat /\ (Len(file) < n + 5 \/ Len(file) >= n + 5)
    BY <1>2
  <2>2. full = FALSE => Len(file) >= n + 5
    BY <1>1
  <2> QED
    BY <1>2, <2>1, <2>2
<1>8. ASSUME Len(file) >= n + 3
      PROVE  LET ip_len == file[n].caplen - 14
             IN  /\ ip_len < Word => file[n+2].words[2] = ip_len
                 /\ ip_len >= Word => file[n+2].words[2] < ip_len
                 /\ ip_len - 20 < Word => file[n+3].ulen = ip_len - 20
  <2>1. n + 2 <= Len(file) /\ n + 3 <= Len(file)
    BY <1>2, <1>8
  <2>2. file[n+2].words[2] = ip_size(p.caplen) /\ file[n+3].ulen = udp_size(p.caplen)
    BY <1>3, <2>1 DEF PieceOf
  <2>3. file[n].caplen - 14 = p.caplen + 36 /\ file[n].caplen - 14 - 20 = p.caplen + 16
    BY <1>4, <1>5
  <2> QED
    BY <1>4, <2>2, <2>3, SizesMatch
<1>9. ASSUME Len(file) >= n + 2
      PROVE  SubSeq(file[n+2].words, 7, 8) = a /\ SubSeq(file[n+2].words, 9, 10) = b
  <2>1. n + 2 <= Len(file)
    BY <1>2, <1>9
  <2>2. file[n+2].words \in Headers /\ Between(file[n+2].words, a, b)
    BY <1>3, <2>1 DEF PieceOf
  <2> QED
    BY <1>1, <2>2, AddressesOfHeader
<1>10. << a, b >> = IF input[(n + 4) \div 6].source = input[1].source
                    THEN << conf.src_ip, conf.dst_ip >> ELSE << conf.dst_ip, conf.src_ip >>
  BY <1>1
<1>11. input[(n + 4) \div 6].caplen = p.caplen
  BY <1>1 DEF p
<1> QED
  BY <1>6, <1>7, <1>8, <1>9, <1>10, <1>11

(* Whatever the captured lengths, and up to the first write that fails, a  *)
(* reader of the output finds each packet in a record as long as it says,  *)
(* with the lengths in its headers right as long as they fit 16 bits and   *)
(* with the addresses of its direction: the loop of main() in pcap2vxlan.c *)
(* keeps the file, the headers used again and the first source in step.    *)
THEOREM RecordsFramed == EncapSpec => []RecordsRight
<1>1. EncapInit => IInv /\ Layout
  BY InitEstablishesIInv, LayoutInitially
<1>2. IInv /\ Layout /\ [EncapNext]_encapVars => IInv' /\ Layout'
  BY NextPreservesIInv, LayoutStep
<1>3. IInv /\ Layout => RecordsRight
  BY LayoutMeans
<1> QED
  BY <1>1, <1>2, <1>3, PTL DEF EncapSpec
=============================================================================
