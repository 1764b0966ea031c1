---------------------------- MODULE Encapsulate -----------------------------
(***************************************************************************)
(* pcap2vxlan: every packet of a capture file is written to another one    *)
(* inside an Ethernet, IPv4, UDP and VXLAN header.                         *)
(*                                                                         *)
(* The output file is the sequence of what fwrite() is given.  A header is *)
(* the fields that depend on the configuration or on the packet; the IPv4  *)
(* header is its ten 16-bit words, since its checksum is computed.         *)
(***************************************************************************)
EXTENDS Integers, Sequences

CONSTANTS
  Confs,      \* bound: the configuration files, sequences of rows [key, value, valid];
              \* a row is valid if its value is an address where the key asks for one
  Sources,    \* bound: the source addresses of packets
  Caplens,    \* bound: the captured lengths
  MaxInput    \* bound: the packets of the capture file

Word == 65536   \* one more than the largest 16-bit number

Words == {n \in Nat : n < Word}

ASSUME EncapsulateAssumption ==
  /\ Caplens \subseteq Nat
  /\ \A rows \in Confs :
       /\ Len(rows) \in Nat
       /\ \A n \in 1..Len(rows) :
            /\ rows[n].key \in {"OUTER_SRC_IP", "OUTER_DST_IP"} => rows[n].value \in Words \X Words
            /\ rows[n].key = "VXLAN_PORT" => rows[n].value \in Int

VARIABLES
  step,      \* "none", "loop", "done" or "aborted"
  conf,      \* the configuration
  i, smac,   \* the number of packets, and the source of the first one
  iph,       \* iph_out and iph_in, which are used again for every packet
  input,     \* the packets that pcap_next() returned
  file,      \* the output file
  full       \* has fwrite() failed?

encapVars == << step, conf, i, smac, iph, input, file, full >>

EncapInit ==
  /\ step = "none" /\ conf = << >> /\ i = 0 /\ smac = "none" /\ iph = << >>
  /\ input = << >> /\ file = << >> /\ full = FALSE

-----------------------------------------------------------------------------
(* The last row with a key counts; without one the field stays zeroed. *)
Value(rows, key, zero) ==
  LET given == {n \in 1..Len(rows) : rows[n].key = key}
  IN  IF given = {} THEN zero ELSE rows[CHOOSE n \in given : \A m \in given : m <= n].value

(* ether_aton() returns the address of its one static result. *)
MacPointer(rows, key) == Value([n \in DOMAIN rows |-> [rows[n] EXCEPT !.value = "static"]], key, "NULL")

(* parse_conf(): an assertion fails if there is no file or for an address  *)
(* that is not one, and ether_ntoa() of main() dereferences the pointers.  *)
parse_conf(rows) ==
  /\ step = "none"
  /\ conf' = [src_mac |-> MacPointer(rows, "OUTER_SRC_MAC"), dst_mac |-> MacPointer(rows, "OUTER_DST_MAC"),
              src_ip |-> Value(rows, "OUTER_SRC_IP", << 0, 0 >>), dst_ip |-> Value(rows, "OUTER_DST_IP", << 0, 0 >>),
              vxlan_port |-> Value(rows, "VXLAN_PORT", 0), vxlan_vni |-> Value(rows, "VXLAN_VNI", 0)]
  /\ \/ step' = "aborted"
     \/ /\ step' = "headers"
        /\ "NULL" \notin {conf'.src_mac, conf'.dst_mac}
        /\ \A n \in 1..Len(rows) : rows[n].valid
  /\ UNCHANGED << i, smac, iph, input, file, full >>

(* An IPv4 header without options, DF set, for UDP. *)
IpHeader(src, dst) == << 17664, 0, 0, 16384, 16401, 0 >> \o src \o dst

(* The headers of both directions, and the file header.  The capture file  *)
(* or the output file may be missing.                                      *)
MakeHeaders ==
  /\ step = "headers"
  /\ iph' = [out |-> IpHeader(conf.src_ip, conf.dst_ip), in |-> IpHeader(conf.dst_ip, conf.src_ip)]
  /\ \/ step' = "loop" /\ file' = << [kind |-> "header", bytes |-> 24] >>
     \/ step' = "aborted" /\ UNCHANGED file
  /\ UNCHANGED << conf, i, smac, input, full >>

-----------------------------------------------------------------------------
(* The sum of the ten words of an IPv4 header. *)
WordSum(w) == w[1] + w[2] + w[3] + w[4] + w[5] + w[6] + w[7] + w[8] + w[9] + w[10]

Folded(s) == (s % Word) + (s \div Word)

(* pkt_checksum() of an IPv4 header. *)
pkt_checksum(words) == (Word - 1) - Folded(Folded(WordSum(words)))

(* Mutant: the UDP header is left out. *)
ip_sizeShort(caplen) == (28 + caplen) % Word

ip_size(caplen) == (36 + caplen) % Word

udp_size(caplen) == (16 + caplen) % Word

(* Mutant: the last packet's checksum is not cleared. *)
ChecksummedAgain(h, caplen) ==
  LET header == [h EXCEPT ![2] = ip_size(caplen)]
  IN  [header EXCEPT ![6] = pkt_checksum(header)]

(* ip_sum is cleared and computed. *)
Checksummed(h, caplen) ==
  LET header == [h EXCEPT ![2] = ip_size(caplen), ![6] = 0]
  IN  [header EXCEPT ![6] = pkt_checksum(header)]

(* The direction is judged by the source of the first packet. *)
FirstSource(packet) == IF i = 0 THEN packet.source ELSE smac

Direction(packet) == IF FirstSource(packet) = packet.source THEN "out" ELSE "in"

(* What is written for a packet.  memcpy() copied the pointers src_mac and *)
(* dst_mac, not the addresses, into the Ethernet headers; the source port  *)
(* is a checksum of the pointer eth_hdr and what lies behind it.           *)
Record(packet, header) ==
  << [kind |-> "record", bytes |-> 16, caplen |-> packet.caplen + 50],
     [kind |-> "ether", bytes |-> 14], [kind |-> "ip", bytes |-> 20, words |-> header],
     [kind |-> "udp", bytes |-> 8, dport |-> conf.vxlan_port % Word, ulen |-> udp_size(packet.caplen)],
     [kind |-> "vxlan", bytes |-> 8], [kind |-> "data", bytes |-> packet.caplen] >>

(* One round of the loop.  The results of fwrite() are not looked at: once *)
(* one fails nothing more reaches the file.                                *)
Encapsulate(packet) ==
  LET way == Direction(packet)
      header == Checksummed(iph[way], packet.caplen)
      record == Record(packet, header)
  IN  /\ step = "loop" /\ i < MaxInput
      /\ smac' = FirstSource(packet) /\ i' = i + 1
      /\ iph' = [iph EXCEPT ![way] = header]
      /\ input' = Append(input, packet)
      /\ \/ ~full /\ file' = file \o record /\ UNCHANGED full
         \/ ~full /\ \E n \in 0..5 : file' = file \o SubSeq(record, 1, n) /\ full' = TRUE
         \/ full /\ UNCHANGED << file, full >>
      /\ UNCHANGED << step, conf >>

(* pcap_next() returns NULL: at the end of the file, or after an error. *)
Close ==
  /\ step = "loop" /\ step' = "done"
  /\ UNCHANGED << conf, i, smac, iph, input, file, full >>

Packets == [source : Sources, caplen : Caplens]

EncapNext ==
  \/ \E rows \in Confs : parse_conf(rows)
  \/ MakeHeaders
  \/ \E packet \in Packets : Encapsulate(packet)
  \/ Close

EncapSpec == EncapInit /\ [][EncapNext]_encapVars

-----------------------------------------------------------------------------
RecordsAt == {n \in 1..Len(file) : file[n].kind = "record"}

(* A reader of the output finds every packet: each record is as long as    *)
(* its header says, and its data is the packet of the same number.  Only   *)
(* the last record can be cut short, by a write that failed.               *)
Framed ==
  \A n \in RecordsAt :
    LET number == (n + 4) \div 6
    IN  \/ full /\ Len(file) < n + 5
        \/ /\ Len(file) >= n + 5
           /\ file[n].caplen = file[n+1].bytes + file[n+2].bytes + file[n+3].bytes + file[n+4].bytes + file[n+5].bytes
           /\ file[n+5].bytes = input[number].caplen

(* The length in an IPv4 header is that of the packet behind the Ethernet  *)
(* header, and the UDP length 20 less, as long as the captured packet      *)
(* leaves room for the headers; beyond that both wrap around.              *)
LengthsMatch ==
  \A n \in RecordsAt : Len(file) >= n + 3 =>
    LET ip_len == file[n].caplen - 14
    IN  /\ ip_len < Word => file[n+2].words[2] = ip_len
        /\ ip_len >= Word => file[n+2].words[2] < ip_len
        /\ ip_len - 20 < Word => file[n+3].ulen = ip_len - 20

(* Every IPv4 header that is written passes its receiver's test: the sum   *)
(* of its words, the checksum included, folds to all ones.  The header is  *)
(* the last packet's with another length.                                  *)
ChecksumVerifies ==
  \A n \in 1..Len(file) :
    file[n].kind = "ip" => Folded(Folded(WordSum(file[n].words))) = Word - 1

(* A packet is sent between the configured hosts, in the direction of all  *)
(* other packets from its source: the first packet's from OUTER_SRC_IP to  *)
(* OUTER_DST_IP, the others' the other way.                                *)
DirectionsKept ==
  \A n \in RecordsAt : Len(file) >= n + 2 =>
    LET number == (n + 4) \div 6
        words == file[n+2].words
    IN  << SubSeq(words, 7, 8), SubSeq(words, 9, 10) >> =
          IF input[number].source = input[1].source THEN << conf.src_ip, conf.dst_ip >>
          ELSE << conf.dst_ip, conf.src_ip >>

(* The records of the encapsulated capture are as long as they say, the    *)
(* lengths in the new headers too, and packets of one source go one way.   *)
RecordsRight == Framed /\ LengthsMatch /\ DirectionsKept
=============================================================================
