---------------------------- MODULE BinkPMail_proofs ----------------------------
(***************************************************************************)
(* Proofs about the mail that BinkP carries, for every set of scenarios:   *)
(* no packet is lost between two systems, network1 is only handed whole    *)
(* files, and a session that nothing disturbs moves all the mail.          *)
(***************************************************************************)
EXTENDS BinkP_proofs

-----------------------------------------------------------------------------
(* Files and the chunks they are sent in.                                  *)

\* The chunk of file F that starts after its first n packets.
Upto(a, b) == IF a < b THEN a ELSE b
Piece(F, n) == SubSeq(F, n + 1, Upto(n + conf.ChunkSize, Len(F)))

\* A prefix, packet by packet.
LEMMA Prefix ==
  ASSUME NEW s \in MailFile, NEW t \in MailFile
  PROVE  IsPrefix(s, t) <=> Len(s) <= Len(t) /\ \A i \in 1..Len(s) : s[i] = t[i]
<1>1. Len(s) \in Nat /\ Len(t) \in Nat /\ s \in Seq(Nat) /\ t \in Seq(Nat)
  BY DEF MailFile
<1>2. ASSUME Len(s) <= Len(t)
      PROVE  SubSeq(s, 1, Len(s)) = SubSeq(t, 1, Len(s)) <=> \A i \in 1..Len(s) : s[i] = t[i]
  <2>1. /\ SubSeq(s, 1, Len(s)) = [i \in 1..Len(s) |-> s[i]]
        /\ SubSeq(t, 1, Len(s)) = [i \in 1..Len(s) |-> t[i]]
    BY <1>1, <1>2
  <2> QED BY <2>1
<1> QED BY <1>2 DEF IsPrefix

LEMMA PrefixFacts ==
  ASSUME NEW s \in MailFile, NEW t \in MailFile
  PROVE  /\ IsPrefix(s, s)
         /\ IsPrefix(s, t) => Range(s) \subseteq Range(t)
         /\ \A u \in MailFile : IsPrefix(s, t) /\ IsPrefix(t, u) => IsPrefix(s, u)
         /\ \A x \in Nat : /\ IsPrefix(s, t) => IsPrefix(s, Append(t, x))
                           /\ Append(t, x) \in MailFile
                           /\ Range(Append(t, x)) = Range(t) \cup {x}
<1>1. Len(s) \in Nat /\ Len(t) \in Nat /\ s \in Seq(Nat) /\ t \in Seq(Nat)
  BY DEF MailFile
<1>2. IsPrefix(s, s)
  BY <1>1, Prefix
<1>3. IsPrefix(s, t) => Range(s) \subseteq Range(t)
  <2> SUFFICES ASSUME IsPrefix(s, t), NEW i \in DOMAIN s
               PROVE  s[i] \in Range(t)
    BY DEF Range
  <2>1. i \in 1..Len(s) /\ i \in 1..Len(t) /\ s[i] = t[i]
    BY <1>1, Prefix
  <2> QED BY <1>1, <2>1 DEF Range
<1>4. ASSUME NEW u \in MailFile, IsPrefix(s, t), IsPrefix(t, u)
      PROVE  IsPrefix(s, u)
  <2>1. Len(u) \in Nat
    BY DEF MailFile
  <2>2. /\ Len(s) <= Len(t) /\ \A i \in 1..Len(s) : s[i] = t[i]
        /\ Len(t) <= Len(u) /\ \A i \in 1..Len(t) : t[i] = u[i]
    BY <1>4, Prefix
  <2>3. Len(s) <= Len(u) /\ \A i \in 1..Len(s) : s[i] = u[i]
    BY <1>1, <2>1, <2>2
  <2> QED BY <2>3, Prefix
<1>5. ASSUME NEW x \in Nat
      PROVE  /\ IsPrefix(s, t) => IsPrefix(s, Append(t, x))
             /\ Append(t, x) \in MailFile
             /\ Range(Append(t, x)) = Range(t) \cup {x}
  <2> DEFINE u == Append(t, x)
  <2>1. /\ u \in MailFile /\ Len(u) = Len(t) + 1 /\ u[Len(t) + 1] = x
        /\ \A i \in 1..Len(t) : u[i] = t[i]
        /\ DOMAIN u = 1..Len(t) + 1 /\ DOMAIN t = 1..Len(t)
    BY <1>1 DEF MailFile
  <2> HIDE DEF u
  <2>2. IsPrefix(s, t) => IsPrefix(s, u)
    <3>1. ASSUME IsPrefix(s, t)
          PROVE  Len(s) <= Len(u) /\ \A i \in 1..Len(s) : s[i] = u[i]
      <4>1. Len(s) <= Len(t) /\ \A i \in 1..Len(s) : s[i] = t[i]
        BY <3>1, Prefix
      <4>2. \A i \in 1..Len(s) : i \in 1..Len(t)
        BY <1>1, <4>1
      <4> QED BY <1>1, <2>1, <4>1, <4>2
    <3> QED BY <2>1, <3>1, Prefix
  <2>3. Range(u) = Range(t) \cup {x}
    <3>1. \A i \in DOMAIN u : (i \in DOMAIN t /\ u[i] = t[i]) \/ u[i] = x
      <4>1. \A i \in 1..Len(t) + 1 : i \in 1..Len(t) \/ i = Len(t) + 1
        BY <1>1
      <4> QED BY <2>1, <4>1
    <3>2. Len(t) + 1 \in DOMAIN u /\ \A i \in DOMAIN t : i \in DOMAIN u /\ u[i] = t[i]
      <4>1. Len(t) + 1 \in 1..Len(t) + 1 /\ \A i \in 1..Len(t) : i \in 1..Len(t) + 1
        BY <1>1
      <4> QED BY <2>1, <4>1
    <3>3. x = u[Len(t) + 1]
      BY <2>1
    <3> QED BY <3>1, <3>2, <3>3 DEF Range
  <2> QED BY <2>1, <2>2, <2>3 DEF u
<1> QED BY <1>2, <1>3, <1>4, <1>5

\* The start of a file and the chunk that follows make a longer start.
LEMMA NextPiece ==
  ASSUME conf.ChunkSize \in Nat \ {0}, NEW F \in MailFile, NEW n \in Nat, n < Len(F)
  PROVE  /\ Piece(F, n) \in MailFile
         /\ Len(Piece(F, n)) = Upto(n + conf.ChunkSize, Len(F)) - n
         /\ Upto(n + conf.ChunkSize, Len(F)) \in n + 1 .. Len(F)
         /\ SubSeq(F, 1, n) \o Piece(F, n) = SubSeq(F, 1, Upto(n + conf.ChunkSize, Len(F)))
<1> DEFINE b == Upto(n + conf.ChunkSize, Len(F))
<1>1. Len(F) \in Nat /\ F \in Seq(Nat) /\ b \in n + 1 .. Len(F) /\ b \in Nat
  BY DEF MailFile, Upto
<1> HIDE DEF b
<1>2. /\ SubSeq(F, n + 1, b) \in Seq(Nat) /\ Len(SubSeq(F, n + 1, b)) = b - n
      /\ \A i \in 1..b - n : SubSeq(F, n + 1, b)[i] = F[n + i]
  <2>1. \A i \in n + 1..b : F[i] \in Nat
    BY <1>1
  <2>2. n + 1 \in Int /\ b \in Int /\ n + 1 <= b
    BY <1>1
  <2>3. /\ SubSeq(F, n + 1, b) \in Seq(Nat) /\ Len(SubSeq(F, n + 1, b)) = b - (n + 1) + 1
        /\ \A i \in 1..b - (n + 1) + 1 : SubSeq(F, n + 1, b)[i] = F[n + 1 + i - 1]
    BY <2>1, <2>2, SubSeqProperties
  <2> QED BY <1>1, <2>3
<1>3. /\ SubSeq(F, 1, n) \in Seq(Nat) /\ Len(SubSeq(F, 1, n)) = n
      /\ \A i \in 1..n : SubSeq(F, 1, n)[i] = F[i]
  BY <1>1
<1>4. /\ SubSeq(F, 1, b) \in Seq(Nat) /\ Len(SubSeq(F, 1, b)) = b
      /\ \A i \in 1..b : SubSeq(F, 1, b)[i] = F[i]
  BY <1>1
<1>5. SubSeq(F, 1, n) \o SubSeq(F, n + 1, b) = SubSeq(F, 1, b)
  <2> DEFINE x == SubSeq(F, 1, n)
             y == SubSeq(F, n + 1, b)
             z == SubSeq(F, 1, b)
  <2>1. /\ x \in Seq(Nat) /\ Len(x) = n /\ \A i \in 1..n : x[i] = F[i]
        /\ y \in Seq(Nat) /\ Len(y) = b - n /\ \A i \in 1..b - n : y[i] = F[n + i]
        /\ z \in Seq(Nat) /\ Len(z) = b /\ \A i \in 1..b : z[i] = F[i]
    BY <1>2, <1>3, <1>4
  <2> HIDE DEF x, y, z
  <2>2. /\ x \o y \in Seq(Nat) /\ Len(x \o y) = n + (b - n)
        /\ \A i \in 1..n + (b - n) : (x \o y)[i] = IF i <= n THEN x[i] ELSE y[i - n]
    BY <2>1
  <2>3. Len(x \o y) = Len(z)
    BY <1>1, <2>1, <2>2
  <2>4. \A i \in 1..Len(z) : (x \o y)[i] = z[i]
    <3> TAKE i \in 1..Len(z)
    <3>1. i \in 1..b /\ i \in 1..n + (b - n) /\ i \in Nat
      BY <1>1, <2>1
    <3>2. CASE i <= n
      <4>1. i \in 1..n
        BY <3>1, <3>2
      <4>2. (x \o y)[i] = x[i] /\ x[i] = F[i] /\ z[i] = F[i]
        BY <2>1, <2>2, <3>1, <3>2, <4>1
      <4> QED BY <4>2
    <3>3. CASE ~(i <= n)
      <4>1. i - n \in 1..b - n /\ n + (i - n) = i
        BY <1>1, <3>1, <3>3
      <4>2. (x \o y)[i] = y[i - n]
        BY <2>2, <3>1, <3>3
      <4>3. y[i - n] = F[n + (i - n)]
        BY <2>1, <4>1
      <4>4. z[i] = F[i]
        BY <2>1, <3>1
      <4> QED BY <4>1, <4>2, <4>3, <4>4
    <3> QED BY <3>2, <3>3
  <2>5. x \o y = z
    BY <2>1, <2>2, <2>3, <2>4, SeqEqual
  <2> QED BY <2>5 DEF x, y, z
<1> QED BY <1>1, <1>2, <1>5 DEF Piece, b, MailFile

-----------------------------------------------------------------------------
(* The mail on its way to side r.                                          *)

Ending == {"idle", "rename", "network", "contact"}
ChunkPcs == {"chunk", "afterData"}

\* Side r still reads frames.
Reading(r) == sess[r].open /\ pc[r] \notin Ending

\* A connection that was closed or broken stays so: nobody sends on it.
OpenInv ==
  \A s \in Sides : ~sess[s].open => pc[s] \in Ending \/ (pc[s] = "tail" /\ sess[s].done)
ResetInv == \A s \in Sides : rst[s] => rst[Peer(s)] \/ ~sess[Peer(s)].open

\* The data frames of channel q are the chunks of file F, in order: off[k]
\* packets of it come before what is carried from frame k on.
Offsets(q) == [1..Len(q) + 1 -> Nat]
Stream(q, F, off) ==
  \A k \in DOMAIN q :
    IF q[k].cmd = "DATA"
      THEN /\ off[k] < Len(F) /\ q[k].data = Piece(F, off[k])
           /\ off[k + 1] = off[k] + conf.ChunkSize
      ELSE off[k + 1] = off[k]
Announced(q, O, off) ==
  \A k \in DOMAIN q : q[k].cmd = "M_FILE" => q[k].size = Len(O) /\ off[k] = 0

\* What process_data has made of the first n packets of F, of which the first
\* Len(O) were announced.  A file that was found on disk is not written to.
Written(file, in, O, F, n) ==
  /\ file.size = Len(O)
  /\ file.open => file.len = n /\ in = SubSeq(F, 1, n) /\ n < Len(O)
  /\ ~file.open => file.len = 0 /\ (in = <<>> => n = 0)

\* The sender has F in its outbound file, and all it has more than was
\* announced is late.
Holds(p, O, F) ==
  sess[p].to_send => /\ IsPrefix(O, out[p]) /\ Range(out[p]) \subseteq Range(O) \cup late[p]
                     /\ pc[p] \in ChunkPcs => IsPrefix(F, out[p])
Sends(p, q, file, F, off) ==
  /\ pc[p] = "afterFile" => /\ ~Has(q, "DATA") /\ (file.on => ~file.open)
                            /\ \A k \in DOMAIN off : off[k] = 0
  /\ pc[p] \in ChunkPcs => /\ Len(F) = sess[p].file_length
                           /\ Connected(p) => off[Len(q) + 1] = sess[p].start

\* Side r is receiving, or about to receive, the announced file O, which is
\* sent as F.
Flow(r, O, F, off) ==
  /\ O # <<>> /\ IsPrefix(O, F)
  /\ Stream(chan[r], F, off) /\ Announced(chan[r], O, off)
  /\ Receiving(sess[r]) => Written(sess[r].current_receive_file, inb[r], O, F, off[1])
  /\ Holds(Peer(r), O, F)
  /\ Sends(Peer(r), chan[r], sess[r].current_receive_file, F, off)
FlowOf(r) ==
  Underway(r) /\ Reading(r) =>
    \E O \in offers[Peer(r)], F \in MailFile, off \in Offsets(chan[r]) : Flow(r, O, F, off)

\* Reading a frame.
Shifted(q, off) == [k \in 1..Len(q) |-> off[k + 1]]
LEMMA StreamTail ==
  ASSUME NEW q \in Seq(Frame), q # <<>>, NEW O, NEW F, NEW off \in Offsets(q),
         conf.ChunkSize \in Nat
  PROVE  /\ Shifted(q, off) \in Offsets(Tail(q))
         /\ Stream(q, F, off) => Stream(Tail(q), F, Shifted(q, off))
         /\ Announced(q, O, off) => Announced(Tail(q), O, Shifted(q, off))
         /\ Shifted(q, off)[1] = off[2] /\ Shifted(q, off)[Len(Tail(q)) + 1] = off[Len(q) + 1]
         /\ \A k \in DOMAIN Shifted(q, off) : \E l \in DOMAIN off : Shifted(q, off)[k] = off[l]
         /\ ~Has(q, "DATA") => ~Has(Tail(q), "DATA")
<1> DEFINE t == Tail(q)
           new == Shifted(q, off)
<1>1. /\ Len(q) \in Nat /\ Len(q) >= 1 /\ Len(t) = Len(q) - 1 /\ t \in Seq(Frame)
      /\ DOMAIN q = 1..Len(q) /\ DOMAIN t = 1..Len(q) - 1
      /\ \A k \in 1..Len(q) - 1 : t[k] = q[k + 1]
  BY HeadTailProperties
<1>2. new \in [1..Len(q) -> Nat] /\ \A k \in 1..Len(q) : new[k] = off[k + 1]
  BY <1>1 DEF Shifted, Offsets
<1>3. new \in Offsets(t)
  BY <1>1, <1>2 DEF Offsets
<1> HIDE DEF new, t
<1>4. \A k \in DOMAIN t : /\ k \in Nat /\ k + 1 \in DOMAIN q /\ t[k] = q[k + 1]
                          /\ new[k] = off[k + 1] /\ new[k + 1] = off[(k + 1) + 1]
  BY <1>1, <1>2
<1>5. Stream(q, F, off) => Stream(t, F, new)
  BY <1>4 DEF Stream
<1>6. Announced(q, O, off) => Announced(t, O, new)
  BY <1>4 DEF Announced
<1>7. new[1] = off[2] /\ new[Len(t) + 1] = off[Len(q) + 1]
  BY <1>1, <1>2
<1>8. \A k \in DOMAIN new : \E l \in DOMAIN off : new[k] = off[l]
  <2>1. DOMAIN new = 1..Len(q) /\ DOMAIN off = 1..Len(q) + 1
    BY <1>2 DEF Offsets
  <2>2. \A k \in 1..Len(q) : k + 1 \in 1..Len(q) + 1
    BY <1>1
  <2> QED BY <1>2, <2>1, <2>2
<1>9. ~Has(q, "DATA") => ~Has(t, "DATA")
  BY <1>4 DEF Has
<1> QED BY <1>3, <1>5, <1>6, <1>7, <1>8, <1>9 DEF new, t

\* Sending frames that are no part of a file.
Plain(fs) == ~Has(fs, "M_FILE") /\ ~Has(fs, "DATA")
Extended(q, fs, off) ==
  [k \in 1..Len(q \o fs) + 1 |-> IF k <= Len(q) THEN off[k] ELSE off[Len(q) + 1]]
LEMMA StreamPlain ==
  ASSUME NEW q \in Seq(Frame), NEW fs \in Seq(Frame), Plain(fs), NEW O, NEW F,
         NEW off \in Offsets(q), conf.ChunkSize \in Nat
  PROVE  /\ Extended(q, fs, off) \in Offsets(q \o fs)
         /\ Stream(q, F, off) => Stream(q \o fs, F, Extended(q, fs, off))
         /\ Announced(q, O, off) => Announced(q \o fs, O, Extended(q, fs, off))
         /\ Extended(q, fs, off)[1] = off[1]
         /\ Extended(q, fs, off)[Len(q \o fs) + 1] = off[Len(q) + 1]
         /\ \A k \in DOMAIN Extended(q, fs, off) :
              \E l \in DOMAIN off : Extended(q, fs, off)[k] = off[l]
         /\ ~Has(q, "DATA") => ~Has(q \o fs, "DATA")
<1> DEFINE t == q \o fs
           new == Extended(q, fs, off)
<1>1. /\ Len(q) \in Nat /\ Len(fs) \in Nat /\ t \in Seq(Frame)
      /\ DOMAIN q = 1..Len(q) /\ DOMAIN fs = 1..Len(fs)
      /\ DOMAIN t = 1..Len(q) + Len(fs) /\ Len(t) = Len(q) + Len(fs)
      /\ \A k \in 1..Len(q) + Len(fs) : t[k] = IF k <= Len(q) THEN q[k] ELSE fs[k - Len(q)]
  OBVIOUS
<1> HIDE DEF t
<1>2. /\ off \in [1..Len(q) + 1 -> Nat] /\ 1 \in 1..Len(q) + 1 /\ Len(q) + 1 \in 1..Len(q) + 1
      /\ \A k \in 1..Len(q) : k \in 1..Len(q) + 1
  BY <1>1 DEF Offsets
<1>3. \A k \in 1..Len(t) + 1 : (IF k <= Len(q) THEN off[k] ELSE off[Len(q) + 1]) \in Nat
  <2>1. \A k \in 1..Len(t) + 1 : k <= Len(q) => k \in 1..Len(q)
    BY <1>1
  <2> QED BY <1>2, <2>1
<1>4. /\ new \in Offsets(t) /\ DOMAIN new = 1..Len(t) + 1
      /\ \A k \in 1..Len(t) + 1 : new[k] = IF k <= Len(q) THEN off[k] ELSE off[Len(q) + 1]
  BY <1>3 DEF Extended, t, Offsets
<1> HIDE DEF new
<1>5. \A k \in DOMAIN q : /\ k \in DOMAIN t /\ t[k] = q[k]
                          /\ new[k] = off[k] /\ new[k + 1] = off[k + 1]
  BY <1>1, <1>4
<1>6. \A k \in DOMAIN t : k \in DOMAIN q \/ /\ t[k].cmd \notin {"DATA", "M_FILE"}
                                            /\ new[k] = off[Len(q) + 1] /\ new[k + 1] = off[Len(q) + 1]
  <2> SUFFICES ASSUME NEW k \in DOMAIN t, k \notin DOMAIN q
               PROVE  /\ t[k].cmd \notin {"DATA", "M_FILE"}
                      /\ new[k] = off[Len(q) + 1] /\ new[k + 1] = off[Len(q) + 1]
    OBVIOUS
  <2>1. k \in Nat /\ ~(k <= Len(q)) /\ k - Len(q) \in 1..Len(fs) /\ k \in 1..Len(t) + 1
        /\ k + 1 \in 1..Len(t) + 1 /\ ~(k + 1 <= Len(q))
    BY <1>1
  <2>2. t[k] = fs[k - Len(q)]
    BY <1>1, <2>1
  <2>3. fs[k - Len(q)].cmd \notin {"DATA", "M_FILE"}
    BY <1>1, <2>1 DEF Plain, Has
  <2> QED BY <1>4, <2>1, <2>2, <2>3
<1>7. Stream(q, F, off) => Stream(t, F, new)
  BY <1>5, <1>6 DEF Stream
<1>8. Announced(q, O, off) => Announced(t, O, new)
  BY <1>5, <1>6 DEF Announced
<1>9. new[1] = off[1] /\ new[Len(t) + 1] = off[Len(q) + 1]
  <2>1. 1 \in 1..Len(t) + 1 /\ Len(t) + 1 \in 1..Len(t) + 1 /\ ~(Len(t) + 1 <= Len(q))
        /\ (1 <= Len(q) \/ Len(q) + 1 = 1)
    BY <1>1
  <2> QED BY <1>4, <2>1
<1>10. \A k \in DOMAIN new : \E l \in DOMAIN off : new[k] = off[l]
  <2>1. \A k \in 1..Len(t) + 1 : k <= Len(q) => k \in 1..Len(q)
    BY <1>1
  <2>2. DOMAIN off = 1..Len(q) + 1
    BY <1>2
  <2> QED BY <1>2, <1>4, <2>1, <2>2
<1>11. ~Has(q, "DATA") => ~Has(t, "DATA")
  BY <1>5, <1>6 DEF Has
<1> QED BY <1>4, <1>7, <1>8, <1>9, <1>10, <1>11 DEF new, t

\* Sending the next chunk.
Lengthened(q, off) ==
  [k \in 1..Len(q) + 2 |-> IF k <= Len(q) + 1 THEN off[k] ELSE off[Len(q) + 1] + conf.ChunkSize]
LEMMA StreamData ==
  ASSUME NEW q \in Seq(Frame), NEW O, NEW F \in MailFile, NEW off \in Offsets(q),
         conf.ChunkSize \in Nat, NEW f \in Frame, f.cmd = "DATA",
         off[Len(q) + 1] < Len(F), f.data = Piece(F, off[Len(q) + 1])
  PROVE  /\ Lengthened(q, off) \in Offsets(q \o <<f>>)
         /\ Stream(q, F, off) => Stream(q \o <<f>>, F, Lengthened(q, off))
         /\ Announced(q, O, off) => Announced(q \o <<f>>, O, Lengthened(q, off))
         /\ Lengthened(q, off)[1] = off[1]
         /\ Lengthened(q, off)[Len(q \o <<f>>) + 1] = off[Len(q) + 1] + conf.ChunkSize
<1> DEFINE t == q \o <<f>>
           new == Lengthened(q, off)
<1>1. /\ Len(q) \in Nat /\ t \in Seq(Frame) /\ DOMAIN q = 1..Len(q)
      /\ DOMAIN t = 1..Len(q) + 1 /\ Len(t) = Len(q) + 1
      /\ t[Len(q) + 1] = f /\ \A k \in 1..Len(q) : t[k] = q[k]
  OBVIOUS
<1> HIDE DEF t
<1>2. off \in [1..Len(q) + 1 -> Nat] /\ Len(q) + 1 \in 1..Len(q) + 1
  BY <1>1 DEF Offsets
<1>3. \A k \in 1..Len(q) + 2 :
        (IF k <= Len(q) + 1 THEN off[k] ELSE off[Len(q) + 1] + conf.ChunkSize) \in Nat
  <2>1. \A k \in 1..Len(q) + 2 : k <= Len(q) + 1 => k \in 1..Len(q) + 1
    BY <1>1
  <2> QED BY <1>2, <2>1
<1>4. /\ new \in [1..Len(q) + 2 -> Nat]
      /\ \A k \in 1..Len(q) + 2 :
           new[k] = IF k <= Len(q) + 1 THEN off[k] ELSE off[Len(q) + 1] + conf.ChunkSize
  BY <1>3 DEF Lengthened
<1>5. new \in Offsets(t)
  <2>1. Len(t) + 1 = Len(q) + 2
    BY <1>1
  <2> QED BY <1>4, <2>1 DEF Offsets
<1> HIDE DEF new
<1>6. \A k \in DOMAIN q : t[k] = q[k] /\ new[k] = off[k] /\ new[k + 1] = off[k + 1]
  BY <1>1, <1>4
<1>7. \A k \in DOMAIN t : k \in DOMAIN q \/ k = Len(q) + 1
  BY <1>1
<1>8. new[Len(q) + 1] = off[Len(q) + 1] /\ new[Len(q) + 1 + 1] = off[Len(q) + 1] + conf.ChunkSize
  BY <1>1, <1>4
<1>9. Stream(q, F, off) => Stream(t, F, new)
  BY <1>1, <1>6, <1>7, <1>8 DEF Stream
<1>10. Announced(q, O, off) => Announced(t, O, new)
  BY <1>1, <1>6, <1>7, <1>8 DEF Announced
<1>11. new[1] = off[1]
  BY <1>1, <1>4
<1> QED BY <1>1, <1>5, <1>8, <1>9, <1>10, <1>11 DEF new, t

\* The outbound file of side p only gets longer, by what is late.
Grown(p) ==
  /\ late[p] \subseteq late'[p]
  /\ out'[p] = out[p] \/ \E x \in Nat : out'[p] = Append(out[p], x) /\ x \in late'[p]

\* A step that does nothing to the file on its way to side r, except that what
\* is lost is lost for good.
SameChannel(r) == chan'[r] = chan[r]
MoreFrames(r) == \E fs \in Seq(Frame) : chan'[r] = chan[r] \o fs /\ Plain(fs)
FrameRead(r) == /\ chan[r] # <<>> /\ chan'[r] = Tail(chan[r])
                /\ Head(chan[r]).cmd # "M_FILE"
                /\ Head(chan[r]).cmd = "DATA" => ~Receiving(sess[r])
Emptied(r) == chan'[r] = <<>> /\ (pc'[Peer(r)] \in ChunkPcs => ~Connected(Peer(r))')
CalmChannel(r) == SameChannel(r) \/ MoreFrames(r) \/ FrameRead(r) \/ Emptied(r)
CalmReader(r) ==
  /\ Receiving(sess'[r]) => Receiving(sess[r])
  /\ Reading(r)' => /\ Reading(r) /\ inb'[r] = inb[r]
                    /\ sess'[r].current_receive_file = sess[r].current_receive_file
CalmSender(p) ==
  /\ offers[p] \subseteq offers'[p]
  /\ sess'[p].to_send => sess[p].to_send /\ Grown(p)
  /\ pc'[p] = "afterFile" => pc[p] = "afterFile"
  /\ pc'[p] \in ChunkPcs => /\ pc[p] \in ChunkPcs /\ (Connected(p)' => Connected(p))
                            /\ sess'[p].file_length = sess[p].file_length
                            /\ sess'[p].start = sess[p].start
Calm(r) == CalmChannel(r) /\ CalmReader(r) /\ CalmSender(Peer(r)) /\ conf' = conf

\* The rest of what is said of side r.
DataOf(r) ==
  /\ Before(Peer(r)) => ~Has(chan[r], "DATA") /\ ~sess[r].received
  /\ sess[r].received => ~Underway(r)
  /\ pc[r] = "chunk" => sess[r].start < sess[r].file_length
  /\ sess[r].to_send => out[r] # <<>>
  /\ sess[r].received /\ pc[r] \notin {"network", "contact"} =>
       \E O \in offers[Peer(r)] : IsPrefix(O, inb[r])
  /\ ~MayReplace /\ Has(chan[Peer(r)], "M_GOT") /\ sess[Peer(r)].to_send =>
       Range(out[Peer(r)]) \subseteq Held(r) \cup late[Peer(r)]

MailOf(r) == FlowOf(r) /\ DataOf(r)
LinkInv == OpenInv /\ ResetInv
MailInv == ~conf.GetChunkFails => \A r \in Sides : MailOf(r)

CalmData(r) ==
  /\ Before(Peer(r))' => Before(Peer(r))
  /\ sess'[r].received =>
       /\ sess[r].received
       /\ pc'[r] \notin {"network", "contact"} =>
            pc[r] \notin {"network", "contact"} /\ inb'[r] = inb[r]
  /\ pc'[r] = "chunk" => sess'[r].start < sess'[r].file_length
  /\ sess'[r].to_send => out'[r] # <<>>
  /\ Has(chan'[Peer(r)], "M_GOT") => Has(chan[Peer(r)], "M_GOT")
  /\ ~MayReplace => Held(r) \subseteq Held(r)'

\* No file begins in such a step.
LEMMA CalmUnderway ==
  ASSUME TypeOK, NEW r \in Sides, Calm(r), Underway(r)'
  PROVE  Underway(r)
<1>1. chan[r] \in Seq(Frame)
  BY DEF TypeOK
<1>2. Has(chan'[r], "M_FILE") => Has(chan[r], "M_FILE")
  <2>1. CASE SameChannel(r)
    BY <2>1 DEF SameChannel
  <2>2. ASSUME NEW fs \in Seq(Frame), chan'[r] = chan[r] \o fs, Plain(fs)
        PROVE  Has(chan'[r], "M_FILE") => Has(chan[r], "M_FILE")
    BY <1>1, <2>2, Added DEF Plain
  <2>3. CASE FrameRead(r)
    BY <1>1, <2>3, TakenOff DEF FrameRead
  <2>4. CASE Emptied(r)
    BY <2>4, ShortOnes DEF Emptied
  <2> QED BY <2>1, <2>2, <2>3, <2>4 DEF Calm, CalmChannel, MoreFrames
<1> QED BY <1>2 DEF Underway, Receiving, Calm, CalmReader

LEMMA HoldsKept ==
  ASSUME TypeOK, TypeOK', NEW p \in Sides, CalmSender(p), NEW O \in MailFile, NEW F \in MailFile,
         Holds(p, O, F)
  PROVE  Holds(p, O, F)'
<1> SUFFICES ASSUME sess'[p].to_send
             PROVE  /\ IsPrefix(O, out'[p]) /\ Range(out'[p]) \subseteq Range(O) \cup late'[p]
                    /\ pc'[p] \in ChunkPcs => IsPrefix(F, out'[p])
  BY DEF Holds
<1>1. /\ IsPrefix(O, out[p]) /\ Range(out[p]) \subseteq Range(O) \cup late[p]
      /\ pc'[p] \in ChunkPcs => IsPrefix(F, out[p])
      /\ Grown(p) /\ out[p] \in MailFile
  BY DEF Holds, CalmSender, TypeOK
<1>2. CASE out'[p] = out[p]
  BY <1>1, <1>2 DEF Grown
<1>3. ASSUME NEW x \in Nat, out'[p] = Append(out[p], x), x \in late'[p]
      PROVE  /\ IsPrefix(O, out'[p]) /\ Range(out'[p]) \subseteq Range(O) \cup late'[p]
             /\ pc'[p] \in ChunkPcs => IsPrefix(F, out'[p])
  <2>1. /\ IsPrefix(O, Append(out[p], x))
        /\ IsPrefix(F, out[p]) => IsPrefix(F, Append(out[p], x))
        /\ Range(Append(out[p], x)) = Range(out[p]) \cup {x}
    BY <1>1, PrefixFacts
  <2> QED BY <1>1, <1>3, <2>1 DEF Grown
<1> QED BY <1>1, <1>2, <1>3 DEF Grown

\* The offsets after such a step.
LEMMA CalmOffsets ==
  ASSUME TypeOK, NEW r \in Sides, CalmChannel(r), conf' = conf,
         NEW O \in MailFile, NEW F \in MailFile, NEW off \in Offsets(chan[r]),
         Stream(chan[r], F, off), Announced(chan[r], O, off)
  PROVE  \E new \in Offsets(chan'[r]) :
           /\ Stream(chan[r], F, new)' /\ Announced(chan[r], O, new)'
           /\ Receiving(sess[r]) => new[1] = off[1]
           /\ Emptied(r) \/ new[Len(chan'[r]) + 1] = off[Len(chan[r]) + 1]
           /\ \A k \in DOMAIN new : \E l \in DOMAIN off : new[k] = off[l]
           /\ ~Has(chan[r], "DATA") => ~Has(chan'[r], "DATA")
<1>1. chan[r] \in Seq(Frame) /\ conf.ChunkSize \in Nat
  BY ConfFields DEF TypeOK
<1>2. CASE SameChannel(r)
  BY <1>2 DEF SameChannel, Stream, Announced, Piece, Offsets
<1>3. ASSUME NEW fs \in Seq(Frame), chan'[r] = chan[r] \o fs, Plain(fs)
      PROVE  \E new \in Offsets(chan'[r]) :
               /\ Stream(chan[r], F, new)' /\ Announced(chan[r], O, new)'
               /\ new[1] = off[1] /\ new[Len(chan'[r]) + 1] = off[Len(chan[r]) + 1]
               /\ \A k \in DOMAIN new : \E l \in DOMAIN off : new[k] = off[l]
               /\ ~Has(chan[r], "DATA") => ~Has(chan'[r], "DATA")
  <2> DEFINE ext == Extended(chan[r], fs, off)
  <2>1. /\ ext \in Offsets(chan[r] \o fs)
        /\ Stream(chan[r] \o fs, F, ext) /\ Announced(chan[r] \o fs, O, ext)
        /\ ext[1] = off[1] /\ ext[Len(chan[r] \o fs) + 1] = off[Len(chan[r]) + 1]
        /\ \A k \in DOMAIN ext : \E l \in DOMAIN off : ext[k] = off[l]
        /\ ~Has(chan[r], "DATA") => ~Has(chan[r] \o fs, "DATA")
    BY <1>1, <1>3, StreamPlain
  <2> HIDE DEF ext
  <2>2. PICK new : new = ext
    OBVIOUS
  <2>3. Stream(chan[r], F, new)' /\ Announced(chan[r], O, new)'
    BY <1>3, <2>1, <2>2 DEF Stream, Announced, Piece
  <2> QED BY <1>3, <2>1, <2>2, <2>3
<1>4. CASE FrameRead(r)
  <2> DEFINE q == chan[r]
             rest == Shifted(q, off)
  <2>1. /\ rest \in Offsets(Tail(q))
        /\ Stream(Tail(q), F, rest) /\ Announced(Tail(q), O, rest)
        /\ rest[1] = off[2] /\ rest[Len(Tail(q)) + 1] = off[Len(q) + 1]
        /\ \A k \in DOMAIN rest : \E l \in DOMAIN off : rest[k] = off[l]
        /\ ~Has(q, "DATA") => ~Has(Tail(q), "DATA")
    BY <1>1, <1>4, StreamTail DEF FrameRead
  <2>2. Receiving(sess[r]) => off[2] = off[1]
    <3>1. 1 \in DOMAIN q /\ Head(q) = q[1] /\ 1 + 1 = 2
      BY <1>1, <1>4 DEF FrameRead
    <3> QED BY <1>4, <3>1 DEF FrameRead, Stream
  <2> HIDE DEF rest
  <2>3. PICK new : new = rest
    OBVIOUS
  <2>4. chan'[r] = Tail(q)
    BY <1>4 DEF FrameRead
  <2>5. Stream(chan[r], F, new)' /\ Announced(chan[r], O, new)'
    BY <2>1, <2>3, <2>4 DEF Stream, Announced, Piece
  <2> QED BY <2>1, <2>2, <2>3, <2>4, <2>5
<1>5. CASE Emptied(r)
  <2> DEFINE new == [k \in 1..1 |-> off[1]]
  <2>1. 1 \in 1..Len(chan[r]) + 1 /\ off \in [1..Len(chan[r]) + 1 -> Nat]
    BY <1>1 DEF Offsets
  <2>2. chan'[r] = <<>> /\ Len(<<>>) = 0 /\ 1..Len(<<>>) + 1 = 1..1
    BY <1>5 DEF Emptied
  <2>3. new \in Offsets(chan'[r])
    BY <2>1, <2>2 DEF Offsets
  <2>4. new[1] = off[1] /\ DOMAIN new = 1..1 /\ DOMAIN off = 1..Len(chan[r]) + 1
    BY <2>1
  <2> HIDE DEF new
  <2>5. Stream(chan[r], F, new)' /\ Announced(chan[r], O, new)'
    BY <2>2 DEF Stream, Announced
  <2>6. \A k \in DOMAIN new : \E l \in DOMAIN off : new[k] = off[l]
    BY <2>1, <2>4
  <2> QED BY <1>5, <2>2, <2>3, <2>4, <2>5, <2>6, ShortOnes
<1> QED BY <1>2, <1>3, <1>4, <1>5 DEF CalmChannel, MoreFrames

LEMMA FlowKept ==
  ASSUME TypeOK, TypeOK', NEW r \in Sides, FlowOf(r), Calm(r)
  PROVE  FlowOf(r)'
<1> DEFINE p == Peer(r)
<1> SUFFICES ASSUME Underway(r)', Reading(r)'
             PROVE  \E O \in offers'[p], F \in MailFile, off \in Offsets(chan'[r]) :
                      Flow(r, O, F, off)'
  BY DEF FlowOf
<1>1. /\ Underway(r) /\ Reading(r) /\ p \in Sides /\ CalmSender(p) /\ CalmChannel(r)
      /\ conf' = conf /\ inb'[r] = inb[r]
      /\ sess'[r].current_receive_file = sess[r].current_receive_file
      /\ Receiving(sess'[r]) = Receiving(sess[r])
  BY CalmUnderway, Peers DEF Calm, CalmReader, Receiving
<1>2. PICK O \in offers[p], F \in MailFile, off \in Offsets(chan[r]) : Flow(r, O, F, off)
  BY <1>1 DEF FlowOf
<1>3. O \in offers'[p] /\ O \in MailFile
  BY <1>1, <1>2 DEF CalmSender, TypeOK
<1>4. PICK new \in Offsets(chan'[r]) :
           /\ Stream(chan[r], F, new)' /\ Announced(chan[r], O, new)'
           /\ Receiving(sess[r]) => new[1] = off[1]
           /\ Emptied(r) \/ new[Len(chan'[r]) + 1] = off[Len(chan[r]) + 1]
           /\ \A k \in DOMAIN new : \E l \in DOMAIN off : new[k] = off[l]
           /\ ~Has(chan[r], "DATA") => ~Has(chan'[r], "DATA")
  BY <1>1, <1>2, <1>3, CalmOffsets DEF Flow
<1>5. Holds(p, O, F)'
  BY <1>1, <1>2, <1>3, HoldsKept DEF Flow
<1> HIDE DEF p
<1>6. Peer(r) = p
  BY DEF p
<1>7. Sends(p, chan[r], sess[r].current_receive_file, F, new)'
  <2>1. Sends(p, chan[r], sess[r].current_receive_file, F, off)
    BY <1>2, <1>6 DEF Flow
  <2>2. pc'[p] = "afterFile" => /\ ~Has(chan'[r], "DATA") /\ \A k \in DOMAIN new : new[k] = 0
                                /\ (sess'[r].current_receive_file.on => ~sess'[r].current_receive_file.open)
    BY <1>1, <1>4, <2>1 DEF CalmSender, Sends
  <2>3. pc'[p] \in ChunkPcs => /\ Len(F) = sess'[p].file_length
                               /\ Connected(p)' => new[Len(chan'[r]) + 1] = sess'[p].start
    BY <1>1, <1>4, <1>6, <2>1 DEF CalmSender, Sends, Emptied
  <2> QED BY <2>2, <2>3 DEF Sends
<1>8. Receiving(sess'[r]) => Written(sess[r].current_receive_file, inb[r], O, F, new[1])'
  BY <1>1, <1>2, <1>4 DEF Flow, Written
<1>9. Flow(r, O, F, new)'
  BY <1>2, <1>4, <1>5, <1>6, <1>7, <1>8 DEF Flow
<1> QED BY <1>3, <1>4, <1>9

LEMMA DataKept ==
  ASSUME TypeOK, TypeOK', NEW r \in Sides, DataOf(r), Calm(r), CalmData(r)
  PROVE  DataOf(r)'
<1> DEFINE p == Peer(r)
<1>1. /\ p \in Sides /\ chan[r] \in Seq(Frame) /\ conf' = conf /\ CalmSender(p)
      /\ MayReplace' = MayReplace
  BY Peers DEF Calm, TypeOK, MayReplace
<1>2. ~Has(chan[r], "DATA") => ~Has(chan'[r], "DATA")
  <2>1. CASE SameChannel(r)
    BY <2>1 DEF SameChannel
  <2>2. ASSUME NEW fs \in Seq(Frame), chan'[r] = chan[r] \o fs, Plain(fs)
        PROVE  ~Has(chan[r], "DATA") => ~Has(chan'[r], "DATA")
    BY <1>1, <2>2, Added DEF Plain
  <2>3. CASE FrameRead(r)
    BY <1>1, <2>3, TakenOff DEF FrameRead
  <2>4. CASE Emptied(r)
    BY <2>4, ShortOnes DEF Emptied
  <2> QED BY <2>1, <2>2, <2>3, <2>4 DEF Calm, CalmChannel, MoreFrames
<1>3. Underway(r)' => Underway(r)
  BY CalmUnderway
<1>4. Before(Peer(r))' => ~Has(chan'[r], "DATA") /\ ~sess'[r].received
  BY <1>2 DEF DataOf, CalmData
<1>5. sess'[r].received => ~Underway(r)'
  BY <1>3 DEF DataOf, CalmData
<1>6. sess'[r].received /\ pc'[r] \notin {"network", "contact"} =>
        \E O \in offers'[p] : IsPrefix(O, inb'[r])
  BY <1>1 DEF DataOf, CalmData, CalmSender
<1>7. ASSUME ~MayReplace', Has(chan'[p], "M_GOT"), sess'[p].to_send
      PROVE  Range(out'[p]) \subseteq Held(r)' \cup late'[p]
  <2>1. /\ Range(out[p]) \subseteq Held(r) \cup late[p] /\ Held(r) \subseteq Held(r)'
        /\ Grown(p) /\ out[p] \in MailFile
    BY <1>1, <1>7 DEF DataOf, CalmData, CalmSender, TypeOK
  <2>2. CASE out'[p] = out[p]
    BY <2>1, <2>2 DEF Grown
  <2>3. ASSUME NEW x \in Nat, out'[p] = Append(out[p], x), x \in late'[p]
        PROVE  Range(out'[p]) \subseteq Held(r)' \cup late'[p]
    <3>1. Range(Append(out[p], x)) = Range(out[p]) \cup {x}
      BY <2>1, PrefixFacts
    <3> QED BY <2>1, <2>3, <3>1 DEF Grown
  <2> QED BY <2>1, <2>2, <2>3 DEF Grown
<1>8. /\ pc'[r] = "chunk" => sess'[r].start < sess'[r].file_length
      /\ sess'[r].to_send => out'[r] # <<>>
  BY DEF CalmData
<1> QED BY <1>4, <1>5, <1>6, <1>7, <1>8 DEF DataOf

\* Side s and the other one.
LEMMA TwoSides ==
  ASSUME NEW s \in Sides
  PROVE  /\ Peer(s) \in Sides /\ Peer(s) # s /\ Peer(Peer(s)) = s
         /\ \A t \in Sides : t = s \/ t = Peer(s)
  BY DEF Sides, Peer

-----------------------------------------------------------------------------
(* The link.                                                               *)

LEMMA LinkKept ==
  ASSUME TypeOK, LinkInv,
         \A t \in Sides :
           /\ ~sess'[t].open => (pc'[t] \in Ending \/ (pc'[t] = "tail" /\ sess'[t].done))
           /\ sess'[t].open => sess[t].open
           /\ rst'[t] => rst[t] \/ ~sess'[Peer(t)].open
           /\ rst[t] => rst'[t]
  PROVE  LinkInv'
<1>1. OpenInv'
  BY DEF OpenInv
<1>2. ResetInv'
  <2> SUFFICES ASSUME NEW t \in Sides, rst'[t], sess'[Peer(t)].open
               PROVE  rst'[Peer(t)]
    BY DEF ResetInv
  <2>1. Peer(t) \in Sides /\ rst[t] /\ sess[Peer(t)].open
    BY TwoSides
  <2> QED BY <2>1 DEF LinkInv, ResetInv
<1> QED BY <1>1, <1>2 DEF LinkInv

-----------------------------------------------------------------------------
(* A step of side s, for the mail to it and for the mail from it.          *)

\* Side p is left alone.
SameSide(p) ==
  /\ pc'[p] = pc[p] /\ state'[p] = state[p] /\ sess'[p] = sess[p]
  /\ out'[p] = out[p] /\ inb'[p] = inb[p] /\ pend'[p] = pend[p] /\ delivered'[p] = delivered[p]
  /\ late'[p] = late[p] /\ offers'[p] = offers[p]

\* What side s has received, and the file it sends, are what they were.
CalmOwner(s) ==
  /\ sess'[s].received =>
       /\ sess[s].received
       /\ pc'[s] \notin {"network", "contact"} =>
            pc[s] \notin {"network", "contact"} /\ inb'[s] = inb[s]
  /\ pc'[s] = "chunk" => sess'[s].start < sess'[s].file_length
  /\ sess'[s].to_send => out'[s] # <<>>
  /\ ~MayReplace => Held(s) \subseteq Held(s)'

NoMoreGot(t) == Has(chan'[t], "M_GOT") => Has(chan[t], "M_GOT")

LEMMA MailToSelf ==
  ASSUME TypeOK, TypeOK', NEW s \in Sides, SameSide(Peer(s)), conf' = conf, MailOf(s),
         CalmChannel(s), CalmReader(s), CalmOwner(s), NoMoreGot(Peer(s)),
         Connected(Peer(s))' => Connected(Peer(s))
  PROVE  MailOf(s)'
<1> DEFINE p == Peer(s)
<1>1. CalmSender(p)
  BY DEF SameSide, CalmSender, Grown
<1>2. Calm(s)
  BY <1>1 DEF Calm
<1>3. Before(p)' => Before(p)
  BY DEF SameSide, Before
<1>4. CalmData(s)
  BY <1>3 DEF CalmData, CalmOwner, NoMoreGot
<1> QED BY <1>2, <1>4, FlowKept, DataKept DEF MailOf

LEMMA MailToPeer ==
  ASSUME TypeOK, TypeOK', NEW s \in Sides, SameSide(Peer(s)), conf' = conf, MailOf(Peer(s)),
         CalmChannel(Peer(s)), CalmSender(s), NoMoreGot(s), Before(s)' => Before(s)
  PROVE  MailOf(Peer(s))'
<1> DEFINE p == Peer(s)
<1>1. p \in Sides /\ Peer(p) = s
  BY TwoSides
<1>2. CalmReader(p)
  BY DEF SameSide, CalmReader, Reading
<1>3. Calm(p)
  BY <1>1, <1>2 DEF Calm
<1>4. Held(p)' = Held(p)
  BY DEF SameSide, Held, Packets
<1>5. CalmData(p)
  BY <1>1, <1>4 DEF CalmData, SameSide, NoMoreGot, MailOf, DataOf
<1> QED BY <1>1, <1>3, <1>5, FlowKept, DataKept DEF MailOf

-----------------------------------------------------------------------------
(* What ordinary steps do to the connection.                               *)

CalmLink(s) ==
  /\ CalmChannel(s) /\ CalmChannel(Peer(s)) /\ NoMoreGot(s) /\ NoMoreGot(Peer(s))
  /\ \A t \in Sides : rst[t] => rst'[t]

LEMMA QuietLink ==
  ASSUME NEW s \in Sides, Quiet
  PROVE  CalmLink(s)
  BY DEF Quiet, CalmLink, CalmChannel, SameChannel, NoMoreGot

LEMMA SendLink ==
  ASSUME TypeOK, NEW s \in Sides, NEW fs \in Seq(Frame), Plain(fs), ~Has(fs, "M_GOT"), Send(s, fs)
  PROVE  CalmLink(s)
<1>1. /\ Peer(s) \in Sides /\ Peer(s) # s /\ chan \in [Sides -> Seq(Frame)]
      /\ rst \in [Sides -> BOOLEAN]
  BY TwoSides DEF TypeOK
<1>2. chan'[s] = chan[s] /\ (chan'[Peer(s)] = chan[Peer(s)] \/ chan'[Peer(s)] = chan[Peer(s)] \o fs)
  BY <1>1 DEF Send
<1>3. NoMoreGot(s) /\ NoMoreGot(Peer(s))
  BY <1>1, <1>2, Added DEF NoMoreGot
<1>4. CalmChannel(s) /\ CalmChannel(Peer(s))
  BY <1>2 DEF CalmChannel, SameChannel, MoreFrames
<1>5. \A t \in Sides : rst[t] => rst'[t]
  BY <1>1 DEF Send
<1> QED BY <1>3, <1>4, <1>5 DEF CalmLink

LEMMA PopLink ==
  ASSUME TypeOK, NEW s \in Sides, chan[s] # <<>>, Pop(s), Head(chan[s]).cmd # "M_FILE",
         Head(chan[s]).cmd = "DATA" => ~Receiving(sess[s])
  PROVE  CalmLink(s)
<1>1. /\ Peer(s) \in Sides /\ Peer(s) # s /\ chan \in [Sides -> Seq(Frame)]
  BY TwoSides DEF TypeOK
<1>2. chan'[s] = Tail(chan[s]) /\ chan'[Peer(s)] = chan[Peer(s)] /\ rst' = rst
  BY <1>1 DEF Pop
<1>3. NoMoreGot(s) /\ NoMoreGot(Peer(s))
  BY <1>1, <1>2, TakenOff DEF NoMoreGot
<1>4. CalmChannel(s) /\ CalmChannel(Peer(s))
  BY <1>2 DEF CalmChannel, SameChannel, FrameRead
<1> QED BY <1>2, <1>3, <1>4 DEF CalmLink

LEMMA CloseLink ==
  ASSUME TypeOK, NEW s \in Sides, Close(s), ~sess'[s].open
  PROVE  CalmLink(s)
<1>1. /\ Peer(s) \in Sides /\ Peer(s) # s /\ chan \in [Sides -> Seq(Frame)]
      /\ rst \in [Sides -> BOOLEAN] /\ Peer(Peer(s)) = s
  BY TwoSides DEF TypeOK
<1>2. chan'[s] = <<>> /\ chan'[Peer(s)] = chan[Peer(s)] /\ \A t \in Sides : rst[t] => rst'[t]
  BY <1>1 DEF Close
<1>3. NoMoreGot(s) /\ NoMoreGot(Peer(s))
  BY <1>1, <1>2, ShortOnes DEF NoMoreGot
<1>4. ~Connected(Peer(s))'
  BY <1>1 DEF Connected
<1>5. CalmChannel(s) /\ CalmChannel(Peer(s))
  BY <1>2, <1>4 DEF CalmChannel, SameChannel, Emptied
<1> QED BY <1>2, <1>3, <1>5 DEF CalmLink

-----------------------------------------------------------------------------
(* What ordinary steps do to a side.                                       *)

\* Members that say the same of the mail.
SameMail(m, n) ==
  /\ n.open => m.open
  /\ n.current_receive_file = m.current_receive_file /\ n.received = m.received
  /\ n.to_send = m.to_send /\ n.file_length = m.file_length /\ n.start = m.start

LEMMA SameMailEdits ==
  ASSUME NEW m \in Members
  PROVE  /\ SameMail(m, m)
         /\ \A b : SameMail(m, [m EXCEPT !.done = b])
         /\ \A b : SameMail(m, [[m EXCEPT !.open = FALSE, !.done = TRUE] EXCEPT !.done = b])
         /\ \A c : SameMail(m, [m EXCEPT !.challenge = c])
  BY DEF Members, SameMail

\* Where side s goes.
CalmPc(s) ==
  /\ pc'[s] # "afterFile" \/ pc[s] = "afterFile"
  /\ pc'[s] \in ChunkPcs => pc[s] \in ChunkPcs
  /\ pc'[s] = "chunk" => sess[s].start < sess[s].file_length
  /\ pc'[s] \notin Ending => pc[s] \notin Ending
  /\ pc'[s] \notin {"network", "contact"} => pc[s] \notin {"network", "contact"}
  /\ Before(s)' => Before(s)

\* Nothing happens to the mail.
LEMMA PlainStep ==
  ASSUME TypeOK, TypeOK', NEW s \in Sides, \A r \in Sides : MailOf(r),
         SameSide(Peer(s)), CalmLink(s), SameMail(sess[s], sess'[s]), CalmPc(s),
         UNCHANGED <<out, inb, pend, delivered, late, offers, conf>>
  PROVE  \A r \in Sides : MailOf(r)'
<1> DEFINE p == Peer(s)
<1>1. p \in Sides /\ Peer(p) = s /\ MailOf(s) /\ MailOf(p) /\ \A t \in Sides : t = s \/ t = p
  BY TwoSides
<1>2. CalmReader(s)
  BY DEF SameMail, CalmPc, CalmReader, Reading, Receiving
<1>3. Held(s)' = Held(s)
  BY DEF Held, Packets
<1>4. CalmOwner(s)
  BY <1>1, <1>3 DEF CalmOwner, SameMail, CalmPc, MailOf, DataOf
<1>5. (Connected(p)' => Connected(p)) /\ (Connected(s)' => Connected(s))
  BY <1>1 DEF Connected, CalmLink, SameMail, SameSide
<1>6. CalmSender(s)
  BY <1>5 DEF CalmSender, SameMail, CalmPc, Grown
<1>7. MailOf(s)'
  BY <1>1, <1>2, <1>4, <1>5, MailToSelf DEF CalmLink
<1>8. MailOf(p)'
  BY <1>1, <1>6, MailToPeer DEF CalmLink, CalmPc
<1> QED BY <1>1, <1>7, <1>8

\* A handler that returns next, where it was early if next is.
LEMMA ReturnMail ==
  ASSUME TypeOK, TypeOK', NEW s \in Sides, \A r \in Sides : MailOf(r),
         NEW next, NEW m, Return(s, next, m), \A b : SameMail(sess[s], [m EXCEPT !.done = b]),
         next \in EarlyStates => Before(s), pc[s] \notin Ending, CalmLink(s),
         UNCHANGED <<disk, ghost, conf>>
  PROVE  \A r \in Sides : MailOf(r)'
<1> DEFINE n == [m EXCEPT !.done = @ \/ m.error_received]
<1>1. /\ sess' = [sess EXCEPT ![s] = n] /\ SameMail(sess[s], n)
      /\ pc' = [pc EXCEPT ![s] = "tail"] /\ state' = [state EXCEPT ![s] = next]
      /\ Peer(s) \in Sides /\ Peer(s) # s
  BY TwoSides DEF Return
<1> HIDE DEF n
<1>2. UNCHANGED <<out, inb, pend, delivered, late, offers, conf>>
  BY DEF disk, ghost
<1>3. SameSide(Peer(s)) /\ sess'[s] = n
  BY <1>1, <1>2 DEF SameSide, TypeOK
<1>4. CalmPc(s)
  BY <1>1 DEF CalmPc, TypeOK, Ending, ChunkPcs, Before
<1> QED BY <1>1, <1>2, <1>3, <1>4, PlainStep

\* A handler that goes on.
LEMMA GoToMail ==
  ASSUME TypeOK, TypeOK', NEW s \in Sides, \A r \in Sides : MailOf(r),
         NEW l, GoTo(s, l), NEW m, sess' = [sess EXCEPT ![s] = m], SameMail(sess[s], m),
         pc[s] \notin Ending, l \notin {"afterFile", "afterData"},
         l = "chunk" => pc[s] \in ChunkPcs /\ sess[s].start < sess[s].file_length,
         l \in {"handler", "WaitConn", "tail"} => Before(s) \/ state[s] \notin EarlyStates,
         l = "WaitConn" => Before(s),
         CalmLink(s), UNCHANGED <<disk, ghost, conf>>
  PROVE  \A r \in Sides : MailOf(r)'
<1>1. /\ pc' = [pc EXCEPT ![s] = l] /\ state' = state /\ Peer(s) \in Sides /\ Peer(s) # s
  BY TwoSides DEF GoTo
<1>2. UNCHANGED <<out, inb, pend, delivered, late, offers, conf>>
  BY DEF disk, ghost
<1>3. SameSide(Peer(s)) /\ sess'[s] = m
  BY <1>1, <1>2 DEF SameSide, TypeOK
<1>4. CalmPc(s)
  BY <1>1 DEF CalmPc, TypeOK, Ending, ChunkPcs, Before
<1> QED BY <1>2, <1>3, <1>4, PlainStep

\* Frames of the session setup.
LEMMA SetupLink ==
  ASSUME TypeOK, NEW s \in Sides, NEW f \in Frame,
         f.cmd \notin {"M_FILE", "DATA", "M_GOT"}, Send(s, <<f>>)
  PROVE  CalmLink(s)
<1>1. <<f>> \in Seq(Frame) /\ Plain(<<f>>) /\ ~Has(<<f>>, "M_GOT")
  BY OneFrame, ShortOnes DEF Plain
<1> QED BY <1>1, SendLink

\* The handlers of the session setup, and the end of a session.
LEMMA HandlersMail ==
  ASSUME TypeOK, TypeOK', NEW s \in Sides, \A r \in Sides : MailOf(r),
         \/ ConnInit(s) \/ WaitConnReturns(s) \/ SendPasswd(s)
         \/ WaitAddr(s) \/ AuthRemote(s) \/ IfSecure(s) \/ WaitOk(s)
         \/ WaitPwd(s) \/ PasswordAck(s)
         \/ TransferFilesReturns(s) \/ WaitEob(s) \/ Unknown(s) \/ Done(s)
  PROVE  \A r \in Sides : MailOf(r)'
<1>1. sess[s] \in Members /\ conf \in Scenarios
  BY DEF TypeOK
<1>2. /\ \A b : SameMail(sess[s], [sess[s] EXCEPT !.done = b])
      /\ \A b : SameMail(sess[s], [[sess[s] EXCEPT !.open = FALSE, !.done = TRUE] EXCEPT !.done = b])
  BY <1>1, SameMailEdits
<1>3. /\ Quiet => CalmLink(s)
      /\ \A c \in {"M_ERR", "M_OK"} : Send(s, <<Cmd(c)>>) => CalmLink(s)
  <2>1. \A c \in {"M_ERR", "M_OK"} : Cmd(c) \in Frame /\ Cmd(c).cmd \notin {"M_FILE", "DATA", "M_GOT"}
    BY Frames DEF Cmd
  <2> QED BY <2>1, SetupLink, QuietLink
<1>4. UNCHANGED <<disk, ghost, conf>> /\ pc[s] \notin Ending
  BY DEF ConnInit, WaitConnReturns, SendPasswd, WaitAddr, AuthRemote, IfSecure, WaitOk, WaitPwd,
         PasswordAck, TransferFilesReturns, WaitEob, Unknown, Done, env, At, Ending
<1>5. CASE ConnInit(s) \/ WaitAddr(s) \/ IfSecure(s) \/ WaitPwd(s) \/ WaitConnReturns(s)
  <2>1. Before(s) /\ Quiet
    BY <1>5 DEF ConnInit, WaitAddr, IfSecure, WaitPwd, WaitConnReturns, At, Before, EarlyStates,
                BinkState
  <2>2. PICK next : Return(s, next, sess[s])
    BY <1>5 DEF ConnInit, WaitAddr, IfSecure, WaitPwd, WaitConnReturns
  <2> QED BY <1>2, <1>3, <1>4, <2>1, <2>2, ReturnMail
<1>6. CASE SendPasswd(s)
  <2> DEFINE w == IF sess[s].auth_type = "CRAM_MD5"
                    THEN CreateHashedSecret(sess[s].challenge, conf.Password[s])
                    ELSE PlainText(conf.Password[s])
             f == [cmd |-> "M_PWD", auth_type |-> sess[s].auth_type, password |-> w]
  <2>1. w \in Passwords
    <3>1. conf.Password[s] \in Secrets
      BY <1>1, SecretsOf
    <3> QED BY <1>1, <3>1, Fields DEF CreateHashedSecret, PlainText, Passwords, Challenges
  <2>2. f \in Frame /\ f.cmd \notin {"M_FILE", "DATA", "M_GOT"}
    BY <1>1, <2>1, Frames, Fields
  <2>3. Send(s, <<f>>) /\ Return(s, "WAIT_ADDR", sess[s]) /\ Before(s)
    BY <1>6 DEF SendPasswd, At, Before, EarlyStates, BinkState
  <2> HIDE DEF f, w
  <2>4. CalmLink(s)
    BY <2>2, <2>3, SetupLink
  <2> QED BY <1>2, <1>4, <2>3, <2>4, ReturnMail
<1>7. CASE AuthRemote(s) \/ WaitOk(s) \/ PasswordAck(s)
  <2>1. Before(s)
    BY <1>7 DEF AuthRemote, WaitOk, PasswordAck, At, Before, EarlyStates, BinkState
  <2>2. PICK next : Return(s, next, sess[s])
    BY <1>7 DEF AuthRemote, WaitOk, PasswordAck
  <2>3. CalmLink(s)
    BY <1>3, <1>7 DEF AuthRemote, WaitOk, PasswordAck
  <2> QED BY <1>2, <1>4, <2>1, <2>2, <2>3, ReturnMail
<1>8. CASE TransferFilesReturns(s) \/ WaitEob(s) \/ Unknown(s)
  <2>1. PICK next \in {"WAIT_EOB", "DONE"} : Return(s, next, sess[s])
    BY <1>8 DEF TransferFilesReturns, WaitEob, Unknown
  <2>2. next \notin EarlyStates /\ Quiet
    BY <1>8 DEF TransferFilesReturns, WaitEob, Unknown, EarlyStates
  <2> QED BY <1>2, <1>3, <1>4, <2>1, <2>2, ReturnMail
<1>9. CASE Done(s)
  <2> DEFINE m == [sess[s] EXCEPT !.open = FALSE, !.done = TRUE]
  <2>1. Return(s, "DONE", m) /\ Close(s)
    BY <1>9 DEF Done
  <2>2. m \in Members /\ ~m.open
    <3>1. m \in Members
      BY <1>1, MembersEdits
    <3>2. ~m.open
      BY <1>1 DEF Members
    <3> QED BY <3>1, <3>2
  <2>3. ~sess'[s].open
    <3>1. sess' = [sess EXCEPT ![s] = [m EXCEPT !.done = @ \/ m.error_received]]
      BY <2>1 DEF Return
    <3> HIDE DEF m
    <3>2. \A b : [m EXCEPT !.done = b].open = m.open
      BY <2>2 DEF Members
    <3> QED BY <2>2, <3>1, <3>2 DEF TypeOK
  <2>4. CalmLink(s)
    BY <2>1, <2>3, CloseLink
  <2>5. "DONE" \notin EarlyStates
    BY DEF EarlyStates
  <2> QED BY <1>2, <1>4, <2>1, <2>4, <2>5, ReturnMail
<1> QED BY <1>5, <1>6, <1>7, <1>8, <1>9

\* The other steps of Run and its handlers that leave the mail alone.
LEMMA InnerMail ==
  ASSUME TypeOK, TypeOK', NEW s \in Sides, \A r \in Sides : MailOf(r),
         \/ WaitConn(s) \/ NothingToSend(s) \/ AfterChunk(s) \/ SendEob(s) \/ LoopEnd(s)
         \/ SocketClosed(s)
  PROVE  \A r \in Sides : MailOf(r)'
<1>1. sess[s] \in Members /\ sess \in [Sides -> Members]
  BY DEF TypeOK
<1>2. SameMail(sess[s], sess[s]) /\ [sess EXCEPT ![s] = sess[s]] = sess
  BY <1>1, SameMailEdits
<1>3. UNCHANGED <<disk, ghost, conf>> /\ pc[s] \notin Ending
  BY DEF WaitConn, NothingToSend, AfterChunk, SendEob, LoopEnd, SocketClosed, InWindow, WindowPcs,
         env, At, Ending
<1>4. CASE WaitConn(s)
  <2>1. Greeting(s) \in Seq(Frame) /\ Plain(Greeting(s)) /\ ~Has(Greeting(s), "M_GOT")
    <3> DEFINE a == Cmd("M_ADR")
               n == [cmd |-> "M_NUL", challenge |-> Challenge]
    <3>1. /\ a \in Frame /\ a.cmd \notin {"M_FILE", "DATA", "M_GOT"}
          /\ n \in Frame /\ n.cmd \notin {"M_FILE", "DATA", "M_GOT"}
      BY Frames DEF Cmd
    <3>2. Greeting(s) = <<a>> \/ Greeting(s) = <<n, a>>
      BY DEF Greeting
    <3> HIDE DEF a, n
    <3>3. CASE Greeting(s) = <<a>>
      BY <3>1, <3>3 DEF Has, Plain
    <3>4. CASE Greeting(s) = <<n, a>>
      BY <3>1, <3>4 DEF Has, Plain
    <3> QED BY <3>2, <3>3, <3>4
  <2>2. CalmLink(s)
    BY <1>4, <2>1, SendLink DEF WaitConn
  <2>3. PICK c : sess' = [sess EXCEPT ![s] = [sess[s] EXCEPT !.challenge = c]]
    BY <1>4 DEF WaitConn
  <2> DEFINE m == [sess[s] EXCEPT !.challenge = c]
  <2>4. SameMail(sess[s], m) /\ sess' = [sess EXCEPT ![s] = m]
    BY <1>1, <2>3, SameMailEdits
  <2>5. PICK l \in {"WaitConn"} : GoTo(s, l) /\ Before(s)
    BY <1>4 DEF WaitConn, At, Before, EarlyStates, BinkState
  <2> HIDE DEF m
  <2> QED BY <1>3, <2>2, <2>4, <2>5, GoToMail
<1>5. CASE NothingToSend(s)
  <2>1. GoTo(s, "flush") /\ sess' = sess /\ Quiet
    BY <1>5 DEF NothingToSend
  <2> QED BY <1>2, <1>3, <2>1, GoToMail, QuietLink
<1>6. CASE AfterChunk(s)
  <2>1. PICK l \in {"chunk", "flush"} : GoTo(s, l) /\ (l = "chunk" => sess[s].start < sess[s].file_length)
    BY <1>6 DEF AfterChunk
  <2>2. pc[s] \in ChunkPcs /\ sess' = sess /\ Quiet
    BY <1>6 DEF AfterChunk, ChunkPcs
  <2> QED BY <1>2, <1>3, <2>1, <2>2, GoToMail, QuietLink
<1>7. CASE SendEob(s)
  <2>1. Cmd("M_EOB") \in Frame /\ Cmd("M_EOB").cmd = "M_EOB"
    BY Frames DEF Cmd
  <2>2. Send(s, <<Cmd("M_EOB")>>) /\ GoTo(s, "afterEob") /\ sess' = sess
    BY <1>7 DEF SendEob
  <2>3. CalmLink(s)
    BY <2>1, <2>2, SetupLink
  <2> QED BY <1>2, <1>3, <2>2, <2>3, GoToMail
<1>8. CASE LoopEnd(s)
  <2>1. PICK l \in {"rename", "handler"} : GoTo(s, l)
    BY <1>8 DEF LoopEnd
  <2>2. (Before(s) \/ state[s] \notin EarlyStates) /\ sess' = sess /\ Quiet
    BY <1>8 DEF LoopEnd, Before
  <2> QED BY <1>2, <1>3, <2>1, <2>2, GoToMail, QuietLink
<1>9. CASE SocketClosed(s)
  <2>1. GoTo(s, "rename") /\ sess' = sess /\ Quiet
    BY <1>9 DEF SocketClosed, GoTo, Quiet
  <2> QED BY <1>2, <1>3, <2>1, GoToMail, QuietLink
<1> QED BY <1>4, <1>5, <1>6, <1>7, <1>8, <1>9

-----------------------------------------------------------------------------
(* The end of a session.                                                   *)

\* What a system has received stays with it: rename_pend and network1 only
\* move it.
LEMMA RenameHolds ==
  ASSUME TypeOK, PendInv, NEW s \in Sides, rename_pending_files(s), ~MayReplace
  PROVE  Held(s) \subseteq Held(s)'
<1>1. /\ delivered' = delivered /\ Packets(pend[s]) \subseteq Packets(pend'[s]) \cup delivered'[s]
      /\ inb[s] \in MailFile /\ pend[s] \in Seq(MailFile)
  BY RenameKeeps DEF rename_pending_files, PendStep, TypeOK
<1>2. CASE UNCHANGED <<pend, inb>>
  BY <1>1, <1>2 DEF Held, Packets
<1>3. CASE pend' = [pend EXCEPT ![s] = Renamed(s)]
  <2>1. pend'[s] = Renamed(s)
    BY <1>3 DEF TypeOK
  <2>2. \E i \in DOMAIN Renamed(s) : Renamed(s)[i] = inb[s]
    <3>1. CASE conf.Posix
      <4>1. 1 \in DOMAIN <<inb[s]>> /\ <<inb[s]>>[1] = inb[s]
        OBVIOUS
      <4> QED BY <3>1, <4>1 DEF Renamed
    <3>2. CASE ~conf.Posix
      <4>1. /\ Len(pend[s]) + 1 \in DOMAIN Append(pend[s], inb[s])
            /\ Append(pend[s], inb[s])[Len(pend[s]) + 1] = inb[s]
        BY <1>1
      <4> QED BY <3>2, <4>1 DEF Renamed
    <3> QED BY <3>1, <3>2
  <2>3. Range(inb[s]) \subseteq Packets(pend'[s])
    BY <2>1, <2>2 DEF Packets
  <2> QED BY <1>1, <2>3 DEF Held, Packets
<1> QED BY <1>2, <1>3 DEF rename_pending_files

LEMMA TossHolds ==
  ASSUME TypeOK, NEW s \in Sides, Network1(s), inb' = inb
  PROVE  Held(s) \subseteq Held(s)'
<1>1. delivered'[s] = delivered[s] \cup Packets(pend[s])
  BY DEF Network1, TypeOK
<1> QED BY <1>1 DEF Held, Packets

\* A step after which side s reads no more frames.
LEMMA EndStep ==
  ASSUME TypeOK, TypeOK', NEW s \in Sides, \A r \in Sides : MailOf(r),
         SameSide(Peer(s)), CalmLink(s), pc'[s] \in Ending, conf' = conf,
         out'[s] = out[s], late'[s] = late[s], offers'[s] = offers[s],
         sess'[s].open => sess[s].open, sess'[s].to_send => sess[s].to_send,
         Receiving(sess'[s]) => Receiving(sess[s]),
         sess'[s].received => sess[s].received /\ pc'[s] \in {"network", "contact"},
         ~MayReplace => Held(s) \subseteq Held(s)'
  PROVE  \A r \in Sides : MailOf(r)'
<1> DEFINE p == Peer(s)
<1>1. p \in Sides /\ Peer(p) = s /\ MailOf(s) /\ MailOf(p) /\ \A t \in Sides : t = s \/ t = p
  BY TwoSides
<1>2. CalmReader(s)
  BY DEF CalmReader, Reading
<1>3. CalmOwner(s)
  BY <1>1 DEF CalmOwner, Ending, MailOf, DataOf
<1>4. Connected(p)' => Connected(p)
  BY <1>1 DEF Connected, CalmLink
<1>5. CalmSender(s) /\ ~Before(s)'
  BY DEF CalmSender, Ending, ChunkPcs, Grown, Before
<1>6. MailOf(s)'
  BY <1>1, <1>2, <1>3, <1>4, MailToSelf DEF CalmLink
<1>7. MailOf(p)'
  BY <1>1, <1>5, MailToPeer DEF CalmLink
<1> QED BY <1>1, <1>6, <1>7

LEMMA ExitMail ==
  ASSUME TypeOK, TypeOK', NEW s \in Sides, \A r \in Sides : MailOf(r),
         Exit(s), UNCHANGED <<disk, ghost, conf>>
  PROVE  \A r \in Sides : MailOf(r)'
<1>1. /\ pc'[s] = "idle" /\ sess'[s] = NewBinkP(FALSE) /\ Close(s)
      /\ UNCHANGED <<out, inb, pend, delivered, late, offers>>
      /\ Peer(s) \in Sides /\ Peer(s) # s
  BY TwoSides DEF Exit, disk, ghost, TypeOK
<1>2. SameSide(Peer(s))
  BY <1>1 DEF Exit, SameSide, TypeOK
<1>3. ~sess'[s].open /\ ~sess'[s].received /\ ~sess'[s].to_send /\ ~Receiving(sess'[s])
  <2>1. ~NewBinkP(FALSE).open /\ ~NewBinkP(FALSE).received
    BY DEF NewBinkP
  <2> QED BY <1>1, <2>1, NewIsIdle
<1>4. CalmLink(s)
  BY <1>1, <1>3, CloseLink
<1>5. Held(s)' = Held(s)
  BY <1>1 DEF Held, Packets
<1> QED BY <1>1, <1>2, <1>3, <1>4, <1>5, EndStep DEF Ending

LEMMA EndMail ==
  ASSUME TypeOK, TypeOK', PendInv, NEW s \in Sides, \A r \in Sides : MailOf(r),
         rename_pending_files(s) \/ process_network_files(s) \/ UpdateContact(s)
  PROVE  \A r \in Sides : MailOf(r)'
<1>1. CASE UpdateContact(s)
  BY <1>1, ExitMail DEF UpdateContact, env
<1>2. CASE rename_pending_files(s) \/ process_network_files(s)
  <2>1. /\ sess' = sess /\ state' = state /\ Quiet /\ out' = out
        /\ late' = late /\ offers' = offers /\ conf' = conf
        /\ Peer(s) \in Sides /\ Peer(s) # s
    BY <1>2, TwoSides DEF rename_pending_files, process_network_files, GoTo, ghost, env
  <2>2. pc'[s] \in {"network", "contact"} /\ pc'[Peer(s)] = pc[Peer(s)]
    BY <1>2, <2>1 DEF rename_pending_files, process_network_files, GoTo, TypeOK
  <2>3. SameSide(Peer(s))
    BY <1>2, <2>1, <2>2
       DEF rename_pending_files, process_network_files, Network1, SameSide, TypeOK
  <2>4. ~MayReplace => Held(s) \subseteq Held(s)'
    <3>1. CASE rename_pending_files(s)
      BY <3>1, RenameHolds
    <3>2. CASE process_network_files(s)
      <4>1. CASE conf.SkipNet
        BY <3>2, <4>1 DEF process_network_files, Held, Packets
      <4>2. CASE ~conf.SkipNet
        BY <3>2, <4>2, TossHolds DEF process_network_files
      <4> QED BY <4>1, <4>2
    <3> QED BY <1>2, <3>1, <3>2
  <2>5. CalmLink(s)
    BY <2>1, QuietLink
  <2> QED BY <2>1, <2>2, <2>3, <2>4, <2>5, EndStep DEF Ending
<1> QED BY <1>1, <1>2

-----------------------------------------------------------------------------
(* Frames that are not of a file.                                          *)

LEMMA CommandMail ==
  ASSUME TypeOK, TypeOK', NEW s \in Sides, \A r \in Sides : MailOf(r),
         ReceiveCommand(s), Head(chan[s]).cmd # "M_FILE"
  PROVE  \A r \in Sides : MailOf(r)'
<1> DEFINE f == Head(chan[s])
           m == Handle(s, f)
<1>1. /\ sess[s] \in Members /\ chan[s] \in Seq(Frame) /\ chan[s] # <<>>
      /\ UNCHANGED <<pc, state, out, inb, pend, delivered, late, offers, conf>>
      /\ Peer(s) \in Sides /\ Peer(s) # s
      /\ sess' = [sess EXCEPT ![s] = m] /\ Pop(s) /\ f.cmd \notin {"M_GOT", "DATA"}
  BY TwoSides DEF TypeOK, ReceiveCommand, disk, ghost, env
<1>2. f.cmd \in {"M_ADR", "M_OK", "M_EOB", "M_ERR", "M_NUL", "M_PWD"}
  <2>1. f \in Frame
    BY <1>1, HeadTailProperties
  <2> QED BY <1>1, <2>1, Carries
<1>3. SameMail(sess[s], m)
  BY <1>1, <1>2 DEF Handle, Members, SameMail
<1> HIDE DEF m
<1>4. sess'[s] = m /\ SameSide(Peer(s))
  BY <1>1 DEF SameSide, TypeOK
<1>5. CalmPc(s)
  <2>1. pc'[s] = "chunk" => FALSE
    BY <1>1 DEF ReceiveCommand, InWindow, WindowPcs
  <2> QED BY <1>1, <2>1 DEF CalmPc, Before
<1>6. CalmLink(s)
  BY <1>1, PopLink
<1> QED BY <1>1, <1>3, <1>4, <1>5, <1>6, PlainStep

LEMMA DropMail ==
  ASSUME TypeOK, TypeOK', NEW s \in Sides, \A r \in Sides : MailOf(r), DropData(s)
  PROVE  \A r \in Sides : MailOf(r)'
<1>1. /\ UNCHANGED <<pc, state, sess, out, inb, pend, delivered, late, offers, conf>>
      /\ chan[s] # <<>> /\ Pop(s) /\ ~Receiving(sess[s]) /\ Head(chan[s]).cmd = "DATA"
      /\ sess[s] \in Members
  BY DEF DropData, disk, ghost, env, Receiving, TypeOK
<1>2. SameSide(Peer(s)) /\ SameMail(sess[s], sess'[s])
  BY <1>1, SameMailEdits DEF SameSide
<1>3. CalmPc(s)
  <2>1. pc'[s] = "chunk" => FALSE
    BY <1>1 DEF DropData, InWindow, WindowPcs
  <2> QED BY <1>1, <2>1 DEF CalmPc, Before
<1>4. CalmLink(s)
  BY <1>1, PopLink
<1> QED BY <1>1, <1>2, <1>3, <1>4, PlainStep

\* M_GOT: the sender has nothing to send any more.
LEMMA GotMail ==
  ASSUME TypeOK, TypeOK', NEW s \in Sides, \A r \in Sides : MailOf(r), HandleFileGotRequest(s)
  PROVE  \A r \in Sides : MailOf(r)'
<1> DEFINE p == Peer(s)
<1>1. /\ UNCHANGED <<pc, state, inb, pend, delivered, late, offers, conf>>
      /\ chan[s] # <<>> /\ Pop(s) /\ Head(chan[s]).cmd = "M_GOT"
      /\ sess[s] \in Members /\ p \in Sides /\ p # s /\ Peer(p) = s
      /\ MailOf(s) /\ MailOf(p) /\ \A t \in Sides : t = s \/ t = p
  BY TwoSides DEF HandleFileGotRequest, ghost, env, TypeOK
<1>2. /\ sess'[p] = sess[p] /\ ~sess'[s].to_send /\ sess'[s].open = sess[s].open
      /\ sess'[s].current_receive_file = sess[s].current_receive_file
      /\ sess'[s].received = sess[s].received
      /\ sess'[s].start = sess[s].start /\ sess'[s].file_length = sess[s].file_length
  BY <1>1 DEF HandleFileGotRequest, TypeOK, Members
<1>3. SameSide(p)
  BY <1>1, <1>2 DEF SameSide, HandleFileGotRequest, TypeOK
<1>4. CalmLink(s)
  BY <1>1, PopLink
<1>5. CalmReader(s)
  BY <1>1, <1>2 DEF CalmReader, Reading, Receiving
<1>6. CalmOwner(s)
  <2>1. Held(s)' = Held(s)
    BY <1>1 DEF Held, Packets
  <2> QED BY <1>1, <1>2, <2>1 DEF CalmOwner, MailOf, DataOf
<1>7. (Connected(p)' => Connected(p)) /\ (Connected(s)' => Connected(s))
  BY <1>1, <1>2, <1>4 DEF Connected, CalmLink
<1>8. CalmSender(s) /\ (Before(s)' => Before(s))
  BY <1>1, <1>2, <1>7 DEF CalmSender, Before
<1>9. MailOf(s)'
  BY <1>1, <1>3, <1>4, <1>5, <1>6, <1>7, MailToSelf DEF CalmLink
<1>10. MailOf(p)'
  BY <1>1, <1>3, <1>4, <1>8, MailToPeer DEF CalmLink
<1> QED BY <1>1, <1>9, <1>10

-----------------------------------------------------------------------------
(* The environment.                                                        *)

\* A new session: nothing is on its way, nothing was received.
LEMMA CallMail ==
  ASSUME TypeOK, Call
  PROVE  \A r \in Sides : MailOf(r)'
<1> SUFFICES ASSUME NEW r \in Sides PROVE MailOf(r)'
  OBVIOUS
<1>1. \A t \in Sides : chan'[t] = <<>> /\ sess'[t] = NewBinkP(TRUE) /\ pc'[t] = "handler"
  BY DEF Call
<1>2. ~NewBinkP(TRUE).received /\ ~NewBinkP(TRUE).to_send /\ ~Receiving(NewBinkP(TRUE))
  <2>1. ~NewBinkP(TRUE).received
    BY DEF NewBinkP
  <2> QED BY <2>1, NewIsIdle
<1>3. ~Underway(r)' /\ Peer(r) \in Sides /\ ~Has(chan'[r], "DATA")
  BY <1>1, <1>2, ShortOnes, TwoSides DEF Underway
<1> QED BY <1>1, <1>2, <1>3 DEF MailOf, FlowOf, DataOf

\* The connection breaks, the reset comes in, network1 runs.
LEMMA AloneMail ==
  ASSUME TypeOK, TypeOK', LinkInv, NEW s \in Sides, \A r \in Sides : MailOf(r),
         Reset \/ ResetArrives(s)
  PROVE  \A r \in Sides : MailOf(r)'
<1> DEFINE p == Peer(s)
<1>1. /\ UNCHANGED <<pc, state, sess, out, inb, pend, delivered, late, offers, conf>>
      /\ sess[s] \in Members /\ p \in Sides /\ p # s /\ Peer(p) = s
  BY TwoSides DEF TypeOK, Reset, ResetArrives, disk, ghost, env
<1>2. SameSide(p) /\ SameMail(sess[s], sess'[s])
  BY <1>1, SameMailEdits DEF SameSide
<1>3. CalmPc(s)
  BY <1>1 DEF CalmPc, Before, MailOf, DataOf
<1>4. CalmLink(s)
  <2>1. CASE Reset
    BY <2>1 DEF Reset, CalmLink, CalmChannel, SameChannel, NoMoreGot
  <2>2. CASE ResetArrives(s)
    <3>1. chan'[s] = <<>> /\ chan'[p] = chan[p] /\ rst' = rst /\ rst[s]
      BY <1>1, <2>2 DEF ResetArrives, TypeOK
    <3>2. pc'[p] \in ChunkPcs => ~Connected(p)'
      <4>1. ~sess[p].open => pc[p] \notin ChunkPcs
        BY <1>1 DEF LinkInv, OpenInv, Ending, ChunkPcs
      <4>2. rst[p] \/ ~sess[p].open
        BY <3>1 DEF LinkInv, ResetInv
      <4> QED BY <1>1, <3>1, <4>1, <4>2 DEF Connected
    <3>3. CalmChannel(s) /\ CalmChannel(p)
      BY <3>1, <3>2 DEF CalmChannel, Emptied, SameChannel
    <3> QED BY <3>1, <3>3, ShortOnes DEF CalmLink, NoMoreGot
  <2> QED BY <2>1, <2>2
<1> QED BY <1>1, <1>2, <1>3, <1>4, PlainStep

\* network1 appends to the outbound file, which is late when it was offered.
LEMMA AppendMail ==
  ASSUME TypeOK, TypeOK', NEW s \in Sides, \A r \in Sides : MailOf(r), network1_appends(s)
  PROVE  \A r \in Sides : MailOf(r)'
<1> DEFINE p == Peer(s)
<1>1. /\ UNCHANGED <<pc, state, sess, chan, rst, inb, pend, delivered, offers, conf>>
      /\ p \in Sides /\ p # s /\ Peer(p) = s
      /\ MailOf(s) /\ MailOf(p) /\ \A t \in Sides : t = s \/ t = p
      /\ posted[s] + 1 \in Nat /\ out[s] \in Seq(Nat)
  BY TwoSides DEF network1_appends, env, TypeOK, MailFile
<1>2. /\ out'[s] = Append(out[s], posted[s] + 1) /\ out'[p] = out[p] /\ late'[p] = late[p]
      /\ late[s] \subseteq late'[s] /\ (sess[s].to_send => posted[s] + 1 \in late'[s])
  BY <1>1 DEF network1_appends, TypeOK
<1>3. SameSide(p) /\ CalmLink(s)
  BY <1>1, <1>2, QuietLink DEF SameSide, Quiet
<1>4. CalmReader(s) /\ CalmOwner(s)
  <2>1. Held(s)' = Held(s)
    BY <1>1 DEF Held, Packets
  <2>2. out'[s] # <<>>
    BY <1>1, <1>2
  <2> QED BY <1>1, <2>1, <2>2 DEF CalmReader, Reading, Receiving, CalmOwner, MailOf, DataOf
<1>5. (Connected(p)' <=> Connected(p)) /\ (Connected(s)' <=> Connected(s))
  BY <1>1 DEF Connected
<1>6. CalmSender(s) /\ (Before(s)' => Before(s))
  BY <1>1, <1>2, <1>5 DEF CalmSender, Before, Grown
<1>7. MailOf(s)'
  BY <1>1, <1>3, <1>4, <1>5, MailToSelf DEF CalmLink
<1>8. MailOf(p)'
  BY <1>1, <1>3, <1>6, MailToPeer DEF CalmLink
<1> QED BY <1>1, <1>7, <1>8

\* network1 takes in the pending files.
LEMMA TossMail ==
  ASSUME TypeOK, TypeOK', NEW s \in Sides, \A r \in Sides : MailOf(r), network1_tosses(s)
  PROVE  \A r \in Sides : MailOf(r)'
<1> DEFINE p == Peer(s)
<1>1. /\ UNCHANGED <<pc, state, sess, chan, rst, out, inb, late, offers, conf>> /\ Network1(s)
      /\ p \in Sides /\ p # s /\ Peer(p) = s
      /\ MailOf(s) /\ MailOf(p) /\ \A t \in Sides : t = s \/ t = p
  BY TwoSides DEF network1_tosses, ghost, env
<1>2. SameSide(p) /\ CalmLink(s)
  BY <1>1, QuietLink DEF SameSide, Quiet, Network1, TypeOK
<1>3. CalmReader(s) /\ CalmOwner(s)
  BY <1>1, TossHolds DEF CalmReader, Reading, Receiving, CalmOwner, MailOf, DataOf
<1>4. (Connected(p)' <=> Connected(p)) /\ (Connected(s)' <=> Connected(s))
  BY <1>1 DEF Connected
<1>5. CalmSender(s) /\ (Before(s)' => Before(s))
  BY <1>1, <1>4 DEF CalmSender, Before, Grown
<1>6. MailOf(s)'
  BY <1>1, <1>2, <1>3, <1>4, MailToSelf DEF CalmLink
<1>7. MailOf(p)'
  BY <1>1, <1>2, <1>5, MailToPeer DEF CalmLink
<1> QED BY <1>1, <1>6, <1>7

-----------------------------------------------------------------------------
(* A file is offered and sent.                                             *)

\* M_FILE: all that is said about the flow is true of the whole file.
LEMMA OfferMail ==
  ASSUME TypeOK, TypeOK', EobInv, NEW s \in Sides, \A r \in Sides : MailOf(r), SendFilePacket(s)
  PROVE  \A r \in Sides : MailOf(r)'
<1> DEFINE p == Peer(s)
           f == [cmd |-> "M_FILE", size |-> Len(out[s])]
<1>1. /\ UNCHANGED <<state, out, inb, pend, delivered, conf>> /\ out[s] # <<>>
      /\ p \in Sides /\ p # s /\ Peer(p) = s /\ Peer(s) = p
      /\ MailOf(s) /\ MailOf(p) /\ EobOf(p) /\ \A t \in Sides : t = s \/ t = p
      /\ out[s] \in MailFile /\ sess[s] \in Members /\ chan[p] \in Seq(Frame)
  BY TwoSides DEF SendFilePacket, GoTo, disk, env, TypeOK, EobInv
<1>2. f \in Frame /\ <<f>> \in Seq(Frame) /\ f.cmd = "M_FILE" /\ f.size = Len(out[s])
  BY <1>1, Frames, OneFrame DEF MailFile
<1>3. Send(s, <<f>>) /\ Before(s) /\ pc[s] = "handler"
  BY DEF SendFilePacket, At, Before, EarlyStates, BinkState
<1> HIDE DEF f
<1>4. /\ pc'[s] = "afterFile" /\ pc'[p] = pc[p] /\ sess'[p] = sess[p]
      /\ sess'[s].to_send /\ sess'[s].open = sess[s].open
      /\ sess'[s].current_receive_file = sess[s].current_receive_file
      /\ sess'[s].received = sess[s].received
      /\ offers'[p] = offers[p] /\ offers'[s] = offers[s] \cup {out[s]}
      /\ late'[p] = late[p]
  BY <1>1 DEF SendFilePacket, GoTo, TypeOK, Members
<1>5. SameSide(p)
  BY <1>1, <1>4 DEF SameSide
<1>6. /\ chan'[s] = chan[s] /\ rst'[p] = rst[p]
      /\ chan'[p] = chan[p] \/ chan'[p] = chan[p] \o <<f>>
  BY <1>1, <1>3 DEF Send, TypeOK
<1>7. \A c : Has(chan'[p], c) => Has(chan[p], c) \/ c = "M_FILE"
  BY <1>1, <1>2, <1>6, Added, ShortOnes
<1>8. MailOf(s)'
  <2>1. CalmReader(s)
    BY <1>1, <1>3, <1>4 DEF CalmReader, Reading, Receiving, Ending
  <2>2. CalmOwner(s)
    <3>1. Held(s)' = Held(s)
      BY <1>1 DEF Held, Packets
    <3> QED BY <1>1, <1>3, <1>4, <3>1 DEF CalmOwner
  <2>3. CalmChannel(s) /\ NoMoreGot(p) /\ (Connected(p)' => Connected(p))
    BY <1>1, <1>4, <1>6, <1>7 DEF CalmChannel, SameChannel, NoMoreGot, Connected
  <2> QED BY <1>1, <1>5, <2>1, <2>2, <2>3, MailToSelf
<1>9. /\ ~Receiving(sess[p]) /\ ~Has(chan[p], "M_FILE") /\ ~Has(chan[p], "DATA")
      /\ ~sess[p].received /\ ~Has(chan[s], "M_GOT")
  BY <1>1, <1>3 DEF EobOf, Underway, Unfinished, MailOf, DataOf
<1>10. DataOf(p)'
  <2>1. ~Before(s)'
    BY <1>4 DEF Before
  <2> QED BY <1>1, <1>4, <1>6, <1>9, <2>1 DEF DataOf, MailOf
<1>11. FlowOf(p)'
  <2>1. PICK F : F = out[s]
    OBVIOUS
  <2>2. PICK q : q = chan'[p]
    OBVIOUS
  <2>3. q \in Seq(Frame) /\ ~Has(q, "DATA")
    BY <1>1, <1>7, <1>9, <2>2 DEF TypeOK
  <2> DEFINE zero == [k \in 1..Len(q) + 1 |-> 0]
  <2>4. zero \in Offsets(q) /\ DOMAIN zero = 1..Len(q) + 1 /\ \A k \in 1..Len(q) + 1 : zero[k] = 0
    BY DEF Offsets
  <2> HIDE DEF zero
  <2>5. \A k \in DOMAIN q : k \in 1..Len(q) + 1 /\ k + 1 \in 1..Len(q) + 1
    <3>1. Len(q) \in Nat /\ DOMAIN q = 1..Len(q)
      BY <2>3
    <3> QED BY <3>1
  <2>6. Stream(q, F, zero)
    BY <2>3, <2>4, <2>5 DEF Stream, Has
  <2>7. Announced(q, F, zero)
    <3>1. \A k \in DOMAIN q : q[k].cmd = "M_FILE" => q[k].size = Len(F)
      <4>1. CASE q = chan[p]
        BY <1>9, <4>1 DEF Has
      <4>2. CASE q = chan[p] \o <<f>>
        <5>1. \A k \in DOMAIN q : (k \in DOMAIN chan[p] /\ q[k] = chan[p][k]) \/ q[k] = f
          BY <1>1, <1>2, <4>2
        <5> QED BY <1>2, <1>9, <2>1, <5>1 DEF Has
      <4> QED BY <1>6, <2>2, <4>1, <4>2
    <3> QED BY <2>4, <2>5, <3>1 DEF Announced
  <2>8. PICK off : off = zero
    OBVIOUS
  <2>9. Stream(chan[p], F, off)' /\ Announced(chan[p], F, off)'
    BY <1>1, <2>2, <2>6, <2>7, <2>8 DEF Stream, Announced, Piece
  <2>10. Holds(s, F, F)'
    <3>1. F \in MailFile /\ IsPrefix(F, F) /\ out'[s] = F
      BY <1>1, <2>1, PrefixFacts
    <3> QED BY <3>1 DEF Holds
  <2>11. Sends(s, chan[p], sess[p].current_receive_file, F, off)'
    BY <1>4, <1>9, <2>2, <2>3, <2>4, <2>8 DEF Sends, Receiving, ChunkPcs
  <2>12. Flow(p, F, F, off)'
    <3>1. IsPrefix(F, F) /\ F # <<>>
      BY <1>1, <2>1, PrefixFacts
    <3> QED BY <1>1, <1>4, <1>9, <2>9, <2>10, <2>11, <3>1 DEF Flow
  <2>13. F \in offers'[s] /\ F \in MailFile /\ off \in Offsets(chan'[p])
    BY <1>1, <1>4, <2>1, <2>2, <2>4, <2>8
  <2> QED BY <1>1, <2>12, <2>13 DEF FlowOf
<1> QED BY <1>1, <1>8, <1>10, <1>11 DEF MailOf

\* SendFileData reads the length of the file: what is sent is the file as it
\* is now.
LEMMA StartMail ==
  ASSUME TypeOK, TypeOK', NEW s \in Sides, \A r \in Sides : MailOf(r), SendFileData(s)
  PROVE  \A r \in Sides : MailOf(r)'
<1> DEFINE p == Peer(s)
<1>1. /\ UNCHANGED <<state, chan, rst, out, inb, pend, delivered, late, offers, conf>>
      /\ UNCHANGED <<disk, ghost, conf>> /\ Quiet /\ pc[s] = "afterFile"
      /\ p \in Sides /\ p # s /\ Peer(p) = s /\ Peer(s) = p
      /\ MailOf(s) /\ MailOf(p) /\ \A t \in Sides : t = s \/ t = p
      /\ out[s] \in MailFile /\ sess[s] \in Members /\ sess \in [Sides -> Members]
  BY TwoSides DEF SendFileData, GoTo, disk, ghost, env, Quiet, TypeOK
<1>2. CASE ~sess[s].to_send
  <2>1. sess' = [sess EXCEPT ![s] = sess[s]] /\ SameMail(sess[s], sess[s])
    BY <1>1, <1>2, SameMailEdits DEF SendFileData
  <2>2. PICK l \in {"flush"} : GoTo(s, l)
    BY <1>2 DEF SendFileData
  <2> QED BY <1>1, <2>1, <2>2, GoToMail, QuietLink DEF Ending
<1>3. CASE sess[s].to_send
  <2>1. /\ pc'[s] = "chunk" /\ pc'[p] = pc[p] /\ sess'[p] = sess[p]
        /\ sess'[s].to_send /\ sess'[s].open = sess[s].open
        /\ sess'[s].current_receive_file = sess[s].current_receive_file
        /\ sess'[s].received = sess[s].received
        /\ sess'[s].file_length = Len(out[s]) /\ sess'[s].start = 0
    <3> DEFINE m == [sess[s] EXCEPT !.file_length = Len(out[s]), !.start = 0]
    <3>1. sess' = [sess EXCEPT ![s] = m] /\ pc' = [pc EXCEPT ![s] = "chunk"]
      BY <1>3 DEF SendFileData, GoTo, FileSize
    <3>2. /\ m.to_send = sess[s].to_send /\ m.open = sess[s].open /\ m.received = sess[s].received
          /\ m.current_receive_file = sess[s].current_receive_file
          /\ m.file_length = Len(out[s]) /\ m.start = 0
      BY <1>1 DEF Members
    <3> HIDE DEF m
    <3> QED BY <1>1, <1>3, <3>1, <3>2 DEF TypeOK
  <2>2. SameSide(p)
    BY <1>1, <2>1 DEF SameSide
  <2>3. MailOf(s)'
    <3>1. CalmReader(s)
      BY <1>1, <2>1 DEF CalmReader, Reading, Receiving, Ending
    <3>2. CalmOwner(s)
      <4>1. Held(s)' = Held(s)
        BY <1>1 DEF Held, Packets
      <4>2. out[s] # <<>> /\ Len(out[s]) > 0
        BY <1>1, <1>3 DEF MailOf, DataOf, MailFile
      <4> QED BY <1>1, <2>1, <4>1, <4>2 DEF CalmOwner
    <3>3. CalmChannel(s) /\ NoMoreGot(p) /\ (Connected(p)' => Connected(p))
      BY <1>1, <2>1 DEF CalmChannel, SameChannel, NoMoreGot, Connected
    <3> QED BY <1>1, <2>2, <3>1, <3>2, <3>3, MailToSelf
  <2>4. DataOf(p)'
    <3>1. ~Before(s)' /\ Held(p)' = Held(p) /\ MayReplace' = MayReplace
          /\ (Underway(p)' <=> Underway(p))
      BY <1>1, <2>1 DEF Before, Held, Packets, MayReplace, Underway
    <3> QED BY <1>1, <1>3, <2>1, <3>1 DEF DataOf, MailOf
  <2>5. FlowOf(p)'
    <3> SUFFICES ASSUME Underway(p)', Reading(p)'
                 PROVE  \E O \in offers'[s], F \in MailFile, off \in Offsets(chan'[p]) :
                          Flow(p, O, F, off)'
      BY <1>1 DEF FlowOf
    <3>1. Underway(p) /\ Reading(p)
      BY <1>1, <2>1 DEF Underway, Reading
    <3>2. PICK O \in offers[s], G \in MailFile, off \in Offsets(chan[p]) : Flow(p, O, G, off)
      BY <1>1, <3>1 DEF MailOf, FlowOf
    <3>3. PICK F : F = out[s]
      OBVIOUS
    <3>4. /\ O # <<>> /\ Stream(chan[p], G, off) /\ Announced(chan[p], O, off)
          /\ Receiving(sess[p]) => Written(sess[p].current_receive_file, inb[p], O, G, off[1])
          /\ Holds(s, O, G) /\ Sends(s, chan[p], sess[p].current_receive_file, G, off)
      BY <1>1, <3>2 DEF Flow
    <3>5. /\ ~Has(chan[p], "DATA") /\ (Receiving(sess[p]) => ~sess[p].current_receive_file.open)
          /\ \A k \in DOMAIN off : off[k] = 0
      BY <1>1, <3>4 DEF Sends, Receiving
    <3>6. IsPrefix(O, F) /\ Range(F) \subseteq Range(O) \cup late[s]
      BY <1>3, <3>3, <3>4 DEF Holds
    <3>7. Stream(chan[p], F, off)' /\ Announced(chan[p], O, off)'
      BY <1>1, <3>4, <3>5 DEF Stream, Announced, Has
    <3>8. Receiving(sess'[p]) => Written(sess[p].current_receive_file, inb[p], O, F, off[1])'
      BY <1>1, <2>1, <3>4, <3>5 DEF Written
    <3>9. Holds(s, O, F)'
      <4>1. IsPrefix(F, F)
        BY <1>1, <3>3, PrefixFacts
      <4> QED BY <1>1, <3>3, <3>6, <4>1 DEF Holds
    <3>10. Sends(s, chan[p], sess[p].current_receive_file, F, off)'
      <4>1. Len(chan[p]) + 1 \in DOMAIN off
        BY <1>1, <3>2 DEF Offsets, TypeOK
      <4> QED BY <1>1, <2>1, <3>3, <3>5, <4>1 DEF Sends
    <3>11. Flow(p, O, F, off)'
      BY <1>1, <3>4, <3>6, <3>7, <3>8, <3>9, <3>10 DEF Flow
    <3> QED BY <1>1, <3>2, <3>3, <3>11
  <2> QED BY <1>1, <2>3, <2>4, <2>5 DEF MailOf
<1> QED BY <1>2, <1>3

\* The next chunk of the file, when its sender still has it, is the next piece
\* of what is being sent.
LEMMA ChunkIsPiece ==
  ASSUME TypeOK, NEW s \in Sides, sess[s].start < sess[s].file_length,
         NEW F \in MailFile, Len(F) = sess[s].file_length, IsPrefix(F, out[s])
  PROVE  SubSeq(out[s], sess[s].start + 1, ChunkEnd(s)) = Piece(F, sess[s].start)
<1> DEFINE a == sess[s].start
           b == ChunkEnd(s)
           g == out[s]
<1>1. /\ a \in Nat /\ Len(F) \in Nat /\ conf.ChunkSize \in Nat \ {0} /\ g \in Seq(Nat)
      /\ F \in Seq(Nat) /\ Len(g) \in Nat /\ g \in MailFile
  <2>1. sess[s] \in Members /\ conf \in Scenarios /\ g \in MailFile
    BY DEF TypeOK
  <2>2. a \in Nat /\ conf.ChunkSize \in Nat \ {0}
    BY <2>1, Fields, ConfFields
  <2> QED BY <2>1, <2>2 DEF MailFile
<1>2. b = Upto(a + conf.ChunkSize, Len(F))
  BY <1>1 DEF ChunkEnd, Upto
<1>3. b \in Nat /\ b <= Len(F) /\ a + 1 <= b
  BY <1>1, <1>2 DEF Upto
<1>4. Len(F) <= Len(g) /\ \A i \in 1..Len(F) : F[i] = g[i]
  BY <1>1, Prefix
<1> HIDE DEF a, b, g
<1>5. \A i \in a + 1..b : i \in 1..Len(F) /\ i \in 1..Len(g)
  BY <1>1, <1>3, <1>4
<1>6. \A i \in a + 1..b : F[i] = g[i] /\ F[i] \in Nat /\ g[i] \in Nat
  <2>1. \A i \in 1..Len(F) : F[i] \in Nat
    BY <1>1
  <2>2. \A i \in 1..Len(g) : g[i] \in Nat
    BY <1>1
  <2> QED BY <1>4, <1>5, <2>1, <2>2
<1> DEFINE x == SubSeq(F, a + 1, b)
           y == SubSeq(g, a + 1, b)
           n == b - (a + 1) + 1
<1>7. /\ x \in Seq(Nat) /\ Len(x) = n /\ \A i \in 1..n : x[i] = F[a + 1 + i - 1]
  <2>1. a + 1 \in Int /\ b \in Int /\ a + 1 <= b
    BY <1>1, <1>3
  <2> QED BY <1>6, <2>1, SubSeqProperties
<1>8. /\ y \in Seq(Nat) /\ Len(y) = n /\ \A i \in 1..n : y[i] = g[a + 1 + i - 1]
  <2>1. a + 1 \in Int /\ b \in Int /\ a + 1 <= b
    BY <1>1, <1>3
  <2> QED BY <1>6, <2>1, SubSeqProperties
<1>9. \A i \in 1..n : a + 1 + i - 1 \in a + 1..b
  BY <1>1, <1>3
<1> HIDE DEF x, y
<1>10. x = y
  <2>1. \A i \in 1..n : x[i] = y[i]
    BY <1>6, <1>7, <1>8, <1>9
  <2> QED BY <1>7, <1>8, <2>1, SeqEqual
<1> QED BY <1>2, <1>10 DEF x, y, Piece, a, b, g

LEMMA ChunkMail ==
  ASSUME TypeInv, TypeOK', EobInv, NEW s \in Sides, \A r \in Sides : MailOf(r),
         GetChunk(s) \/ DanglingChunk(s)
  PROVE  \A r \in Sides : MailOf(r)'
<1> DEFINE p == Peer(s)
<1>1. /\ TypeOK /\ pc[s] = "chunk"
      /\ p \in Sides /\ p # s /\ Peer(p) = s /\ Peer(s) = p
      /\ MailOf(s) /\ MailOf(p) /\ EobOf(p) /\ \A t \in Sides : t = s \/ t = p
      /\ out[s] \in MailFile /\ sess[s] \in Members /\ sess \in [Sides -> Members]
      /\ chan[p] \in Seq(Frame) /\ conf \in Scenarios /\ conf.ChunkSize \in Nat \ {0}
      /\ sess[s].start \in Nat
  BY TwoSides, ConfFields, Fields DEF TypeInv, TypeOK, EobInv, GetChunk, DanglingChunk
<1>2. PICK d \in MailFile : /\ SendChunk(s, d)
                            /\ sess[s].to_send => d = SubSeq(out[s], sess[s].start + 1, ChunkEnd(s))
  BY <1>1, ChunkType DEF GetChunk, DanglingChunk
<1> DEFINE f == [cmd |-> "DATA", data |-> d]
<1>3. f \in Frame /\ <<f>> \in Seq(Frame) /\ f.cmd = "DATA" /\ f.data = d
  BY Frames, OneFrame
<1>4. /\ Send(s, <<f>>) /\ UNCHANGED <<state, out, inb, pend, delivered, late, offers, conf>>
      /\ pc' = [pc EXCEPT ![s] = "afterData"]
  BY <1>2 DEF SendChunk, GoTo, disk, ghost, env
<1>5. /\ pc'[s] = "afterData" /\ pc'[p] = pc[p] /\ sess'[p] = sess[p]
      /\ sess'[s].to_send = sess[s].to_send /\ sess'[s].open = sess[s].open
      /\ sess'[s].current_receive_file = sess[s].current_receive_file
      /\ sess'[s].received = sess[s].received
      /\ sess'[s].file_length = sess[s].file_length
      /\ sess'[s].start = sess[s].start + conf.ChunkSize
  <2> DEFINE m == [sess[s] EXCEPT !.start = @ + conf.ChunkSize]
  <2>1. sess' = [sess EXCEPT ![s] = m]
    BY <1>1, <1>2 DEF SendChunk
  <2>2. /\ m.to_send = sess[s].to_send /\ m.open = sess[s].open /\ m.received = sess[s].received
        /\ m.current_receive_file = sess[s].current_receive_file
        /\ m.file_length = sess[s].file_length /\ m.start = sess[s].start + conf.ChunkSize
    BY <1>1 DEF Members
  <2> HIDE DEF m
  <2> QED BY <1>1, <1>4, <2>1, <2>2 DEF TypeOK
<1> HIDE DEF f
<1>6. SameSide(p)
  BY <1>1, <1>4, <1>5 DEF SameSide
<1>7. /\ chan'[s] = chan[s] /\ rst'[p] = rst[p]
      /\ Connected(s) => chan'[p] = chan[p] \o <<f>>
      /\ ~Connected(s) => chan'[p] = chan[p] /\ rst'[s]
  BY <1>1, <1>4 DEF Send, TypeOK
<1>8. \A c : Has(chan'[p], c) => Has(chan[p], c) \/ c = "DATA"
  BY <1>1, <1>3, <1>7, Added, ShortOnes
<1>9. MailOf(s)'
  <2>1. CalmReader(s)
    BY <1>1, <1>4, <1>5 DEF CalmReader, Reading, Receiving, Ending
  <2>2. CalmOwner(s)
    <3>1. Held(s)' = Held(s)
      BY <1>4 DEF Held, Packets
    <3> QED BY <1>1, <1>4, <1>5, <3>1 DEF CalmOwner, MailOf, DataOf
  <2>3. CalmChannel(s) /\ NoMoreGot(p) /\ (Connected(p)' => Connected(p))
    BY <1>1, <1>5, <1>7, <1>8 DEF CalmChannel, SameChannel, NoMoreGot, Connected
  <2> QED BY <1>1, <1>4, <1>6, <2>1, <2>2, <2>3, MailToSelf
<1>10. Underway(p)' => Underway(p)
  BY <1>5, <1>8 DEF Underway
<1>11. DataOf(p)'
  <2>1. ~Before(s)' /\ Held(p)' = Held(p) /\ MayReplace' = MayReplace
    BY <1>4, <1>5 DEF Before, Held, Packets, MayReplace
  <2> QED BY <1>1, <1>4, <1>5, <1>7, <1>10, <2>1 DEF DataOf, MailOf
<1>12. FlowOf(p)'
  <2> SUFFICES ASSUME Underway(p)', Reading(p)'
               PROVE  \E O \in offers'[s], F \in MailFile, off \in Offsets(chan'[p]) :
                        Flow(p, O, F, off)'
    BY <1>1 DEF FlowOf
  <2>1. Underway(p) /\ Reading(p) /\ sess[s].to_send
    BY <1>1, <1>5, <1>10 DEF Reading, EobOf, Transferring
  <2>2. PICK O \in offers[s], F \in MailFile, off \in Offsets(chan[p]) : Flow(p, O, F, off)
    BY <1>1, <2>1 DEF MailOf, FlowOf
  <2>3. /\ O # <<>> /\ IsPrefix(O, F) /\ Stream(chan[p], F, off) /\ Announced(chan[p], O, off)
        /\ Receiving(sess[p]) => Written(sess[p].current_receive_file, inb[p], O, F, off[1])
        /\ Holds(s, O, F) /\ Sends(s, chan[p], sess[p].current_receive_file, F, off)
    BY <1>1, <2>2 DEF Flow
  <2>4. /\ Len(F) = sess[s].file_length /\ IsPrefix(F, out[s]) /\ sess[s].start < Len(F)
        /\ Connected(s) => off[Len(chan[p]) + 1] = sess[s].start
    BY <1>1, <2>1, <2>3 DEF Sends, Holds, ChunkPcs, MailOf, DataOf
  <2>5. d = Piece(F, sess[s].start)
    BY <1>1, <1>2, <2>1, <2>4, ChunkIsPiece
  <2>6. PICK new : /\ new \in Offsets(chan'[p])
                   /\ Stream(chan'[p], F, new) /\ Announced(chan'[p], O, new)
                   /\ new[1] = off[1]
                   /\ Connected(s) => new[Len(chan'[p]) + 1] = sess[s].start + conf.ChunkSize
    <3>1. CASE Connected(s)
      <4>1. /\ Lengthened(chan[p], off) \in Offsets(chan[p] \o <<f>>)
            /\ Stream(chan[p] \o <<f>>, F, Lengthened(chan[p], off))
            /\ Announced(chan[p] \o <<f>>, O, Lengthened(chan[p], off))
            /\ Lengthened(chan[p], off)[1] = off[1]
            /\ Lengthened(chan[p], off)[Len(chan[p] \o <<f>>) + 1]
                 = off[Len(chan[p]) + 1] + conf.ChunkSize
        <5>1. /\ off[Len(chan[p]) + 1] < Len(F) /\ f.data = Piece(F, off[Len(chan[p]) + 1])
              /\ conf.ChunkSize \in Nat /\ chan[p] \in Seq(Frame)
          BY <1>1, <1>3, <2>4, <2>5, <3>1
        <5> QED BY <1>3, <2>2, <2>3, <5>1, StreamData
      <4> QED BY <1>7, <2>4, <3>1, <4>1
    <3>2. CASE ~Connected(s)
      BY <1>7, <2>2, <2>3, <3>2
    <3> QED BY <3>1, <3>2
  <2>7. Stream(chan[p], F, new)' /\ Announced(chan[p], O, new)'
    BY <1>4, <2>6 DEF Stream, Announced, Piece
  <2>8. Receiving(sess'[p]) => Written(sess[p].current_receive_file, inb[p], O, F, new[1])'
    BY <1>4, <1>5, <2>3, <2>6 DEF Written
  <2>9. Holds(s, O, F)'
    BY <1>4, <1>5, <2>3, <2>4 DEF Holds
  <2>10. Connected(s)' => Connected(s)
    BY <1>1, <1>5, <1>7 DEF Connected
  <2>11. Sends(s, chan[p], sess[p].current_receive_file, F, new)'
    BY <1>5, <2>4, <2>6, <2>10 DEF Sends
  <2>12. Flow(p, O, F, new)'
    BY <1>1, <2>3, <2>7, <2>8, <2>9, <2>11 DEF Flow
  <2> QED BY <1>4, <2>2, <2>6, <2>12
<1> QED BY <1>1, <1>9, <1>11, <1>12 DEF MailOf

-----------------------------------------------------------------------------
(* A file is received.                                                     *)

\* M_FILE is the first thing on the channel: the file starts from nothing.
LEMMA FileMail ==
  ASSUME TypeOK, TypeOK', EobInv, NEW s \in Sides, \A r \in Sides : MailOf(r),
         ReceiveCommand(s), Head(chan[s]).cmd = "M_FILE"
  PROVE  \A r \in Sides : MailOf(r)'
<1> DEFINE p == Peer(s)
           q == chan[s]
           f == Head(q)
           file == [size |-> f.size, len |-> 0, open |-> FALSE, on |-> TRUE]
<1>1. /\ UNCHANGED <<pc, state, rst, out, inb, pend, delivered, late, offers, conf>>
      /\ q # <<>> /\ Pop(s) /\ q \in Seq(Frame) /\ conf.ChunkSize \in Nat
      /\ p \in Sides /\ p # s /\ Peer(p) = s /\ Peer(s) = p
      /\ MailOf(s) /\ MailOf(p) /\ EobOf(s) /\ \A t \in Sides : t = s \/ t = p
      /\ sess[s] \in Members /\ sess \in [Sides -> Members] /\ Reading(s)
  <2>1. Reading(s)
    BY DEF ReceiveCommand, InWindow, WindowPcs, Reading, Ending
  <2>2. conf.ChunkSize \in Nat
    BY ConfFields DEF TypeOK
  <2> QED BY <2>1, <2>2, TwoSides DEF ReceiveCommand, Pop, disk, ghost, env, TypeOK, EobInv
<1>2. chan'[s] = Tail(q) /\ chan'[p] = chan[p] /\ rst' = rst
  BY <1>1 DEF Pop, TypeOK
<1>3. /\ sess'[p] = sess[p] /\ sess'[s].current_receive_file = file
      /\ sess'[s].to_send = sess[s].to_send /\ sess'[s].open = sess[s].open
      /\ sess'[s].received = sess[s].received
      /\ sess'[s].start = sess[s].start /\ sess'[s].file_length = sess[s].file_length
  <2> DEFINE m == [sess[s] EXCEPT !.current_receive_file = file]
  <2>1. sess' = [sess EXCEPT ![s] = m]
    BY DEF ReceiveCommand, Handle
  <2>2. /\ m.to_send = sess[s].to_send /\ m.open = sess[s].open /\ m.received = sess[s].received
        /\ m.current_receive_file = file
        /\ m.file_length = sess[s].file_length /\ m.start = sess[s].start
    BY <1>1 DEF Members
  <2> HIDE DEF m, file
  <2> QED BY <1>1, <2>1, <2>2
<1>4. SameSide(p)
  BY <1>1, <1>3 DEF SameSide
<1>5. MailOf(p)'
  <2>1. CalmChannel(p) /\ NoMoreGot(s)
    BY <1>1, <1>2, TakenOff DEF CalmChannel, SameChannel, NoMoreGot
  <2>2. Connected(s)' <=> Connected(s)
    BY <1>1, <1>3 DEF Connected
  <2>3. CalmSender(s) /\ (Before(s)' => Before(s))
    BY <1>1, <1>3, <2>2 DEF CalmSender, Before, Grown
  <2> QED BY <1>1, <1>4, <2>1, <2>3, MailToPeer
<1>6. Underway(s) /\ ~sess[s].received /\ ~Before(p)
  <2>1. Underway(s)
    BY <1>1, TakenOff DEF Underway
  <2> QED BY <1>1, <2>1 DEF EobOf, MailOf, DataOf
<1>7. DataOf(s)'
  <2>1. ~Before(p)' /\ Held(s)' = Held(s) /\ MayReplace' = MayReplace
    BY <1>1, <1>6 DEF Before, Held, Packets, MayReplace
  <2> QED BY <1>1, <1>2, <1>3, <1>6, <2>1 DEF DataOf, MailOf
<1>8. FlowOf(s)'
  <2>1. PICK O \in offers[p], F \in MailFile, off \in Offsets(q) : Flow(s, O, F, off)
    BY <1>1, <1>6 DEF MailOf, FlowOf
  <2>2. /\ O # <<>> /\ IsPrefix(O, F) /\ Stream(q, F, off) /\ Announced(q, O, off)
        /\ Holds(p, O, F) /\ Sends(p, q, sess[s].current_receive_file, F, off)
    BY <2>1 DEF Flow
  <2>3. 1 \in DOMAIN q /\ q[1] = f /\ 1 + 1 = 2
    BY <1>1
  <2>4. f.size = Len(O) /\ off[1] = 0 /\ off[2] = 0
    BY <2>2, <2>3 DEF Stream, Announced
  <2>5. PICK new : new = Shifted(q, off)
    OBVIOUS
  <2>6. /\ new \in Offsets(Tail(q))
        /\ Stream(Tail(q), F, new) /\ Announced(Tail(q), O, new)
        /\ new[1] = 0 /\ new[Len(Tail(q)) + 1] = off[Len(q) + 1]
        /\ \A k \in DOMAIN new : \E l \in DOMAIN off : new[k] = off[l]
        /\ ~Has(q, "DATA") => ~Has(Tail(q), "DATA")
    BY <1>1, <2>1, <2>2, <2>4, <2>5, StreamTail
  <2>7. Stream(chan[s], F, new)' /\ Announced(chan[s], O, new)'
    BY <1>1, <1>2, <2>6 DEF Stream, Announced, Piece
  <2>8. Written(sess[s].current_receive_file, inb[s], O, F, new[1])'
    BY <1>3, <2>4, <2>6 DEF Written
  <2>9. Holds(p, O, F)'
    BY <1>1, <1>3, <2>2 DEF Holds
  <2>10. Sends(p, chan[s], sess[s].current_receive_file, F, new)'
    <3>1. Connected(p)' <=> Connected(p)
      BY <1>1, <1>3 DEF Connected
    <3> QED BY <1>1, <1>2, <1>3, <2>2, <2>6, <3>1 DEF Sends
  <2>11. Flow(s, O, F, new)'
    BY <1>1, <2>2, <2>7, <2>8, <2>9, <2>10 DEF Flow
  <2>12. O \in offers'[p] /\ new \in Offsets(chan'[s])
    BY <1>1, <1>2, <2>1, <2>6
  <2> QED BY <1>1, <2>1, <2>11, <2>12 DEF FlowOf
<1> QED BY <1>1, <1>5, <1>7, <1>8 DEF MailOf

\* What process_data makes of a chunk: b packets of F are on disk.
LEMMA Arrived ==
  ASSUME TypeOK, NEW file \in [size : Nat, len : Nat, open : BOOLEAN, on : BOOLEAN],
         NEW in \in MailFile, NEW O \in MailFile, NEW F \in MailFile, NEW n \in Nat,
         O # <<>>, IsPrefix(O, F), n < Len(F), Written(file, in, O, F, n)
  PROVE  LET write == file.open \/ in = <<>>
             b == Upto(n + conf.ChunkSize, Len(F))
         IN  /\ write => /\ in \o Piece(F, n) = SubSeq(F, 1, b)
                         /\ file.len + Len(Piece(F, n)) = b
                         /\ SubSeq(F, 1, b) \in MailFile
                         /\ b >= Len(O) => IsPrefix(O, SubSeq(F, 1, b))
                         /\ b < Len(O) => b = n + conf.ChunkSize
             /\ ~write => ~(file.len >= Len(O)) /\ file.len = 0
<1> DEFINE b == Upto(n + conf.ChunkSize, Len(F))
<1>1. conf.ChunkSize \in Nat \ {0} /\ Len(F) \in Nat /\ Len(O) \in Nat /\ F \in Seq(Nat)
  <2>1. conf.ChunkSize \in Nat \ {0}
    BY ConfFields DEF TypeOK
  <2> QED BY <2>1 DEF MailFile
<1>2. Len(O) <= Len(F) /\ (\A i \in 1..Len(O) : O[i] = F[i]) /\ Len(O) > 0
  <2>1. Len(O) <= Len(F) /\ \A i \in 1..Len(O) : O[i] = F[i]
    BY Prefix
  <2>2. Len(O) > 0
    BY DEF MailFile
  <2> QED BY <2>1, <2>2
<1>3. /\ Piece(F, n) \in MailFile /\ Len(Piece(F, n)) = b - n /\ b \in n + 1 .. Len(F)
      /\ SubSeq(F, 1, n) \o Piece(F, n) = SubSeq(F, 1, b)
  BY <1>1, NextPiece
<1>4. file.open \/ in = <<>> => in = SubSeq(F, 1, n) /\ file.len = n
  <2>1. CASE file.open
    BY <2>1 DEF Written
  <2>2. CASE ~file.open /\ in = <<>>
    <3>1. n = 0 /\ file.len = 0
      BY <2>2 DEF Written
    <3>2. SubSeq(F, 1, 0) = <<>>
      BY <1>1
    <3> QED BY <2>2, <3>1, <3>2
  <2> QED BY <2>1, <2>2
<1> HIDE DEF b
<1>5. b \in Nat /\ n < b /\ b <= Len(F) /\ n + (b - n) = b
  BY <1>1, <1>3
<1>6. /\ SubSeq(F, 1, b) \in MailFile /\ Len(SubSeq(F, 1, b)) = b
      /\ \A i \in 1..b : SubSeq(F, 1, b)[i] = F[i]
  BY <1>1, <1>5 DEF MailFile
<1>7. b >= Len(O) => IsPrefix(O, SubSeq(F, 1, b))
  <2>1. b >= Len(O) => \A i \in 1..Len(O) : i \in 1..b
    BY <1>1, <1>5
  <2>2. b >= Len(O) => Len(O) <= Len(SubSeq(F, 1, b))
    BY <1>1, <1>5, <1>6
  <2> QED BY <1>2, <1>6, <2>1, <2>2, Prefix
<1>8. b < Len(O) => b = n + conf.ChunkSize
  BY <1>1, <1>2 DEF b, Upto
<1>9. ~(file.open \/ in = <<>>) => ~(file.len >= Len(O)) /\ file.len = 0
  BY <1>1, <1>2 DEF Written
<1> QED BY <1>3, <1>4, <1>5, <1>6, <1>7, <1>8, <1>9 DEF b

\* Data is received: more of the file is on disk, or all of it, and only then
\* M_GOT is sent.
LEMMA DataMail ==
  ASSUME TypeInv, TypeOK', EobInv, NEW s \in Sides, \A r \in Sides : MailOf(r), process_data(s)
  PROVE  \A r \in Sides : MailOf(r)'
<1> DEFINE p == Peer(s)
           q == chan[s]
           file == sess[s].current_receive_file
           data == Head(q).data
           len  == file.len + (IF MayWrite(s) THEN Len(data) ELSE 0)
           g == [cmd |-> "M_GOT", len |-> len]
           done == [sess[s] EXCEPT !.current_receive_file = NoFile, !.received = TRUE]
           more == [sess[s] EXCEPT !.current_receive_file =
                      [file EXCEPT !.len = len, !.open = MayWrite(s)]]
<1>1. /\ TypeOK /\ UNCHANGED <<pc, state, out, pend, delivered, late, offers, conf>>
      /\ q # <<>> /\ q \in Seq(Frame) /\ chan[p] \in Seq(Frame) /\ Head(q).cmd = "DATA"
      /\ conf.ChunkSize \in Nat
      /\ p \in Sides /\ p # s /\ Peer(p) = s /\ Peer(s) = p
      /\ MailOf(s) /\ MailOf(p) /\ EobOf(s) /\ \A t \in Sides : t = s \/ t = p
      /\ sess[s] \in Members /\ sess \in [Sides -> Members] /\ Reading(s) /\ Receiving(sess[s])
      /\ inb \in [Sides -> MailFile]
  <2>1. Reading(s) /\ Receiving(sess[s])
    BY DEF process_data, InWindow, WindowPcs, Reading, Ending, Receiving
  <2>2. conf.ChunkSize \in Nat
    BY ConfFields DEF TypeInv, TypeOK
  <2> QED BY <2>1, <2>2, TwoSides DEF process_data, ghost, env, TypeInv, TypeOK, EobInv
<1>2. inb' = [inb EXCEPT ![s] = IF MayWrite(s) THEN @ \o data ELSE @]
  BY DEF process_data
<1>3. /\ Complete(s, len) => /\ sess' = [sess EXCEPT ![s] = done]
                             /\ chan' = [chan EXCEPT ![s] = Tail(q),
                                  ![p] = IF Connected(s) THEN Append(chan[p], g) ELSE chan[p]]
                             /\ rst' = [rst EXCEPT ![s] = @ \/ ~Connected(s)]
      /\ ~Complete(s, len) => sess' = [sess EXCEPT ![s] = more] /\ Pop(s)
  BY DEF process_data
<1>4. file \in [size : Nat, len : Nat, open : BOOLEAN, on : BOOLEAN] /\ data \in MailFile
  <2>1. Head(q) \in Frame
    BY <1>1, HeadTailProperties
  <2> QED BY <1>1, <2>1, Fields, Carries
<1>5. len \in Nat /\ g \in Frame /\ g.cmd = "M_GOT"
  <2>1. file.len \in Nat /\ Len(data) \in Nat
    BY <1>4 DEF MailFile
  <2>2. len = file.len + Len(data) \/ len = file.len + 0
    OBVIOUS
  <2>3. len \in Nat
    BY <2>1, <2>2
  <2> QED BY <2>3, Frames
<1>6. /\ done.current_receive_file = NoFile /\ done.received
      /\ more.current_receive_file = [file EXCEPT !.len = len, !.open = MayWrite(s)]
      /\ more.received = sess[s].received
      /\ \A m \in {done, more} :
           /\ m.to_send = sess[s].to_send /\ m.open = sess[s].open
           /\ m.file_length = sess[s].file_length /\ m.start = sess[s].start
  BY <1>1 DEF Members
<1> HIDE DEF g, done, more
<1>7. /\ sess'[p] = sess[p] /\ sess'[s] \in {done, more}
      /\ Complete(s, len) => sess'[s] = done
      /\ ~Complete(s, len) => sess'[s] = more
      /\ inb'[p] = inb[p] /\ (MayWrite(s) => inb'[s] = inb[s] \o data)
      /\ ~MayWrite(s) => inb'[s] = inb[s]
  BY <1>1, <1>2, <1>3
<1>8. /\ chan'[s] = Tail(q) /\ (chan'[p] = chan[p] \/ chan'[p] = chan[p] \o <<g>>)
      /\ rst'[p] = rst[p] /\ (rst[s] => rst'[s])
      /\ ~Complete(s, len) => chan'[p] = chan[p]
  <2>1. Append(chan[p], g) = chan[p] \o <<g>>
    BY <1>1, <1>5
  <2> QED BY <1>1, <1>3, <2>1 DEF Pop, TypeOK
<1> HIDE DEF len
<1>9. SameSide(p)
  BY <1>1, <1>7 DEF SameSide
<1>10. MailOf(p)'
  <2>1. CalmChannel(p)
    <3>1. <<g>> \in Seq(Frame) /\ Plain(<<g>>)
      BY <1>5, OneFrame, ShortOnes DEF Plain
    <3> QED BY <1>8, <3>1 DEF CalmChannel, SameChannel, MoreFrames
  <2>2. NoMoreGot(s)
    BY <1>1, <1>8, TakenOff DEF NoMoreGot
  <2>3. Connected(s)' => Connected(s)
    BY <1>7, <1>8 DEF Connected
  <2>4. CalmSender(s) /\ (Before(s)' => Before(s))
    BY <1>1, <1>6, <1>7, <2>3 DEF CalmSender, Before, Grown
  <2> QED BY <1>1, <1>9, <2>1, <2>2, <2>4, MailToPeer
<1>11. /\ Underway(s) /\ ~sess[s].received /\ ~Before(p) /\ ~Has(q, "M_FILE")
       /\ ~Has(chan[p], "M_GOT")
  <2>1. Underway(s)
    BY <1>1 DEF Underway
  <2> QED BY <1>1, <2>1 DEF EobOf, MailOf, DataOf, Unfinished
<1>12. PICK O \in offers[p], F \in MailFile, off \in Offsets(q) : Flow(s, O, F, off)
  BY <1>1, <1>11 DEF MailOf, FlowOf
<1>13. /\ O # <<>> /\ IsPrefix(O, F) /\ Stream(q, F, off) /\ Announced(q, O, off)
       /\ Written(file, inb[s], O, F, off[1])
       /\ Holds(p, O, F) /\ Sends(p, q, file, F, off)
       /\ O \in MailFile
  BY <1>1, <1>12 DEF Flow, TypeOK
<1>14. 1 \in DOMAIN q /\ q[1] = Head(q) /\ 1 + 1 = 2 /\ Len(q) \in Nat
  BY <1>1
<1>15. /\ off[1] < Len(F) /\ data = Piece(F, off[1]) /\ off[2] = off[1] + conf.ChunkSize
       /\ off[1] \in Nat /\ Has(q, "DATA")
  <2>1. off[1] \in Nat
    BY <1>12, <1>14 DEF Offsets
  <2> QED BY <1>1, <1>13, <1>14, <2>1 DEF Stream, Has
<1> DEFINE b == Upto(off[1] + conf.ChunkSize, Len(F))
<1>16. /\ MayWrite(s) => /\ inb'[s] = SubSeq(F, 1, b) /\ len = b
                         /\ b >= Len(O) => IsPrefix(O, inb'[s])
                         /\ b < Len(O) => b = off[2]
                         /\ inb'[s] \in MailFile
       /\ ~MayWrite(s) => /\ inb'[s] = inb[s] /\ len = 0 /\ ~(len >= Len(O))
                          /\ inb[s] # <<>> /\ ~file.open
       /\ file.size = Len(O)
  <2>1. inb[s] \in MailFile
    BY <1>1
  <2>2. /\ MayWrite(s) => /\ inb[s] \o Piece(F, off[1]) = SubSeq(F, 1, b)
                          /\ file.len + Len(Piece(F, off[1])) = b
                          /\ SubSeq(F, 1, b) \in MailFile
                          /\ b >= Len(O) => IsPrefix(O, SubSeq(F, 1, b))
                          /\ b < Len(O) => b = off[1] + conf.ChunkSize
        /\ ~MayWrite(s) => ~(file.len >= Len(O)) /\ file.len = 0
    <3> HIDE DEF b, file
    <3> QED BY <1>1, <1>4, <1>12, <1>13, <1>15, <2>1, Arrived DEF MayWrite, b, file
  <2> HIDE DEF b
  <2>3. ~MayWrite(s) => inb[s] # <<>> /\ ~file.open
    BY DEF MayWrite
  <2>4. len = IF MayWrite(s) THEN file.len + Len(data) ELSE file.len + 0
    BY DEF len
  <2>5. ~MayWrite(s) => len = 0 /\ ~(len >= Len(O))
    BY <2>2, <2>4
  <2> QED BY <1>7, <1>13, <1>15, <2>2, <2>3, <2>4, <2>5 DEF Written
<1>17. Complete(s, len) <=> len >= Len(O)
  BY <1>16 DEF Complete
<1> HIDE DEF b, file, data
<1>18. CASE Complete(s, len)
  <2>1. MayWrite(s) /\ IsPrefix(O, inb'[s]) /\ Range(O) \subseteq Range(inb'[s])
    <3>1. MayWrite(s) /\ b >= Len(O)
      BY <1>16, <1>17, <1>18
    <3>2. IsPrefix(O, inb'[s]) /\ inb'[s] \in MailFile
      BY <1>16, <3>1
    <3> QED BY <1>13, <3>1, <3>2, PrefixFacts
  <2>2. ~Underway(s)'
    <3>1. ~Receiving(sess'[s])
      BY <1>6, <1>7, <1>18 DEF Receiving, NoFile
    <3>2. ~Has(chan'[s], "M_FILE")
      BY <1>1, <1>8, <1>11, TakenOff
    <3> QED BY <3>1, <3>2 DEF Underway
  <2>3. /\ ~Before(p)' /\ O \in offers'[p]
        /\ sess'[s].to_send = sess[s].to_send
        /\ sess'[s].start = sess[s].start /\ sess'[s].file_length = sess[s].file_length
    BY <1>1, <1>6, <1>7, <1>11, <1>12 DEF Before
  <2>4. sess'[p].to_send => Range(out'[p]) \subseteq Held(s)' \cup late'[p]
    BY <1>1, <1>7, <1>13, <2>1 DEF Holds, Held
  <2>5. DataOf(s)'
    BY <1>1, <2>1, <2>2, <2>3, <2>4 DEF DataOf, MailOf
  <2>6. FlowOf(s)'
    BY <2>2 DEF FlowOf
  <2> QED BY <1>1, <1>10, <2>5, <2>6 DEF MailOf
<1>19. CASE ~Complete(s, len)
  <2>1. /\ sess'[s].current_receive_file = [file EXCEPT !.len = len, !.open = MayWrite(s)]
        /\ ~sess'[s].received /\ chan'[p] = chan[p]
        /\ sess'[s].to_send = sess[s].to_send
        /\ sess'[s].start = sess[s].start /\ sess'[s].file_length = sess[s].file_length
        /\ sess'[s].open = sess[s].open
    BY <1>6, <1>7, <1>8, <1>11, <1>19
  <2>2. DataOf(s)'
    <3>1. ~Before(p)'
      BY <1>1, <1>11 DEF Before
    <3> QED BY <1>1, <1>11, <2>1, <3>1 DEF DataOf, MailOf
  <2>3. PICK new : new = Shifted(q, off)
    OBVIOUS
  <2>4. /\ new \in Offsets(Tail(q))
        /\ Stream(Tail(q), F, new) /\ Announced(Tail(q), O, new)
        /\ new[1] = off[2] /\ new[Len(Tail(q)) + 1] = off[Len(q) + 1]
    BY <1>1, <1>12, <1>13, <2>3, StreamTail
  <2>5. Stream(chan[s], F, new)' /\ Announced(chan[s], O, new)'
    BY <1>1, <1>8, <2>4 DEF Stream, Announced, Piece
  <2>6. Written(sess[s].current_receive_file, inb[s], O, F, new[1])'
    <3> DEFINE file2 == [file EXCEPT !.len = len, !.open = MayWrite(s)]
    <3>1. file2.size = Len(O) /\ file2.len = len /\ file2.open = MayWrite(s)
      BY <1>4, <1>16
    <3> HIDE DEF file2
    <3>2. MayWrite(s) => len = new[1] /\ inb'[s] = SubSeq(F, 1, new[1]) /\ new[1] < Len(O)
      <4>1. MayWrite(s) => b < Len(O)
        <5>1. b \in Nat /\ Len(O) \in Nat
          BY <1>1, <1>13, <1>15 DEF b, Upto, MailFile
        <5> QED BY <1>16, <1>17, <1>19, <5>1
      <4> QED BY <1>16, <2>4, <4>1
    <3>3. ~MayWrite(s) => len = 0 /\ inb'[s] # <<>>
      BY <1>16
    <3>4. sess'[s].current_receive_file = file2
      BY <2>1 DEF file2
    <3> QED BY <3>1, <3>2, <3>3, <3>4 DEF Written
  <2>7. Holds(p, O, F)'
    BY <1>1, <1>7, <1>13 DEF Holds
  <2>8. Sends(p, chan[s], sess[s].current_receive_file, F, new)'
    <3>1. Connected(p)' <=> Connected(p)
      BY <1>1, <1>8, <2>1 DEF Connected
    <3>2. pc[p] # "afterFile"
      BY <1>13, <1>15 DEF Sends
    <3> QED BY <1>1, <1>7, <1>8, <1>13, <2>4, <3>1, <3>2 DEF Sends
  <2>9. Flow(s, O, F, new)'
    BY <1>1, <1>13, <2>5, <2>6, <2>7, <2>8 DEF Flow
  <2>10. O \in offers'[p] /\ new \in Offsets(chan'[s])
    BY <1>1, <1>8, <1>12, <2>4
  <2>11. FlowOf(s)'
    BY <1>1, <1>12, <2>9, <2>10 DEF FlowOf
  <2> QED BY <1>1, <1>10, <2>2, <2>11 DEF MailOf
<1> QED BY <1>18, <1>19

-----------------------------------------------------------------------------
(* The link, step by step.                                                 *)

\* A step of side s that neither opens nor closes its socket.
LEMMA LinkStep ==
  ASSUME TypeOK, LinkInv, NEW s \in Sides,
         \A t \in Sides \ {s} : sess'[t] = sess[t] /\ pc'[t] = pc[t],
         sess'[s].open = sess[s].open,
         sess[s].open \/ pc[s] \notin Ending \cup {"tail"} \/ pc'[s] \in Ending,
         rst' = rst \/ rst' = [rst EXCEPT ![s] = @ \/ ~Connected(s)]
  PROVE  LinkInv'
<1>1. rst \in [Sides -> BOOLEAN] /\ Peer(s) \in Sides /\ Peer(s) # s
  BY TwoSides DEF TypeOK
<1>2. \A t \in Sides : sess'[t].open = sess[t].open
  OBVIOUS
<1>3. \A t \in Sides : (rst[t] => rst'[t]) /\ (rst'[t] => rst[t] \/ ~sess'[Peer(t)].open)
  <2>1. CASE rst' = rst
    BY <2>1
  <2>2. CASE rst' = [rst EXCEPT ![s] = @ \/ ~Connected(s)]
    BY <1>1, <1>2, <2>2 DEF Connected
  <2> QED BY <2>1, <2>2
<1>4. \A t \in Sides : ~sess'[t].open => (pc'[t] \in Ending \/ (pc'[t] = "tail" /\ sess'[t].done))
  BY DEF LinkInv, OpenInv
<1> QED BY <1>2, <1>3, <1>4, LinkKept

LEMMA HandlersLink ==
  ASSUME TypeOK, LinkInv, NEW s \in Sides,
         \/ ConnInit(s) \/ WaitConnReturns(s) \/ SendPasswd(s)
         \/ WaitAddr(s) \/ AuthRemote(s) \/ IfSecure(s) \/ WaitOk(s)
         \/ WaitPwd(s) \/ PasswordAck(s)
         \/ TransferFilesReturns(s) \/ WaitEob(s) \/ Unknown(s)
  PROVE  LinkInv'
<1>1. sess[s] \in Members /\ sess \in [Sides -> Members] /\ pc \in [Sides -> PcLabels]
  BY DEF TypeOK
<1>2. pc[s] \notin Ending \cup {"tail"}
  BY DEF ConnInit, WaitConnReturns, SendPasswd, WaitAddr, AuthRemote, IfSecure, WaitOk, WaitPwd,
         PasswordAck, TransferFilesReturns, WaitEob, Unknown, At, Ending
<1>3. PICK next : Return(s, next, sess[s])
  BY DEF ConnInit, WaitConnReturns, SendPasswd, WaitAddr, AuthRemote, IfSecure, WaitOk, WaitPwd,
         PasswordAck, TransferFilesReturns, WaitEob, Unknown
<1>4. rst' = rst \/ rst' = [rst EXCEPT ![s] = @ \/ ~Connected(s)]
  BY DEF ConnInit, WaitConnReturns, SendPasswd, WaitAddr, AuthRemote, IfSecure, WaitOk, WaitPwd,
         PasswordAck, TransferFilesReturns, WaitEob, Unknown, Quiet, Send
<1>5. PICK b : sess' = [sess EXCEPT ![s] = [sess[s] EXCEPT !.done = b]]
  BY <1>1, <1>3 DEF Return
<1>6. sess'[s].open = sess[s].open
  BY <1>1, <1>5 DEF Members
<1>7. \A t \in Sides \ {s} : sess'[t] = sess[t] /\ pc'[t] = pc[t]
  BY <1>1, <1>3, <1>5 DEF Return
<1> QED BY <1>2, <1>4, <1>6, <1>7, LinkStep

LEMMA InnerLink ==
  ASSUME TypeOK, LinkInv, NEW s \in Sides,
         \/ WaitConn(s) \/ SendFilePacket(s) \/ NothingToSend(s) \/ SendFileData(s)
         \/ GetChunk(s) \/ BadChunk(s) \/ DanglingChunk(s) \/ AfterChunk(s) \/ SendEob(s)
  PROVE  LinkInv'
<1>1. sess[s] \in Members /\ sess \in [Sides -> Members] /\ pc \in [Sides -> PcLabels]
  BY DEF TypeOK
<1>2. pc[s] \notin Ending \cup {"tail"}
  BY DEF WaitConn, SendFilePacket, NothingToSend, SendFileData, GetChunk, BadChunk, DanglingChunk,
         AfterChunk, SendEob, At, Ending
<1>3. PICK l : pc' = [pc EXCEPT ![s] = l]
  BY DEF WaitConn, SendFilePacket, NothingToSend, SendFileData, GetChunk, BadChunk, DanglingChunk,
         SendChunk, AfterChunk, SendEob, GoTo
<1>4. rst' = rst \/ rst' = [rst EXCEPT ![s] = @ \/ ~Connected(s)]
  BY DEF WaitConn, SendFilePacket, NothingToSend, SendFileData, GetChunk, BadChunk, DanglingChunk,
         SendChunk, AfterChunk, SendEob, Quiet, Send
<1>5. \/ sess' = sess
      \/ \E c : sess' = [sess EXCEPT ![s] = [sess[s] EXCEPT !.challenge = c]]
      \/ \E n : sess' = [sess EXCEPT ![s] = [sess[s] EXCEPT !.start = n]]
      \/ \E n : sess' = [sess EXCEPT ![s] = [sess[s] EXCEPT !.file_length = n, !.start = 0]]
      \/ \E b : sess' = [sess EXCEPT ![s] = [sess[s] EXCEPT !.to_send = b]]
  <2>1. CASE NothingToSend(s) \/ AfterChunk(s) \/ SendEob(s)
    BY <2>1 DEF NothingToSend, AfterChunk, SendEob
  <2>2. CASE WaitConn(s)
    BY <2>2 DEF WaitConn
  <2>3. CASE SendFilePacket(s)
    BY <2>3 DEF SendFilePacket
  <2>4. CASE SendFileData(s)
    BY <2>4 DEF SendFileData
  <2>5. CASE GetChunk(s) \/ BadChunk(s) \/ DanglingChunk(s)
    BY <2>5 DEF GetChunk, BadChunk, DanglingChunk, SendChunk
  <2> QED BY <2>1, <2>2, <2>3, <2>4, <2>5
<1>6. sess'[s].open = sess[s].open /\ \A t \in Sides \ {s} : sess'[t] = sess[t]
  <2>1. sess' = sess \/ \E m : sess' = [sess EXCEPT ![s] = m]
    BY <1>5
  <2>2. sess'[s].open = sess[s].open
    <3>1. CASE sess' = sess
      BY <3>1
    <3>2. CASE \E c : sess' = [sess EXCEPT ![s] = [sess[s] EXCEPT !.challenge = c]]
      BY <1>1, <3>2 DEF Members
    <3>3. CASE \E n : sess' = [sess EXCEPT ![s] = [sess[s] EXCEPT !.start = n]]
      BY <1>1, <3>3 DEF Members
    <3>4. CASE \E n : sess' = [sess EXCEPT ![s] = [sess[s] EXCEPT !.file_length = n, !.start = 0]]
      BY <1>1, <3>4 DEF Members
    <3>5. CASE \E b : sess' = [sess EXCEPT ![s] = [sess[s] EXCEPT !.to_send = b]]
      BY <1>1, <3>5 DEF Members
    <3> QED BY <1>5, <3>1, <3>2, <3>3, <3>4, <3>5
  <2> QED BY <1>1, <2>1, <2>2
<1>7. \A t \in Sides \ {s} : pc'[t] = pc[t]
  BY <1>1, <1>3
<1> QED BY <1>2, <1>4, <1>6, <1>7, LinkStep

LEMMA FramesLink ==
  ASSUME TypeOK, LinkInv, NEW s \in Sides, ReceiveFrame(s)
  PROVE  LinkInv'
<1>1. /\ sess[s] \in Members /\ sess \in [Sides -> Members] /\ pc' = pc /\ sess[s].open
      /\ chan[s] \in Seq(Frame) /\ chan[s] # <<>>
  BY DEF TypeOK, ReceiveFrame, ReceiveCommand, HandleFileGotRequest, process_data, DropData, InWindow
<1>2. rst' = rst \/ rst' = [rst EXCEPT ![s] = @ \/ ~Connected(s)]
  BY DEF ReceiveFrame, ReceiveCommand, HandleFileGotRequest, process_data, DropData, Pop
<1>3. sess'[s].open = sess[s].open /\ \A t \in Sides \ {s} : sess'[t] = sess[t]
  <2>1. CASE ReceiveCommand(s)
    <3>1. Head(chan[s]).cmd \in {"M_ADR", "M_OK", "M_EOB", "M_ERR", "M_NUL", "M_PWD", "M_FILE"}
      <4>1. Head(chan[s]) \in Frame
        BY <1>1, HeadTailProperties
      <4> QED BY <2>1, <4>1, Carries DEF ReceiveCommand
    <3>2. Handle(s, Head(chan[s])).open = sess[s].open
      BY <1>1, <3>1 DEF Handle, Members
    <3> QED BY <1>1, <2>1, <3>2 DEF ReceiveCommand
  <2>2. CASE HandleFileGotRequest(s)
    <3>1. sess' = [sess EXCEPT ![s] = [sess[s] EXCEPT !.to_send = FALSE]]
      BY <2>2 DEF HandleFileGotRequest
    <3> QED BY <1>1, <3>1 DEF Members
  <2>3. CASE process_data(s)
    <3>1. \/ \E f : sess' = [sess EXCEPT ![s] = [sess[s] EXCEPT !.current_receive_file = f]]
          \/ sess' = [sess EXCEPT ![s] =
                        [sess[s] EXCEPT !.current_receive_file = NoFile, !.received = TRUE]]
      BY <2>3 DEF process_data
    <3> QED BY <1>1, <3>1 DEF Members
  <2>4. CASE DropData(s)
    BY <2>4 DEF DropData
  <2> QED BY <2>1, <2>2, <2>3, <2>4 DEF ReceiveFrame
<1> QED BY <1>1, <1>2, <1>3, LinkStep

\* The socket is closed.
LEMMA ClosedLink ==
  ASSUME TypeOK, LinkInv, NEW s \in Sides, Close(s), ~sess'[s].open,
         pc'[s] \in Ending \/ (pc'[s] = "tail" /\ sess'[s].done),
         \A t \in Sides \ {s} : sess'[t] = sess[t] /\ pc'[t] = pc[t]
  PROVE  LinkInv'
<1>1. /\ rst \in [Sides -> BOOLEAN] /\ Peer(s) \in Sides /\ Peer(s) # s /\ Peer(Peer(s)) = s
  BY TwoSides DEF TypeOK
<1>2. \A t \in Sides : (rst[t] => rst'[t]) /\ (rst'[t] => rst[t] \/ ~sess'[Peer(t)].open)
  BY <1>1 DEF Close
<1>3. \A t \in Sides : /\ ~sess'[t].open => (pc'[t] \in Ending \/ (pc'[t] = "tail" /\ sess'[t].done))
                       /\ sess'[t].open => sess[t].open
  BY DEF LinkInv, OpenInv
<1> QED BY <1>2, <1>3, LinkKept

LEMMA EndLink ==
  ASSUME TypeOK, LinkInv, NEW s \in Sides,
         \/ Done(s) \/ LoopEnd(s) \/ SocketClosed(s) \/ Exit(s)
         \/ rename_pending_files(s) \/ process_network_files(s)
  PROVE  LinkInv'
<1>1. sess[s] \in Members /\ sess \in [Sides -> Members] /\ pc \in [Sides -> PcLabels]
  BY DEF TypeOK
<1>2. CASE Done(s)
  <2> DEFINE m == [sess[s] EXCEPT !.open = FALSE, !.done = TRUE]
  <2>1. PICK b : /\ sess' = [sess EXCEPT ![s] = [m EXCEPT !.done = b]]
                 /\ b = (m.done \/ m.error_received)
    BY <1>2 DEF Done, Return
  <2>2. m.done = TRUE /\ m.open = FALSE
    BY <1>1 DEF Members
  <2>3. m \in Members
    BY <1>1, MembersEdits
  <2> HIDE DEF m
  <2>4. [m EXCEPT !.done = b].open = FALSE /\ [m EXCEPT !.done = b].done = b /\ b
    BY <2>1, <2>2, <2>3 DEF Members
  <2>5. ~sess'[s].open /\ sess'[s].done /\ \A t \in Sides \ {s} : sess'[t] = sess[t]
    BY <1>1, <2>1, <2>4
  <2>6. Close(s) /\ pc' = [pc EXCEPT ![s] = "tail"]
    BY <1>2 DEF Done, Return
  <2> QED BY <1>1, <2>5, <2>6, ClosedLink
<1>3. CASE Exit(s)
  <2>1. sess'[s] = NewBinkP(FALSE) /\ \A t \in Sides \ {s} : sess'[t] = sess[t] /\ pc'[t] = pc[t]
    BY <1>1, <1>3 DEF Exit
  <2>2. ~NewBinkP(FALSE).open
    BY DEF NewBinkP
  <2>3. Close(s) /\ pc'[s] = "idle"
    BY <1>1, <1>3 DEF Exit
  <2> QED BY <2>1, <2>2, <2>3, ClosedLink DEF Ending
<1>4. CASE LoopEnd(s)
  <2>1. sess' = sess /\ rst' = rst /\ pc' = [pc EXCEPT ![s] = IF sess[s].done THEN "rename" ELSE "handler"]
    BY <1>4 DEF LoopEnd, GoTo, Quiet
  <2>2. sess[s].open \/ pc'[s] \in Ending
    <3>1. sess[s].open \/ sess[s].done
      BY <1>4 DEF LoopEnd, LinkInv, OpenInv, Ending
    <3> QED BY <1>1, <2>1, <3>1 DEF Ending
  <2> QED BY <1>1, <2>1, <2>2, LinkStep
<1>5. CASE SocketClosed(s) \/ rename_pending_files(s) \/ process_network_files(s)
  <2>1. /\ sess' = sess /\ rst' = rst
        /\ \E l \in {"rename", "network", "contact"} : pc' = [pc EXCEPT ![s] = l]
    BY <1>5 DEF SocketClosed, rename_pending_files, process_network_files, GoTo, Quiet
  <2> QED BY <1>1, <2>1, LinkStep DEF Ending
<1> QED BY <1>2, <1>3, <1>4, <1>5

LEMMA NextLink ==
  ASSUME TypeOK, LinkInv, [Next]_vars
  PROVE  LinkInv'
<1>1. CASE UNCHANGED vars
  BY <1>1 DEF vars, LinkInv, OpenInv, ResetInv
<1>2. ASSUME NEW s \in Sides, Step(s)
      PROVE  LinkInv'
  BY <1>2, HandlersLink, InnerLink, FramesLink, EndLink DEF Step, Handler, UpdateContact
<1>3. CASE Call
  <2>1. NewBinkP(TRUE).open
    BY DEF NewBinkP
  <2> QED BY <1>3, <2>1 DEF Call, LinkInv, OpenInv, ResetInv
<1>4. CASE Reset
  BY <1>4, TwoSides DEF Reset, LinkInv, OpenInv, ResetInv
<1>5. ASSUME NEW s \in Sides, Crash(s)
      PROVE  LinkInv'
  BY <1>5, EndLink DEF Crash
<1>6. ASSUME NEW s \in Sides, ResetArrives(s) \/ network1_appends(s) \/ network1_tosses(s)
      PROVE  LinkInv'
  <2>1. UNCHANGED <<pc, sess, rst>>
    BY <1>6 DEF ResetArrives, network1_appends, network1_tosses
  <2> QED BY <2>1 DEF LinkInv, OpenInv, ResetInv
<1> QED BY <1>1, <1>2, <1>3, <1>4, <1>5, <1>6 DEF Next, Environment

-----------------------------------------------------------------------------
(* The mail, step by step.                                                 *)

LEMMA NextConf ==
  ASSUME TypeInv, [Next]_vars
  PROVE  TypeOK /\ conf' = conf
<1>1. CASE UNCHANGED vars
  BY <1>1 DEF vars, env, TypeInv
<1>2. CASE Environment
  BY <1>2 DEF TypeInv, Environment, Call, Reset, Crash, ResetArrives, network1_appends,
              network1_tosses, env
<1>3. ASSUME NEW s \in Sides, Handler(s)
      PROVE  conf' = conf
  BY <1>3 DEF Handler, ConnInit, WaitConn, WaitConnReturns, SendPasswd, WaitAddr, AuthRemote,
           IfSecure, WaitOk, WaitPwd, PasswordAck, SendFilePacket, NothingToSend, SendFileData,
           GetChunk, BadChunk, DanglingChunk, SendChunk, AfterChunk, SendEob,
           TransferFilesReturns, WaitEob, Unknown, Done, LoopEnd, rename_pending_files,
           process_network_files, UpdateContact, env
<1>4. ASSUME NEW s \in Sides, ReceiveFrame(s) \/ SocketClosed(s)
      PROVE  conf' = conf
  BY <1>4 DEF ReceiveFrame, ReceiveCommand, HandleFileGotRequest, process_data, DropData,
              SocketClosed, env
<1> QED BY <1>1, <1>2, <1>3, <1>4 DEF TypeInv, Next, Step

LEMMA NextMail ==
  ASSUME TypeInv, TypeOK', EobInv, PendInv, LinkInv, MailInv, [Next]_vars
  PROVE  MailInv'
<1>1. TypeOK /\ conf' = conf
  BY NextConf
<1> SUFFICES ASSUME ~conf.GetChunkFails PROVE \A r \in Sides : MailOf(r)'
  BY <1>1 DEF MailInv
<1>2. \A r \in Sides : MailOf(r)
  BY DEF MailInv
<1>3. CASE UNCHANGED vars
  <2>1. UNCHANGED <<pc, state, sess, chan, rst, out, inb, pend, delivered, late, offers, conf>>
    BY <1>3 DEF vars, disk, ghost, env
  <2> SUFFICES ASSUME NEW r \in Sides PROVE MailOf(r)'
    OBVIOUS
  <2>2. Peer(r) \in Sides /\ sess[r] \in Members
    BY <1>1, TwoSides DEF TypeOK
  <2>3. SameSide(Peer(r)) /\ CalmLink(r) /\ SameMail(sess[r], sess'[r])
    BY <2>1, <2>2, QuietLink, SameMailEdits DEF SameSide, Quiet
  <2>4. CalmPc(r)
    BY <1>2, <2>1 DEF CalmPc, Before, MailOf, DataOf
  <2> QED BY <1>1, <1>2, <2>1, <2>3, <2>4, PlainStep
<1>4. CASE Environment
  <2>1. ASSUME NEW s \in Sides, Crash(s)
        PROVE  \A r \in Sides : MailOf(r)'
    BY <1>1, <1>2, <2>1, ExitMail DEF Crash
  <2>2. CASE Reset
    <3>1. PICK s \in Sides : TRUE
      BY DEF Sides
    <3> QED BY <1>1, <1>2, <2>2, <3>1, AloneMail
  <2> QED BY <1>1, <1>2, <1>4, <2>1, <2>2, CallMail, AloneMail, AppendMail, TossMail DEF Environment
<1>5. ASSUME NEW s \in Sides, Handler(s)
      PROVE  \A r \in Sides : MailOf(r)'
  <2>1. ~BadChunk(s)
    BY DEF BadChunk
  <2> QED BY <1>1, <1>2, <1>5, <2>1, HandlersMail, InnerMail, EndMail, OfferMail, StartMail,
             ChunkMail DEF Handler
<1>6. ASSUME NEW s \in Sides, ReceiveFrame(s) \/ SocketClosed(s)
      PROVE  \A r \in Sides : MailOf(r)'
  BY <1>1, <1>2, <1>6, CommandMail, FileMail, GotMail, DataMail, DropMail, InnerMail
     DEF ReceiveFrame
<1> QED BY <1>3, <1>4, <1>5, <1>6 DEF Next, Step

LEMMA InitMail ==
  ASSUME Init
  PROVE  LinkInv /\ MailInv
<1>1. \A s \in Sides : /\ pc[s] = "idle" /\ ~rst[s] /\ chan[s] = <<>> /\ sess[s] = NewBinkP(FALSE)
                       /\ ~sess[s].received /\ ~sess[s].to_send /\ ~Receiving(sess[s])
  <2>1. ~NewBinkP(FALSE).received
    BY DEF NewBinkP
  <2> QED BY <2>1, NewIsIdle DEF Init
<1>2. \A s \in Sides : ~Underway(s)
  BY <1>1, ShortOnes DEF Underway
<1>3. \A s \in Sides : MailOf(s)
  BY <1>1, <1>2, ShortOnes, TwoSides DEF MailOf, FlowOf, DataOf
<1> QED BY <1>1, <1>3 DEF LinkInv, OpenInv, ResetInv, Ending, MailInv

-----------------------------------------------------------------------------
(* No mail is lost.                                                        *)

\* What a system has on disk of the other one's mail stays there.
LEMMA HeldKept ==
  ASSUME TypeOK, PendInv, [Next]_vars, ~MayReplace, NEW t \in Sides
  PROVE  Held(t) \subseteq Held(t)'
<1>1. (UNCHANGED <<inb, pend, delivered>>) => Held(t)' = Held(t)
  BY DEF Held, Packets
<1>2. CASE UNCHANGED vars
  BY <1>1, <1>2 DEF vars, disk
<1>3. ASSUME NEW s \in Sides, rename_pending_files(s)
      PROVE  Held(t) \subseteq Held(t)'
  <2>1. CASE t = s
    BY <1>3, <2>1, RenameHolds
  <2>2. CASE t # s
    <3>1. inb'[t] = inb[t] /\ pend'[t] = pend[t] /\ delivered'[t] = delivered[t]
      BY <1>3, <2>2 DEF rename_pending_files, TypeOK
    <3> QED BY <3>1 DEF Held, Packets
  <2> QED BY <2>1, <2>2
<1>4. ASSUME NEW s \in Sides, Network1(s), inb' = inb
      PROVE  Held(t) \subseteq Held(t)'
  <2>1. CASE t = s
    BY <1>4, <2>1, TossHolds
  <2>2. CASE t # s
    <3>1. inb'[t] = inb[t] /\ pend'[t] = pend[t] /\ delivered'[t] = delivered[t]
      BY <1>4, <2>2 DEF Network1, TypeOK
    <3> QED BY <3>1 DEF Held, Packets
  <2> QED BY <2>1, <2>2
<1>5. ASSUME NEW s \in Sides, process_network_files(s)
      PROVE  Held(t) \subseteq Held(t)'
  BY <1>1, <1>4, <1>5 DEF process_network_files
<1>6. ASSUME NEW s \in Sides, process_data(s)
      PROVE  Held(t) \subseteq Held(t)'
  <2>1. pend' = pend /\ delivered' = delivered
    BY <1>6 DEF process_data
  <2>2. Range(inb[t]) \subseteq Range(inb'[t])
    <3>1. inb'[t] = inb[t] \/ inb'[t] = inb[t] \o Head(chan[s]).data
      BY <1>6 DEF process_data, TypeOK
    <3>2. inb[t] \in Seq(Nat) /\ Head(chan[s]).data \in Seq(Nat)
      <4>1. Head(chan[s]) \in Frame /\ Head(chan[s]).cmd = "DATA"
        BY <1>6, HeadTailProperties DEF process_data, TypeOK
      <4> QED BY <4>1, Carries DEF TypeOK, MailFile
    <3>3. \A i \in DOMAIN inb[t] : i \in DOMAIN inb'[t] /\ inb'[t][i] = inb[t][i]
      <4> DEFINE x == inb[t]
                 y == Head(chan[s]).data
      <4>1. \A i \in DOMAIN x : i \in DOMAIN (x \o y) /\ (x \o y)[i] = x[i]
        <5> HIDE DEF x, y
        <5>1. x \in Seq(Nat) /\ y \in Seq(Nat)
          BY <3>2 DEF x, y
        <5> QED BY <5>1
      <4> QED BY <3>1, <4>1
    <3> QED BY <3>3 DEF Range
  <2> QED BY <2>1, <2>2 DEF Held, Packets
<1>7. CASE Environment
  <2>1. ASSUME NEW s \in Sides, network1_tosses(s)
        PROVE  Held(t) \subseteq Held(t)'
    BY <1>4, <2>1 DEF network1_tosses
  <2>2. CASE Call \/ Reset \/ \E s \in Sides : Crash(s) \/ ResetArrives(s) \/ network1_appends(s)
    BY <1>1, <2>2 DEF Call, Reset, Crash, ResetArrives, network1_appends, disk
  <2> QED BY <1>7, <2>1, <2>2 DEF Environment
<1>8. ASSUME NEW s \in Sides, Handler(s)
      PROVE  Held(t) \subseteq Held(t)'
  <2>1. \/ rename_pending_files(s) \/ process_network_files(s) \/ UNCHANGED <<inb, pend, delivered>>
    BY <1>8 DEF Handler, ConnInit, WaitConn, WaitConnReturns, SendPasswd, WaitAddr, AuthRemote,
             IfSecure, WaitOk, WaitPwd, PasswordAck, SendFilePacket, NothingToSend, SendFileData,
             GetChunk, BadChunk, DanglingChunk, SendChunk, AfterChunk, SendEob,
             TransferFilesReturns, WaitEob, Unknown, Done, LoopEnd, UpdateContact, disk
  <2> QED BY <1>1, <1>3, <1>5, <2>1
<1>9. ASSUME NEW s \in Sides, ReceiveCommand(s) \/ HandleFileGotRequest(s) \/ DropData(s) \/ SocketClosed(s)
      PROVE  Held(t) \subseteq Held(t)'
  BY <1>1, <1>9 DEF ReceiveCommand, HandleFileGotRequest, DropData, SocketClosed, disk
<1> QED BY <1>2, <1>6, <1>7, <1>8, <1>9 DEF Next, Step, ReceiveFrame

\* What a step may do to the outbound file of side s: it leaves it alone,
\* offers it, deletes what the other side holds, or appends to it.
Kept(s) == /\ out'[s] = out[s] /\ posted'[s] = posted[s]
           /\ late[s] \subseteq late'[s] \cup Range(out[s])
Deleted(s) == /\ posted'[s] = posted[s] /\ late'[s] = late[s]
              /\ sess[s].to_send /\ Has(chan[s], "M_GOT")
Appended(s) == /\ out'[s] = Append(out[s], posted[s] + 1) /\ posted'[s] = posted[s] + 1
               /\ late[s] \subseteq late'[s]

LEMMA OutSteps ==
  ASSUME TypeOK, [Next]_vars, NEW t \in Sides
  PROVE  Kept(t) \/ Deleted(t) \/ Appended(t)
<1>1. (UNCHANGED <<out, posted, late>>) => Kept(t)
  BY DEF Kept
<1>2. CASE UNCHANGED vars
  BY <1>1, <1>2 DEF vars, disk, ghost
<1>3. ASSUME NEW s \in Sides, HandleFileGotRequest(s)
      PROVE  Kept(t) \/ Deleted(t)
  <2>1. /\ UNCHANGED <<posted, late>> /\ chan[s] \in Seq(Frame) /\ chan[s] # <<>>
        /\ Head(chan[s]).cmd = "M_GOT"
        /\ out' = [out EXCEPT ![s] = AfterGot(s)] \/ out' = out
    BY <1>3 DEF HandleFileGotRequest, ghost, TypeOK
  <2>2. Has(chan[s], "M_GOT")
    BY <2>1, TakenOff
  <2>3. CASE t = s /\ sess[s].to_send
    BY <2>1, <2>2, <2>3 DEF Deleted
  <2>4. CASE ~(t = s /\ sess[s].to_send)
    BY <2>1, <2>4 DEF Kept, AfterGot, TypeOK
  <2> QED BY <2>3, <2>4
<1>4. ASSUME NEW s \in Sides, SendFilePacket(s)
      PROVE  Kept(t)
  <2>1. out' = out /\ posted' = posted /\ late' = [late EXCEPT ![s] = @ \ Range(out[s])]
    BY <1>4 DEF SendFilePacket, disk
  <2>2. late[t] \subseteq late'[t] \cup Range(out[t])
    BY <2>1 DEF TypeOK
  <2> QED BY <2>1, <2>2 DEF Kept
<1>5. ASSUME NEW s \in Sides, network1_appends(s)
      PROVE  Kept(t) \/ Appended(t)
  <2>1. CASE t = s
    BY <1>5, <2>1 DEF network1_appends, Appended, TypeOK
  <2>2. CASE t # s
    BY <1>5, <2>2 DEF network1_appends, Kept, TypeOK
  <2> QED BY <2>1, <2>2
<1>6. CASE Environment
  BY <1>1, <1>5, <1>6 DEF Environment, Call, Reset, Crash, ResetArrives, network1_tosses, disk, ghost
<1>7. ASSUME NEW s \in Sides, Handler(s)
      PROVE  Kept(t)
  <2>1. SendFilePacket(s) \/ UNCHANGED <<out, posted, late>>
    BY <1>7 DEF Handler, ConnInit, WaitConn, WaitConnReturns, SendPasswd, WaitAddr, AuthRemote,
             IfSecure, WaitOk, WaitPwd, PasswordAck, NothingToSend, SendFileData,
             GetChunk, BadChunk, DanglingChunk, SendChunk, AfterChunk, SendEob,
             TransferFilesReturns, WaitEob, Unknown, Done, LoopEnd, rename_pending_files,
             process_network_files, UpdateContact, disk, ghost
  <2> QED BY <1>1, <1>4, <2>1
<1>8. ASSUME NEW s \in Sides, ReceiveCommand(s) \/ process_data(s) \/ DropData(s) \/ SocketClosed(s)
      PROVE  Kept(t)
  BY <1>1, <1>8 DEF ReceiveCommand, process_data, DropData, SocketClosed, disk, ghost
<1> QED BY <1>2, <1>3, <1>6, <1>7, <1>8 DEF Next, Step, ReceiveFrame

LEMMA NextLoss ==
  ASSUME TypeOK, PendInv, MailInv, NoLoss, [Next]_vars, conf' = conf
  PROVE  NoLoss'
<1>1. MayReplace' = MayReplace
  BY DEF MayReplace
<1> SUFFICES ASSUME ~MayReplace, ~conf.GetChunkFails, NEW s \in Sides
             PROVE  1 .. posted'[s] \subseteq Range(out'[s]) \cup Held(Peer(s))' \cup late'[s]
  BY <1>1 DEF NoLoss
<1> DEFINE p == Peer(s)
<1>2. /\ p \in Sides /\ Peer(p) = s /\ Held(p) \subseteq Held(p)'
      /\ 1 .. posted[s] \subseteq Range(out[s]) \cup Held(p) \cup late[s]
      /\ out[s] \in MailFile /\ posted[s] \in Nat
  BY TwoSides, HeldKept DEF NoLoss, TypeOK
<1>3. CASE Kept(s)
  BY <1>2, <1>3 DEF Kept
<1>4. CASE Deleted(s)
  <2>1. Range(out[s]) \subseteq Held(p) \cup late[s]
    BY <1>2, <1>4 DEF Deleted, MailInv, MailOf, DataOf
  <2> QED BY <1>2, <1>4, <2>1 DEF Deleted
<1>5. CASE Appended(s)
  <2>1. posted[s] + 1 \in Nat /\ 1 .. posted[s] + 1 = (1 .. posted[s]) \cup {posted[s] + 1}
    BY <1>2
  <2>2. Range(out'[s]) = Range(out[s]) \cup {posted[s] + 1}
    <3>1. PICK x \in Nat : x = posted[s] + 1
      BY <2>1
    <3>2. Range(Append(out[s], x)) = Range(out[s]) \cup {x}
      BY <1>2, PrefixFacts
    <3> QED BY <1>5, <3>1, <3>2 DEF Appended
  <2> QED BY <1>2, <1>5, <2>1, <2>2 DEF Appended
<1> QED BY <1>3, <1>4, <1>5, OutSteps

\* All that the two theorems rest on.
BaseInv == TypeInv /\ EobInv /\ PendInv /\ LinkInv /\ MailInv

LEMMA InitBase ==
  ASSUME Init
  PROVE  BaseInv
<1>1. EobInv
  BY ShortOnes, NewIsIdle, Peers DEF Init, EobInv, EobOf, Underway, Unfinished
<1>2. PendInv
  <2>1. conf.MaxCrashes \in Nat
    BY ConfFields DEF Init
  <2> QED BY <2>1 DEF Init, PendInv, MayReplace
<1> QED BY <1>1, <1>2, InitType, InitMail DEF BaseInv

LEMMA NextBase ==
  ASSUME BaseInv, [Next]_vars
  PROVE  BaseInv'
<1>1. TypeInv' /\ EobInv' /\ TypeOK /\ TypeOK'
  BY NextType, NextEob DEF BaseInv, TypeInv
<1>2. PendInv'
  <2>1. UNCHANGED vars => PendInv'
    BY DEF vars, PendInv, MayReplace, disk, env, BaseInv
  <2> QED BY <1>1, <2>1, StepKeepsPending, EnvironmentKeepsPending DEF Next, BaseInv
<1>3. LinkInv' /\ MailInv'
  BY <1>1, NextLink, NextMail DEF BaseInv
<1> QED BY <1>1, <1>2, <1>3 DEF BaseInv

\* Every packet that a system has produced for the other one is in its
\* outbound file, on the other one's disk or in the other one's message bases,
\* whatever is lost, broken, late or repeated: for every number of sessions,
\* crashes and resets, every size of file and every length of chunk.  Lost may
\* be what was appended between an M_FILE and its M_GOT, what POSIX renames
\* replace, and what could not be read.
THEOREM NothingIsLost == Spec => []NoLoss
<1>1. Init => BaseInv /\ NoLoss
  <2>1. ASSUME Init PROVE NoLoss
    <3>1. \A s \in Sides : Range(out[s]) = 1 .. posted[s]
      BY <2>1 DEF Init, Range
    <3> QED BY <3>1 DEF NoLoss
  <2> QED BY <2>1, InitBase
<1>2. (BaseInv /\ NoLoss) /\ [Next]_vars => (BaseInv /\ NoLoss)'
  BY NextBase, NextConf, NextLoss DEF BaseInv
<1> QED BY <1>1, <1>2, PTL DEF Spec

-----------------------------------------------------------------------------
(* Pending files are whole.                                                *)

LEMMA NextWhole ==
  ASSUME TypeOK, MailInv, PendingIsWhole, [Next]_vars, conf' = conf
  PROVE  PendingIsWhole'
<1> SUFFICES ASSUME ~conf.GetChunkFails, NEW t \in Sides, NEW i \in DOMAIN pend'[t]
             PROVE  \E o \in offers'[Peer(t)] : IsPrefix(o, pend'[t][i])
  BY DEF PendingIsWhole
<1>1. Peer(t) \in Sides /\ pend[t] \in Seq(MailFile) /\ inb[t] \in MailFile
  BY TwoSides DEF TypeOK
<1>2. offers[Peer(t)] \subseteq offers'[Peer(t)]
  <2>1. offers' = offers \/ \E s \in Sides : offers' = [offers EXCEPT ![s] = @ \cup {out[s]}]
    <3>1. CASE UNCHANGED vars
      BY <3>1 DEF vars, ghost
    <3>2. CASE Environment
      BY <3>2 DEF Environment, Call, Reset, Crash, ResetArrives, network1_appends,
                  network1_tosses, ghost
    <3>3. ASSUME NEW s \in Sides, Handler(s)
          PROVE  offers' = offers \/ offers' = [offers EXCEPT ![s] = @ \cup {out[s]}]
      BY <3>3 DEF Handler, ConnInit, WaitConn, WaitConnReturns, SendPasswd, WaitAddr, AuthRemote,
             IfSecure, WaitOk, WaitPwd, PasswordAck, SendFilePacket, NothingToSend, SendFileData,
             GetChunk, BadChunk, DanglingChunk, SendChunk, AfterChunk, SendEob,
             TransferFilesReturns, WaitEob, Unknown, Done, LoopEnd, rename_pending_files,
             process_network_files, UpdateContact, ghost
    <3>4. ASSUME NEW s \in Sides, ReceiveFrame(s) \/ SocketClosed(s)
          PROVE  offers' = offers
      BY <3>4 DEF ReceiveFrame, ReceiveCommand, HandleFileGotRequest, process_data, DropData,
                  SocketClosed, ghost
    <3> QED BY <3>1, <3>2, <3>3, <3>4 DEF Next, Step
  <2> QED BY <1>1, <2>1 DEF TypeOK
<1>3. \A k \in DOMAIN pend[t] : \E o \in offers[Peer(t)] : IsPrefix(o, pend[t][k])
  BY DEF PendingIsWhole
<1>4. CASE pend'[t] = pend[t]
  BY <1>2, <1>3, <1>4
<1>5. CASE pend'[t] = <<>>
  BY <1>5
<1>6. CASE rename_pending_files(t) /\ Received(t) /\ pend'[t] = Renamed(t)
  <2>1. \E o \in offers[Peer(t)] : IsPrefix(o, inb[t])
    <3>1. pc[t] = "rename" /\ sess[t].received
      BY <1>6 DEF rename_pending_files, Received
    <3> QED BY <3>1 DEF MailInv, MailOf, DataOf
  <2>2. pend'[t][i] = inb[t] \/ (i \in DOMAIN pend[t] /\ pend'[t][i] = pend[t][i])
    <3>1. CASE pend'[t] = <<inb[t]>>
      BY <3>1
    <3>2. CASE pend'[t] = Append(pend[t], inb[t])
      <4>1. \A k \in DOMAIN Append(pend[t], inb[t]) :
              Append(pend[t], inb[t])[k] = inb[t]
                \/ (k \in DOMAIN pend[t] /\ Append(pend[t], inb[t])[k] = pend[t][k])
        BY <1>1
      <4> QED BY <3>2, <4>1
    <3> QED BY <1>6, <3>1, <3>2 DEF Renamed
  <2> QED BY <1>2, <1>3, <2>1, <2>2
<1>7. \/ pend'[t] = pend[t] \/ pend'[t] = <<>>
      \/ rename_pending_files(t) /\ Received(t) /\ pend'[t] = Renamed(t)
  <2>1. CASE UNCHANGED vars
    BY <2>1 DEF vars, disk
  <2>2. CASE Environment
    BY <2>2 DEF Environment, Call, Reset, Crash, ResetArrives, network1_appends,
                network1_tosses, Network1, disk, TypeOK
  <2>3. ASSUME NEW s \in Sides, rename_pending_files(s)
        PROVE  \/ pend'[t] = pend[t]
               \/ rename_pending_files(t) /\ Received(t) /\ pend'[t] = Renamed(t)
    <3>1. pend' = pend \/ (Received(s) /\ pend' = [pend EXCEPT ![s] = Renamed(s)])
      BY <2>3 DEF rename_pending_files
    <3>2. CASE t = s
      BY <2>3, <3>1, <3>2 DEF TypeOK
    <3>3. CASE t # s
      BY <3>1, <3>3 DEF TypeOK
    <3> QED BY <3>2, <3>3
  <2>4. ASSUME NEW s \in Sides, process_network_files(s)
        PROVE  pend'[t] = pend[t] \/ pend'[t] = <<>>
    BY <2>4 DEF process_network_files, Network1, TypeOK
  <2>5. ASSUME NEW s \in Sides, Handler(s)
        PROVE  rename_pending_files(s) \/ process_network_files(s) \/ pend' = pend
    BY <2>5 DEF Handler, ConnInit, WaitConn, WaitConnReturns, SendPasswd, WaitAddr, AuthRemote,
           IfSecure, WaitOk, WaitPwd, PasswordAck, SendFilePacket, NothingToSend, SendFileData,
           GetChunk, BadChunk, DanglingChunk, SendChunk, AfterChunk, SendEob,
           TransferFilesReturns, WaitEob, Unknown, Done, LoopEnd, UpdateContact, disk
  <2>6. ASSUME NEW s \in Sides, ReceiveFrame(s) \/ SocketClosed(s)
        PROVE  pend' = pend
    BY <2>6 DEF ReceiveFrame, ReceiveCommand, HandleFileGotRequest, process_data, DropData,
                SocketClosed, disk
  <2> QED BY <2>1, <2>2, <2>3, <2>4, <2>5, <2>6 DEF Next, Step
<1> QED BY <1>4, <1>5, <1>6, <1>7

\* Every pending file starts with all of what the other system offered in one
\* M_FILE, for every scenario in which files can be read: network1 is never
\* handed a file that a broken session cut short.
THEOREM PendingFilesAreWhole == Spec => []PendingIsWhole
<1>1. Init => BaseInv /\ PendingIsWhole
  BY InitBase DEF Init, PendingIsWhole
<1>2. (BaseInv /\ PendingIsWhole) /\ [Next]_vars => (BaseInv /\ PendingIsWhole)'
  BY NextBase, NextConf, NextWhole DEF BaseInv
<1> QED BY <1>1, <1>2, PTL DEF Spec

-----------------------------------------------------------------------------
(* Undisturbed sessions.                                                   *)

\* The file of side p: all the packets it has produced.
Mail(p) == [i \in 1..posted[p] |-> i]

\* A side outside of its windows.
Acting(s) == pc[s] = "chunk" \/ (pc[s] = "handler" /\ state[s] \notin WindowStates)

\* Nothing breaks; a side is open until it is done, and where it is in a
\* handler goes with the state.
Closing == {"rename", "network", "contact"}
PlaceOf(s) ==
  /\ ~rst[s] /\ ~sess[s].error_received /\ state[s] # "UNKNOWN"
  /\ pc[s] = "idle" => sess[s] = NewBinkP(FALSE) /\ state[s] = StartState(s)
  /\ sess[s].done => ~sess[s].open
  /\ ~sess[s].open => /\ chan[s] = <<>> /\ pc[s] \in Ending \cup {"tail"}
                      /\ pc[s] = "tail" => sess[s].done
                      /\ pc[s] # "idle" => state[s] = "DONE"
  /\ pc[s] \in Closing => chan[s] = <<>> /\ (~sess[s].open \/ ~sess[Peer(s)].open)
  /\ pc[s] = "WaitConn" => state[s] = "WAIT_CONN"
  /\ pc[s] \in {"afterFile", "chunk", "afterData", "flush", "afterEob"} =>
       state[s] = "TRANSFER_FILES"
  /\ pc[s] \in Closing => state[s] \in {"TRANSFER_FILES", "WAIT_EOB", "DONE"}
  /\ IF s = "ANSWERING"
       THEN state[s] \notin {"CONN_INIT", "SEND_PASSWORD", "IF_SECURE", "WAIT_OK"}
       ELSE state[s] \notin {"WAIT_PWD", "PASSWORD_ACK"}

\* A side that acts has read all there was, and the other one waits for it:
\* the sides take turns.
TurnOf(s) ==
  Acting(s) => /\ chan[s] = <<>> /\ chan[Peer(s)] = <<>>
               /\ InWindow(Peer(s)) \/ ~sess[Peer(s)].open

\* What a side has sent, from where it is.
Early(s, S) == pc[s] \in {"handler", "tail"} /\ state[s] \in S
GreetingSent(s) == ~Early(s, {"CONN_INIT", "WAIT_CONN"})
PasswordSent(s) ==
  ~Early(s, {"CONN_INIT", "WAIT_CONN", "SEND_PASSWORD"}) /\ pc[s] # "WaitConn"
OkSent(s) ==
  ~Early(s, {"WAIT_CONN", "WAIT_ADDR", "AUTH_REMOTE", "WAIT_PWD", "PASSWORD_ACK"})
  /\ pc[s] # "WaitConn"
EobSent(s) ==
  pc[s] \in Ending \cup {"afterEob"} \/ Early(s, {"WAIT_EOB", "DONE"})

\* A password that the answering side accepts, however it has travelled.
Accepted(auth_type, password) ==
  password = IF auth_type = "CRAM_MD5"
               THEN CreateHashedSecret(Challenge, conf.Password["ANSWERING"])
               ELSE PlainText(conf.Password["ANSWERING"])

\* At most one frame is on its way, but for the greeting of the answering
\* side.
FrameOK(s, f) ==
  /\ f.cmd # "M_ERR"
  /\ f.cmd = "M_NUL" => s = "ORIGINATING"
  /\ f.cmd = "M_PWD" => s = "ANSWERING" /\ Accepted(f.auth_type, f.password)
  /\ f.cmd = "M_EOB" => EobSent(Peer(s))
ChanOf(s) ==
  /\ chan[s] # <<>> => chan[Peer(s)] = <<>>
  /\ Len(chan[s]) <= 1 \/ (s = "ORIGINATING" /\ chan[s] = Greeting("ANSWERING"))
  /\ \A k \in DOMAIN chan[s] : FrameOK(s, chan[s][k])

\* What the other side has sent was heard, or is on its way.
HeardOf(s) ==
  pc[s] # "idle" =>
    /\ GreetingSent(Peer(s)) => sess[s].address_list \/ Has(chan[s], "M_ADR")
    /\ s = "ANSWERING" /\ PasswordSent(Peer(s)) =>
         sess[s].remote_password # PlainText("") \/ Has(chan[s], "M_PWD")
    /\ s = "ORIGINATING" /\ OkSent(Peer(s)) => sess[s].ok_received \/ Has(chan[s], "M_OK")
    /\ EobSent(Peer(s)) => sess[s].eob_received \/ Has(chan[s], "M_EOB")

\* What a side knows of what it has heard, and when it has waited for it.
KnowsOf(s) ==
  pc[s] # "idle" =>
    /\ state[s] \notin {"CONN_INIT", "WAIT_CONN", "SEND_PASSWORD", "WAIT_ADDR"} =>
         sess[s].address_list
    /\ s = "ORIGINATING" /\ sess[s].auth_type = "CRAM_MD5" => sess[s].challenge = Challenge
    /\ s = "ANSWERING" =>
         /\ GreetingSent(s) => sess[s].challenge = Challenge
         /\ \/ sess[s].remote_password = PlainText("")
            \/ Accepted(sess[s].auth_type, sess[s].remote_password)
         /\ state[s] = "PASSWORD_ACK" => sess[s].remote_password # PlainText("")
    /\ sess[s].eob_received => EobSent(Peer(s))
    /\ ~sess[Peer(s)].open => EobSent(s)
    /\ state[s] = "DONE" \/ pc[s] \in Closing => sess[s].eob_received

-----------------------------------------------------------------------------
(* The way of a file.                                                      *)

\* No part of the file of p is on the line.
NoneOnLine(p) ==
  ~Has(chan[Peer(p)], "M_FILE") /\ ~Has(chan[Peer(p)], "DATA") /\ ~Has(chan[p], "M_GOT")

\* Nothing of it has reached the disk of the other side.
Untouched(r) == pend[r] = <<>> /\ delivered[r] = {}

Home(p) ==
  /\ Before(p) \/ (\A s \in Sides : pc[s] = "idle" /\ budget.sessions = conf.MaxSessions)
  /\ ~sess[p].to_send /\ out[p] = Mail(p)
  /\ ~Receiving(sess[Peer(p)]) /\ ~sess[Peer(p)].received
  /\ inb[Peer(p)] = <<>> /\ Untouched(Peer(p)) /\ NoneOnLine(p)

\* The other side has the first n packets of it and waits for more.
Partial(r, p, n) ==
  /\ Receiving(sess[r]) /\ sess[r].current_receive_file.size = Len(Mail(p))
  /\ sess[r].current_receive_file.len = n /\ (n > 0 => sess[r].current_receive_file.open)
  /\ inb[r] = SubSeq(Mail(p), 1, n) /\ ~sess[r].received
NoPart(r) == ~Receiving(sess[r]) /\ ~sess[r].received /\ inb[r] = <<>>
HasAll(r, p) == ~Receiving(sess[r]) /\ sess[r].received /\ inb[r] = Mail(p)

Offered(p) ==
  /\ pc[p] = "afterFile"
  /\ \/ NoPart(Peer(p)) /\ chan[Peer(p)] = <<[cmd |-> "M_FILE", size |-> Len(Mail(p))]>>
     \/ Partial(Peer(p), p, 0) /\ NoneOnLine(p)
Sending(p) ==
  /\ pc[p] \in {"chunk", "afterData"} /\ sess[p].start < Len(Mail(p))
  /\ Partial(Peer(p), p, sess[p].start) /\ NoneOnLine(p)
Sent(p) ==
  /\ pc[p] = "afterData"
  /\ LET n == sess[p].start - conf.ChunkSize
     IN  /\ n \in Nat /\ n < Len(Mail(p))
         /\ Partial(Peer(p), p, n)
         /\ chan[Peer(p)] = <<[cmd |-> "DATA", data |-> Piece(Mail(p), n)]>>
Answered(p) ==
  /\ pc[p] = "afterData" /\ sess[p].start >= Len(Mail(p))
  /\ HasAll(Peer(p), p)
  /\ Len(chan[p]) = 1 /\ chan[p][1].cmd = "M_GOT"
Transit(p) ==
  /\ sess[p].to_send /\ out[p] = Mail(p) /\ out[p] # <<>> /\ Untouched(Peer(p))
  /\ pc[p] # "afterFile" => sess[p].file_length = Len(Mail(p))
  /\ Offered(p) \/ Sending(p) \/ Sent(p) \/ Answered(p)

\* The other side has all of it, in one of three places.
InPlace(r, p) ==
  \/ HasAll(r, p) /\ Untouched(r) /\ pc[r] \notin {"network", "contact", "idle"}
  \/ pend[r] = <<Mail(p)>> /\ delivered[r] = {} /\ inb[r] = <<>> /\ pc[r] = "network"
  \/ /\ pend[r] = <<>> /\ delivered[r] = 1..posted[p] /\ inb[r] = <<>>
     /\ sess[r].received => pc[r] \in {"network", "contact"}
Over(p) ==
  /\ ~sess[p].to_send /\ out[p] = <<>> /\ ~Receiving(sess[Peer(p)])
  /\ pc[p] \notin {"afterFile", "chunk"}
  /\ pc[p] = "afterData" => sess[p].start >= sess[p].file_length
  /\ NoneOnLine(p) /\ InPlace(Peer(p), p)
MailAt(p) == Home(p) \/ Transit(p) \/ Over(p)

-----------------------------------------------------------------------------
\* A session is a contact of each side, once it is over.
CountOf(s) ==
  contact[s] = [numcontacts |-> conf.MaxSessions - budget.sessions - (IF pc[s] = "idle" THEN 0 ELSE 1),
                numfails |-> 0]
BudgetInv == budget.crashes = 0 /\ budget.resets = 0 /\ budget.sessions <= conf.MaxSessions

SmoothOf(s) ==
  /\ PlaceOf(s) /\ TurnOf(s) /\ ChanOf(s) /\ HeardOf(s) /\ KnowsOf(s) /\ MailAt(s) /\ CountOf(s)
Smooth == BudgetInv /\ \A s \in Sides : SmoothOf(s)
SmoothInv == Undisturbed => Smooth

-----------------------------------------------------------------------------
(* Waiting.                                                                *)

\* A side in a handler has its socket open.
LEMMA OpenInside ==
  ASSUME Smooth, NEW s \in Sides, pc[s] \notin Ending, pc[s] # "tail"
  PROVE  sess[s].open
  BY DEF Smooth, SmoothOf, PlaceOf

\* No long wait ends without what was waited for: if both sides waited, each
\* would have heard from the other.
LEMMA NoLongTimeout ==
  ASSUME TypeOK, Undisturbed, Smooth, NEW s \in Sides, LongWait(s)
  PROVE  ~TimesOut(s)
<1> SUFFICES ASSUME TimesOut(s) PROVE FALSE
  OBVIOUS
<1>1. \A t \in Sides : LongWait(t) /\ chan[t] = <<>>
  BY TwoSides DEF TimesOut, Undisturbed
<1>2. \A t \in Sides :
        /\ pc[t] = "handler" /\ ~Predicate(t) /\ ~Has(chan[t], "M_ADR") /\ ~Has(chan[t], "M_PWD")
        /\ ~Has(chan[t], "M_OK") /\ ~Has(chan[t], "M_EOB")
        /\ state[t] \in {"WAIT_ADDR", "WAIT_PWD", "WAIT_OK", "WAIT_EOB"}
        /\ HeardOf(t) /\ PlaceOf(t)
  BY <1>1, ShortOnes DEF LongWait, Smooth, SmoothOf
<1>3. \A t \in Sides : GreetingSent(t) /\ PasswordSent(t)
  BY <1>2 DEF GreetingSent, PasswordSent, Early
<1>4. \A t \in Sides : Peer(t) \in Sides
  BY TwoSides
<1>5. \A t \in Sides : state[t] # "WAIT_ADDR"
  BY <1>2, <1>3, <1>4 DEF HeardOf, Predicate
<1>6. state["ANSWERING"] = "WAIT_EOB"
  BY <1>2, <1>3, <1>5 DEF HeardOf, Predicate, PlaceOf, Sides, Peer
<1>7. OkSent("ANSWERING")
  BY <1>2, <1>6 DEF OkSent, Early, Sides
<1>8. state["ORIGINATING"] = "WAIT_EOB"
  BY <1>2, <1>5, <1>7 DEF HeardOf, Predicate, PlaceOf, Sides, Peer
<1>9. EobSent("ORIGINATING") /\ state["ANSWERING"] = "WAIT_EOB"
  BY <1>2, <1>6, <1>8 DEF EobSent, Early, Sides
<1> QED BY <1>2, <1>9 DEF HeardOf, Predicate, Sides, Peer

\* So a wait ends with its predicate,
LEMMA WaitEnds ==
  ASSUME TypeOK, Undisturbed, Smooth, NEW s \in Sides, pc[s] = "handler", Leaves(s),
         state[s] \in {"WAIT_ADDR", "WAIT_PWD", "WAIT_OK", "WAIT_EOB"}
  PROVE  Predicate(s)
<1>1. sess[s].open
  BY OpenInside DEF Ending
<1>2. LongWait(s) \/ Predicate(s)
  BY DEF LongWait
<1> QED BY <1>1, <1>2, NoLongTimeout DEF Leaves

\* and any other window when all is quiet.
LEMMA WindowEnds ==
  ASSUME TypeOK, Undisturbed, Smooth, NEW s \in Sides, sess[s].open, Leaves(s), ~Predicate(s)
  PROVE  /\ chan[s] = <<>> /\ chan[Peer(s)] = <<>>
         /\ InWindow(Peer(s)) \/ ~sess[Peer(s)].open
  BY DEF Leaves, TimesOut, Undisturbed

\* A side that acts is in no window.
LEMMA ActingIsOutside ==
  ASSUME Smooth, NEW s \in Sides, Acting(s)
  PROVE  ~InWindow(s) /\ sess[s].open /\ chan[s] = <<>> /\ chan[Peer(s)] = <<>>
<1>1. PlaceOf(s) /\ TurnOf(s)
  BY DEF Smooth, SmoothOf
<1> QED BY <1>1 DEF Acting, InWindow, WindowPcs, PlaceOf, TurnOf, Ending

-----------------------------------------------------------------------------
(* A side goes on.                                                         *)

\* Only where side s is changes.
Moves(s) ==
  /\ \A t \in Sides \ {s} : pc'[t] = pc[t] /\ state'[t] = state[t]
  /\ sess' = sess /\ chan' = chan /\ rst' = rst
  /\ UNCHANGED <<out, inb, pend, delivered, contact, posted, budget, conf>>

\* What has been sent stays the same.
SaysNoMore(s) ==
  /\ GreetingSent(s)' = GreetingSent(s) /\ EobSent(s)' = EobSent(s)
  /\ s = "ORIGINATING" => PasswordSent(s)' = PasswordSent(s)
  /\ s = "ANSWERING" => OkSent(s)' = OkSent(s)

\* Where the file of s stands does not depend on where s is, as long as it is not
\* sending it.
LEMMA MailMoves ==
  ASSUME Smooth, NEW s \in Sides, Moves(s), pc[s] # "idle",
         Before(s) => Before(s)', {pc[s], pc'[s]} \cap {"afterFile", "chunk", "afterData"} = {}
  PROVE  MailAt(s)'
<1> DEFINE r == Peer(s)
<1>1. r \in Sides /\ r # s /\ pc'[r] = pc[r] /\ MailAt(s)
  BY TwoSides DEF Smooth, SmoothOf, Moves
<1>2. Mail(s)' = Mail(s) /\ NoneOnLine(s)' = NoneOnLine(s) /\ Untouched(r)' = Untouched(r)
  BY DEF Moves, Mail, NoneOnLine, Untouched
<1>3. ~Transit(s)
  BY DEF Transit, Offered, Sending, Sent, Answered
<1>4. CASE Home(s)
  <2>1. Home(s)'
    BY <1>1, <1>2, <1>4 DEF Home, Moves, Receiving
  <2> QED BY <2>1 DEF MailAt
<1>5. CASE Over(s)
  <2>1. InPlace(r, s)' = InPlace(r, s)
    BY <1>1, <1>2 DEF InPlace, Moves, HasAll, Receiving
  <2>2. Over(s)'
    BY <1>1, <1>2, <1>5, <2>1 DEF Over, Moves, Receiving
  <2> QED BY <2>2 DEF MailAt
<1> QED BY <1>1, <1>3, <1>4, <1>5 DEF MailAt

\* Nor does that of the other side, before s renames what it has received.
LEMMA PeerMailMoves ==
  ASSUME Smooth, NEW s \in Sides, Moves(s),
         {pc[s], pc'[s]} \cap {"network", "contact", "idle"} = {}
  PROVE  MailAt(Peer(s))'
<1>1. PICK r \in Sides : r = Peer(s) /\ r # s /\ Peer(r) = s
  BY TwoSides
<1>2. pc'[r] = pc[r] /\ state'[r] = state[r] /\ MailAt(r)
  BY <1>1 DEF Smooth, SmoothOf, Moves
<1>3. Mail(r)' = Mail(r) /\ NoneOnLine(r)' = NoneOnLine(r) /\ Untouched(s)' = Untouched(s)
  BY <1>1 DEF Moves, Mail, NoneOnLine, Untouched
<1>4. CASE Home(r)
  <2>1. Before(r)' = Before(r)
    BY <1>2 DEF Before
  <2>2. Home(r)'
    BY <1>1, <1>2, <1>3, <1>4, <2>1 DEF Home, Moves, Receiving
  <2> QED BY <1>1, <2>2 DEF MailAt
<1>5. CASE Transit(r)
  <2>1. /\ \A n : Partial(s, r, n)' = Partial(s, r, n)
        /\ NoPart(s)' = NoPart(s) /\ HasAll(s, r)' = HasAll(s, r)
        /\ \A n : Piece(Mail(r), n)' = Piece(Mail(r), n)
    BY <1>1, <1>3 DEF Partial, NoPart, HasAll, Moves, Receiving, Piece
  <2>2. /\ Offered(r)' = Offered(r) /\ Sending(r)' = Sending(r)
        /\ Sent(r)' = Sent(r) /\ Answered(r)' = Answered(r)
    BY <1>1, <1>2, <1>3, <2>1 DEF Offered, Sending, Sent, Answered, Moves
  <2>3. Transit(r)'
    BY <1>1, <1>2, <1>3, <1>5, <2>2 DEF Transit, Moves
  <2> QED BY <1>1, <2>3 DEF MailAt
<1>6. CASE Over(r)
  <2>1. InPlace(s, r)'
    BY <1>1, <1>2, <1>3, <1>6 DEF Over, InPlace, Moves, HasAll, Receiving
  <2>2. Over(r)'
    BY <1>1, <1>2, <1>3, <1>6, <2>1 DEF Over, Moves, Receiving
  <2> QED BY <1>1, <2>2 DEF MailAt
<1> QED BY <1>2, <1>4, <1>5, <1>6 DEF MailAt

\* All the rest is kept where s says no more, and stays where it can be heard.
LEMMA MoveKeeps ==
  ASSUME Smooth, NEW s \in Sides, Moves(s), SaysNoMore(s), pc[s] # "idle", pc'[s] # "idle",
         {pc[s], pc'[s]} \cap {"network", "contact"} = {},
         PlaceOf(s)', TurnOf(s)', KnowsOf(s)', MailAt(s)',
         Acting(Peer(s)) /\ sess[s].open => InWindow(s)'
  PROVE  Smooth'
<1>1. PICK r \in Sides : r = Peer(s) /\ r # s /\ Peer(r) = s /\ \A t \in Sides : t \in {r, s}
  BY TwoSides
<1>2. pc'[r] = pc[r] /\ state'[r] = state[r]
  BY <1>1 DEF Moves
<1>3. SmoothOf(r) /\ SmoothOf(s)
  BY DEF Smooth
<1>4. PlaceOf(r)' /\ KnowsOf(r)'
  <2>1. /\ GreetingSent(r)' = GreetingSent(r) /\ EobSent(r)' = EobSent(r)
        /\ Accepted(sess[r].auth_type, sess[r].remote_password)'
             = Accepted(sess[r].auth_type, sess[r].remote_password)
    BY <1>2 DEF GreetingSent, EobSent, Early, Accepted, Moves
  <2>2. PlaceOf(r)'
    BY <1>1, <1>2, <1>3 DEF SmoothOf, PlaceOf, Moves
  <2>3. KnowsOf(r)'
    BY <1>1, <1>2, <1>3, <2>1 DEF SmoothOf, KnowsOf, Moves, SaysNoMore
  <2> QED BY <2>2, <2>3
<1>5. TurnOf(r)'
  <2>1. Acting(r)' = Acting(r)
    BY <1>2 DEF Acting
  <2>2. sess[s].open => sess'[s].open
    BY DEF Moves
  <2> QED BY <1>1, <1>3, <2>1, <2>2 DEF SmoothOf, TurnOf, Moves
<1>6. ChanOf(r)' /\ ChanOf(s)'
  <2>1. EobSent(r)' = EobSent(r) /\ EobSent(s)' = EobSent(s)
    BY <1>2 DEF EobSent, Early, SaysNoMore
  <2>2. \A a, p : Accepted(a, p)' = Accepted(a, p)
    BY DEF Accepted, Moves
  <2>3. \A f : FrameOK(r, f)' = FrameOK(r, f) /\ FrameOK(s, f)' = FrameOK(s, f)
    BY <1>1, <2>1, <2>2 DEF FrameOK
  <2> QED BY <1>1, <1>3, <2>3 DEF SmoothOf, ChanOf, Moves
<1>7. HeardOf(r)' /\ HeardOf(s)'
  <2>1. /\ GreetingSent(r)' = GreetingSent(r) /\ EobSent(r)' = EobSent(r)
        /\ PasswordSent(r)' = PasswordSent(r) /\ OkSent(r)' = OkSent(r)
    BY <1>2 DEF GreetingSent, EobSent, PasswordSent, OkSent, Early
  <2>2. r = "ANSWERING" => s = "ORIGINATING"
    BY <1>1 DEF Peer
  <2>3. r = "ORIGINATING" => s = "ANSWERING"
    BY <1>1 DEF Peer
  <2>4. HeardOf(r)'
    BY <1>1, <1>2, <1>3, <2>2, <2>3 DEF SmoothOf, HeardOf, Moves, SaysNoMore
  <2>5. HeardOf(s)'
    BY <1>1, <1>3, <2>1 DEF SmoothOf, HeardOf, Moves
  <2> QED BY <2>4, <2>5
<1>8. MailAt(r)'
  BY <1>1, PeerMailMoves
<1>9. CountOf(r)' /\ CountOf(s)' /\ BudgetInv'
  BY <1>2, <1>3 DEF SmoothOf, CountOf, Moves, Smooth, BudgetInv
<1> QED BY <1>1, <1>4, <1>5, <1>6, <1>7, <1>8, <1>9 DEF Smooth, SmoothOf

\* A handler that returns without a word.
LEMMA ReturnMoves ==
  ASSUME TypeOK, Smooth, NEW s \in Sides, NEW next \in BinkState, Return(s, next, sess[s]), Quiet,
         UNCHANGED <<disk, contact, ghost, env>>
  PROVE  Moves(s) /\ pc'[s] = "tail" /\ state'[s] = next
<1>1. sess[s] \in Members /\ ~sess[s].error_received
  BY DEF TypeOK, Smooth, SmoothOf, PlaceOf
<1>2. sess[s].done \in BOOLEAN
  BY <1>1, Fields
<1>3. [sess[s] EXCEPT !.done = sess[s].done \/ sess[s].error_received] = sess[s]
  <2>1. (sess[s].done \/ sess[s].error_received) = sess[s].done
    BY <1>1, <1>2
  <2> QED BY <1>1, <2>1 DEF Members
<1>4. sess' = sess
  BY <1>3 DEF Return, TypeOK
<1> QED BY <1>4 DEF Return, Quiet, Moves, TypeOK, disk, ghost, env

LEMMA ReturnSmooth ==
  ASSUME TypeOK, Smooth, NEW s \in Sides, NEW next \in BinkState \ {"UNKNOWN"},
         Return(s, next, sess[s]), Quiet, UNCHANGED <<disk, contact, ghost, env>>,
         pc[s] \notin Ending \cup {"tail", "afterFile", "chunk", "afterData"},
         SaysNoMore(s), Before(s) => Before(s)',
         IF s = "ANSWERING" THEN next \notin {"CONN_INIT", "SEND_PASSWORD", "IF_SECURE", "WAIT_OK"}
                            ELSE next \notin {"WAIT_PWD", "PASSWORD_ACK"},
         next \notin {"CONN_INIT", "WAIT_CONN", "SEND_PASSWORD", "WAIT_ADDR"} =>
           sess[s].address_list,
         next = "PASSWORD_ACK" => sess[s].remote_password # PlainText(""),
         next = "DONE" => sess[s].eob_received
  PROVE  Smooth'
<1>1. Moves(s) /\ pc'[s] = "tail" /\ state'[s] = next
  BY ReturnMoves
<1>2. PlaceOf(s) /\ KnowsOf(s) /\ sess[s].open
  BY OpenInside DEF Smooth, SmoothOf
<1>3. PlaceOf(s)'
  BY <1>1, <1>2 DEF PlaceOf, Moves, Closing, Ending
<1>4. TurnOf(s)' /\ InWindow(s)'
  BY <1>1, <1>2 DEF TurnOf, Acting, InWindow, WindowPcs, Moves
<1>5. KnowsOf(s)'
  <2>1. EobSent(Peer(s))' = EobSent(Peer(s))
    BY <1>1, TwoSides DEF EobSent, Early, Moves
  <2>2. \A a, p : Accepted(a, p)' = Accepted(a, p)
    BY <1>1 DEF Accepted, Moves
  <2>3. pc[s] # "idle" /\ pc'[s] \notin Closing
    BY <1>1 DEF Ending, Closing
  <2> QED BY <1>1, <1>2, <2>1, <2>2, <2>3 DEF KnowsOf, Moves, SaysNoMore
<1>6. MailAt(s)'
  BY <1>1, MailMoves DEF Ending
<1> QED BY <1>1, <1>3, <1>4, <1>5, <1>6, MoveKeeps DEF Ending

\* The handlers that only wait, and those that need not refuse.
LEMMA WaitsSmooth ==
  ASSUME TypeOK, Undisturbed, Smooth, NEW s \in Sides,
         \/ ConnInit(s) \/ WaitConnReturns(s) \/ WaitAddr(s) \/ AuthRemote(s)
         \/ IfSecure(s) \/ WaitOk(s) \/ WaitPwd(s)
  PROVE  Smooth'
<1>1. PlaceOf(s) /\ KnowsOf(s)
  BY DEF Smooth, SmoothOf
<1>2. CASE ConnInit(s)
  <2>1. Return(s, "WAIT_CONN", sess[s]) /\ Quiet /\ UNCHANGED <<disk, contact, ghost, env>>
    BY <1>2 DEF ConnInit
  <2>2. pc[s] = "handler" /\ state[s] = "CONN_INIT" /\ pc'[s] = "tail" /\ state'[s] = "WAIT_CONN"
    BY <1>2, <2>1 DEF ConnInit, At, Return, TypeOK
  <2>3. SaysNoMore(s) /\ Before(s)'
    BY <1>1, <2>2 DEF SaysNoMore, GreetingSent, PasswordSent, OkSent, EobSent, Early, Ending, Before,
       EarlyStates, BinkState, PlaceOf
  <2> QED BY <2>1, <2>2, <2>3, ReturnSmooth DEF BinkState, Ending
<1>3. CASE WaitConnReturns(s)
  <2> DEFINE next == IF s = "ORIGINATING" THEN "SEND_PASSWORD" ELSE "WAIT_ADDR"
  <2>1. Return(s, next, sess[s]) /\ Quiet /\ UNCHANGED <<disk, contact, ghost, env>>
    BY <1>3 DEF WaitConnReturns
  <2>2. pc[s] = "WaitConn" /\ pc'[s] = "tail" /\ state'[s] = next
    BY <1>3, <2>1 DEF WaitConnReturns, Return, TypeOK
  <2>3. SaysNoMore(s) /\ Before(s)'
    BY <1>1, <2>2 DEF SaysNoMore, GreetingSent, PasswordSent, OkSent, EobSent, Early, Ending, Before,
       EarlyStates, BinkState, PlaceOf
  <2>4. next \in BinkState \ {"UNKNOWN", "DONE"}
    BY DEF BinkState
  <2> QED BY <2>1, <2>2, <2>3, <2>4, ReturnSmooth DEF Ending
<1>4. CASE WaitAddr(s)
  <2>1. Return(s, "AUTH_REMOTE", sess[s]) /\ Quiet /\ UNCHANGED <<disk, contact, ghost, env>>
    BY <1>4 DEF WaitAddr
  <2>2. pc[s] = "handler" /\ state[s] = "WAIT_ADDR" /\ pc'[s] = "tail" /\ state'[s] = "AUTH_REMOTE"
    BY <1>4, <2>1 DEF WaitAddr, At, Return, TypeOK
  <2>3. SaysNoMore(s) /\ Before(s)'
    BY <2>2 DEF SaysNoMore, GreetingSent, PasswordSent, OkSent, EobSent, Early, Ending, Before,
       EarlyStates, BinkState
  <2>4. sess[s].address_list
    BY <1>4, <2>2, WaitEnds DEF WaitAddr, Predicate
  <2> QED BY <2>1, <2>2, <2>3, <2>4, ReturnSmooth DEF BinkState, Ending
<1>5. CASE AuthRemote(s)
  <2> DEFINE next == IF s = "ANSWERING" THEN "WAIT_PWD" ELSE "IF_SECURE"
  <2>1. pc[s] = "handler" /\ state[s] = "AUTH_REMOTE"
    BY <1>5 DEF AuthRemote, At
  <2>2. Knows(s)
    BY <1>1, <2>1 DEF KnowsOf, Knows, Undisturbed
  <2>3. Return(s, next, sess[s]) /\ Quiet /\ UNCHANGED <<disk, contact, ghost, env>>
    BY <1>5, <2>2 DEF AuthRemote
  <2>4. pc'[s] = "tail" /\ state'[s] = next
    BY <2>3 DEF Return, TypeOK
  <2>5. SaysNoMore(s) /\ Before(s)'
    BY <1>1, <2>1, <2>4 DEF SaysNoMore, GreetingSent, PasswordSent, OkSent, EobSent, Early, Ending, Before,
       EarlyStates, BinkState
  <2>6. next \in BinkState \ {"UNKNOWN", "DONE"} /\ sess[s].address_list
    BY <2>2 DEF BinkState, Knows
  <2> QED BY <2>1, <2>3, <2>5, <2>6, ReturnSmooth DEF Ending, Sides
<1>6. CASE IfSecure(s)
  <2>1. Return(s, "WAIT_OK", sess[s]) /\ Quiet /\ UNCHANGED <<disk, contact, ghost, env>>
    BY <1>6 DEF IfSecure
  <2>2. pc[s] = "handler" /\ state[s] = "IF_SECURE" /\ pc'[s] = "tail" /\ state'[s] = "WAIT_OK"
    BY <1>6, <2>1 DEF IfSecure, At, Return, TypeOK
  <2>3. s # "ANSWERING" /\ sess[s].address_list
    BY <1>1, <2>2 DEF PlaceOf, KnowsOf
  <2>4. SaysNoMore(s) /\ Before(s)'
    BY <2>2 DEF SaysNoMore, GreetingSent, PasswordSent, OkSent, EobSent, Early, Ending, Before,
       EarlyStates, BinkState
  <2> QED BY <2>1, <2>2, <2>3, <2>4, ReturnSmooth DEF BinkState, Ending
<1>7. CASE WaitOk(s)
  <2>1. pc[s] = "handler" /\ state[s] = "WAIT_OK"
    BY <1>7 DEF WaitOk, At
  <2>2. sess[s].ok_received
    BY <1>7, <2>1, WaitEnds DEF WaitOk, Predicate
  <2>3. Return(s, "TRANSFER_FILES", sess[s]) /\ Quiet /\ UNCHANGED <<disk, contact, ghost, env>>
    BY <1>7, <2>2 DEF WaitOk
  <2>4. pc'[s] = "tail" /\ state'[s] = "TRANSFER_FILES"
    BY <2>3 DEF Return, TypeOK
  <2>5. s # "ANSWERING" /\ sess[s].address_list
    BY <1>1, <2>1 DEF PlaceOf, KnowsOf
  <2>6. SaysNoMore(s) /\ Before(s)'
    BY <2>1, <2>4 DEF SaysNoMore, GreetingSent, PasswordSent, OkSent, EobSent, Early, Ending, Before,
       EarlyStates, BinkState
  <2> QED BY <2>1, <2>3, <2>5, <2>6, ReturnSmooth DEF BinkState, Ending
<1>8. CASE WaitPwd(s)
  <2>1. Return(s, "PASSWORD_ACK", sess[s]) /\ Quiet /\ UNCHANGED <<disk, contact, ghost, env>>
    BY <1>8 DEF WaitPwd
  <2>2. pc[s] = "handler" /\ state[s] = "WAIT_PWD" /\ pc'[s] = "tail" /\ state'[s] = "PASSWORD_ACK"
    BY <1>8, <2>1 DEF WaitPwd, At, Return, TypeOK
  <2>3. s = "ANSWERING" /\ sess[s].address_list
    BY <1>1, <2>2 DEF PlaceOf, KnowsOf
  <2>4. sess[s].remote_password # PlainText("")
    BY <1>8, <2>2, WaitEnds DEF WaitPwd, Predicate
  <2>5. SaysNoMore(s) /\ Before(s)'
    BY <2>2 DEF SaysNoMore, GreetingSent, PasswordSent, OkSent, EobSent, Early, Ending, Before,
       EarlyStates, BinkState
  <2> QED BY <2>1, <2>2, <2>3, <2>4, <2>5, ReturnSmooth DEF BinkState, Ending
<1> QED BY <1>2, <1>3, <1>4, <1>5, <1>6, <1>7, <1>8

\* The end of a transfer, and of the session.
LEMMA ReturnsSmooth ==
  ASSUME TypeOK, Undisturbed, Smooth, NEW s \in Sides, TransferFilesReturns(s) \/ WaitEob(s)
  PROVE  Smooth'
<1>1. PlaceOf(s) /\ KnowsOf(s) /\ MailAt(s)
  BY DEF Smooth, SmoothOf
<1>2. CASE TransferFilesReturns(s)
  <2>1. Return(s, "WAIT_EOB", sess[s]) /\ Quiet /\ UNCHANGED <<disk, contact, ghost, env>>
    BY <1>2 DEF TransferFilesReturns
  <2>2. pc[s] = "afterEob" /\ state[s] = "TRANSFER_FILES" /\ pc'[s] = "tail" /\ state'[s] = "WAIT_EOB"
    <3>1. pc[s] # "flush" \/ ~sess[s].to_send
      BY <1>1 DEF MailAt, Home, Transit, Over, Offered, Sending, Sent, Answered
    <3>2. pc[s] = "afterEob"
      BY <1>2, <3>1 DEF TransferFilesReturns, AllSent
    <3> QED BY <1>1, <2>1, <3>2 DEF Return, TypeOK, PlaceOf
  <2>3. SaysNoMore(s) /\ ~Before(s)
    BY <2>2 DEF SaysNoMore, GreetingSent, PasswordSent, OkSent, EobSent, Early, Ending, Before
  <2>4. sess[s].address_list
    BY <1>1, <2>2 DEF KnowsOf
  <2> QED BY <2>1, <2>2, <2>3, <2>4, ReturnSmooth DEF BinkState, Ending
<1>3. CASE WaitEob(s)
  <2>1. Return(s, "DONE", sess[s]) /\ Quiet /\ UNCHANGED <<disk, contact, ghost, env>>
    BY <1>3 DEF WaitEob
  <2>2. pc[s] = "handler" /\ state[s] = "WAIT_EOB" /\ pc'[s] = "tail" /\ state'[s] = "DONE"
    BY <1>3, <2>1 DEF WaitEob, At, Return, TypeOK
  <2>3. SaysNoMore(s) /\ ~Before(s)
    BY <2>2 DEF SaysNoMore, GreetingSent, PasswordSent, OkSent, EobSent, Early, Ending, Before,
       EarlyStates
  <2>4. sess[s].address_list /\ sess[s].eob_received
    BY <1>1, <1>3, <2>2, WaitEnds DEF KnowsOf, WaitEob, Predicate
  <2> QED BY <2>1, <2>2, <2>3, <2>4, ReturnSmooth DEF BinkState, Ending
<1> QED BY <1>2, <1>3

\* What a side knows is not changed by where it is.
LEMMA KnowsMoves ==
  ASSUME Smooth, NEW s \in Sides, Moves(s), SaysNoMore(s), pc[s] # "idle", state'[s] = state[s],
         pc'[s] \in Closing => sess[s].eob_received
  PROVE  KnowsOf(s)'
<1>1. KnowsOf(s)
  BY DEF Smooth, SmoothOf
<1>2. EobSent(Peer(s))' = EobSent(Peer(s))
  BY TwoSides DEF EobSent, Early, Moves
<1>3. \A a, p : Accepted(a, p)' = Accepted(a, p)
  BY DEF Accepted, Moves
<1> QED BY <1>1, <1>2, <1>3 DEF KnowsOf, Moves, SaysNoMore

\* The bottom of the loop of Run.
LEMMA LoopSmooth ==
  ASSUME TypeOK, Undisturbed, Smooth, NEW s \in Sides, LoopEnd(s)
  PROVE  Smooth'
<1>1. PlaceOf(s) /\ KnowsOf(s)
  BY DEF Smooth, SmoothOf
<1>2. Moves(s) /\ pc[s] = "tail" /\ state'[s] = state[s]
  BY DEF LoopEnd, GoTo, Quiet, Moves, TypeOK, disk, ghost, env
<1>3. sess[s].done => ~sess[s].open /\ state[s] = "DONE" /\ sess[s].eob_received
  BY <1>1, <1>2 DEF PlaceOf, KnowsOf
<1>4. pc'[s] = IF sess[s].done THEN "rename" ELSE "handler"
  BY DEF LoopEnd, GoTo, TypeOK
<1>5. SaysNoMore(s) /\ (Before(s) => Before(s)')
  BY <1>2, <1>3, <1>4 DEF SaysNoMore, GreetingSent, PasswordSent, OkSent, EobSent, Early, Ending, Before,
     EarlyStates
<1>6. PlaceOf(s)'
  BY <1>1, <1>2, <1>3, <1>4 DEF PlaceOf, Moves, Ending, Closing
<1>7. KnowsOf(s)'
  BY <1>2, <1>3, <1>4, <1>5, KnowsMoves DEF Closing
<1>8. MailAt(s)'
  BY <1>2, <1>4, <1>5, MailMoves
<1>9. PICK r \in Sides : r = Peer(s) /\ r # s
  BY TwoSides
<1>10. CASE sess[s].open
  <2>1. ~Predicate(s) /\ Leaves(s)
    BY <1>2 DEF Predicate, LoopEnd
  <2>2. chan[s] = <<>> /\ chan[r] = <<>> /\ (InWindow(r) \/ ~sess[r].open)
    BY <1>9, <1>10, <2>1, WindowEnds
  <2>3. InWindow(r)' = InWindow(r)
    BY <1>2, <1>9 DEF InWindow, Moves
  <2>4. TurnOf(s)'
    BY <1>2, <1>9, <2>2, <2>3 DEF TurnOf, Moves
  <2>5. ~Acting(r)
    BY <2>2, ActingIsOutside
  <2> QED BY <1>2, <1>4, <1>5, <1>6, <1>7, <1>8, <1>9, <2>4, <2>5, MoveKeeps
<1>11. CASE ~sess[s].open
  <2>1. sess[s].done
    BY <1>1, <1>2, <1>11 DEF PlaceOf
  <2>2. TurnOf(s)'
    BY <1>4, <2>1 DEF TurnOf, Acting
  <2> QED BY <1>2, <1>4, <1>5, <1>6, <1>7, <1>8, <1>11, <2>2, MoveKeeps
<1> QED BY <1>10, <1>11

\* The end of the stream is only read when the other side has said all it had to.
LEMMA ClosedSmooth ==
  ASSUME TypeOK, Undisturbed, Smooth, NEW s \in Sides, SocketClosed(s)
  PROVE  Smooth'
<1>1. PICK r \in Sides : r = Peer(s) /\ r # s /\ Peer(r) = s
  BY TwoSides
<1>2. PlaceOf(s) /\ KnowsOf(s) /\ HeardOf(s) /\ PlaceOf(r)
  BY DEF Smooth, SmoothOf
<1>3. Moves(s) /\ pc'[s] = "rename" /\ state'[s] = state[s]
  BY DEF SocketClosed, Moves, TypeOK, disk, ghost, env
<1>4. InWindow(s) /\ chan[s] = <<>> /\ ~sess[r].open
  BY <1>1, <1>2 DEF SocketClosed, PlaceOf
<1>5. pc[s] \notin Ending
  BY <1>4 DEF InWindow, WindowPcs, Ending
<1>6. EobSent(s) /\ EobSent(r)
  <2>1. EobSent(s)
    BY <1>1, <1>2, <1>4, <1>5 DEF KnowsOf, Ending
  <2>2. EobSent(r)
    BY <1>2, <1>4 DEF PlaceOf, EobSent, Early, Ending
  <2> QED BY <2>1, <2>2
<1>7. sess[s].eob_received
  BY <1>1, <1>2, <1>4, <1>5, <1>6, ShortOnes DEF HeardOf, Ending
<1>8. pc[s] = "afterEob" \/ Early(s, {"WAIT_EOB", "DONE"})
  BY <1>5, <1>6 DEF EobSent
<1>9. SaysNoMore(s) /\ ~Before(s)
  BY <1>3, <1>8 DEF SaysNoMore, GreetingSent, PasswordSent, OkSent, EobSent, Early, Ending, Before,
     EarlyStates
<1>10. PlaceOf(s)'
  <2>1. state[s] \in {"TRANSFER_FILES", "WAIT_EOB", "DONE"}
    BY <1>2, <1>8 DEF PlaceOf, Early
  <2>2. sess[s].open
    BY <1>4 DEF InWindow
  <2> QED BY <1>1, <1>2, <1>3, <1>4, <2>1, <2>2 DEF PlaceOf, Moves, Closing
<1>11. KnowsOf(s)'
  BY <1>3, <1>5, <1>7, <1>9, KnowsMoves DEF Ending
<1>12. MailAt(s)'
  BY <1>3, <1>5, <1>8, <1>9, MailMoves DEF Ending, Early
<1>13. TurnOf(s)' /\ ~Acting(r)
  BY <1>3, <1>4, ActingIsOutside DEF TurnOf, Acting
<1> QED BY <1>1, <1>3, <1>5, <1>9, <1>10, <1>11, <1>12, <1>13, MoveKeeps DEF Ending

\* Nothing to send: all of the mail has been moved, be it none.
LEMMA NothingSmooth ==
  ASSUME TypeOK, Undisturbed, Smooth, NEW s \in Sides, NothingToSend(s)
  PROVE  Smooth'
<1>1. PICK r \in Sides : r = Peer(s) /\ r # s
  BY TwoSides
<1>2. PlaceOf(s) /\ KnowsOf(s) /\ MailAt(s) /\ sess[s].open
  BY OpenInside DEF Smooth, SmoothOf, NothingToSend, At, Ending
<1>3. /\ Moves(s) /\ pc[s] = "handler" /\ state[s] = "TRANSFER_FILES"
      /\ pc'[s] = "flush" /\ state'[s] = state[s] /\ out[s] = <<>>
  BY DEF NothingToSend, At, GoTo, Quiet, Moves, TypeOK, disk, ghost, env
<1>4. SaysNoMore(s)
  BY <1>3 DEF SaysNoMore, GreetingSent, PasswordSent, OkSent, EobSent, Early, Ending
<1>5. PlaceOf(s)'
  BY <1>2, <1>3 DEF PlaceOf, Moves, Ending, Closing
<1>6. KnowsOf(s)'
  BY <1>3, <1>4, KnowsMoves DEF Closing
<1>7. TurnOf(s)'
  BY <1>3 DEF TurnOf, Acting
<1>8. ~Acting(r)
  <2>1. ~Predicate(s)
    BY <1>3 DEF Predicate
  <2>2. InWindow(r) \/ ~sess[r].open
    BY <1>1, <1>2, <2>1, WindowEnds DEF NothingToSend
  <2> QED BY <2>2, ActingIsOutside
<1>9. MailAt(s)'
  <2>1. NoneOnLine(s)' = NoneOnLine(s) /\ posted[s] \in Nat /\ pc'[r] = pc[r]
    BY <1>1, <1>3 DEF Moves, NoneOnLine, TypeOK
  <2>2. CASE Over(s)
    <3>1. InPlace(r, s)' = InPlace(r, s)
      BY <1>3, <2>1 DEF InPlace, Moves, HasAll, Receiving, Untouched, Mail
    <3>2. Over(s)'
      BY <1>1, <1>3, <2>1, <2>2, <3>1 DEF Over, Moves, Receiving
    <3> QED BY <3>2 DEF MailAt
  <2>3. CASE Home(s)
    <3>1. posted[s] = 0
      <4>1. Mail(s) = <<>> /\ Len(Mail(s)) = posted[s]
        BY <1>3, <2>1, <2>3 DEF Home, Mail
      <4> QED BY <4>1
    <3>2. 1..posted[s] = {}
      BY <3>1
    <3>3. InPlace(r, s)'
      BY <1>1, <1>3, <2>1, <2>3, <3>2 DEF Home, InPlace, Moves, Untouched
    <3>4. Over(s)'
      BY <1>1, <1>3, <2>1, <2>3, <3>3 DEF Over, Home, Moves, Receiving
    <3> QED BY <3>4 DEF MailAt
  <2>4. ~Transit(s)
    BY <1>3 DEF Transit
  <2> QED BY <1>2, <2>2, <2>3, <2>4 DEF MailAt
<1> QED BY <1>1, <1>3, <1>4, <1>5, <1>6, <1>7, <1>8, <1>9, MoveKeeps

\* After a data frame: the file goes on, or all of it was acknowledged.
LEMMA AfterChunkSmooth ==
  ASSUME TypeOK, Undisturbed, Smooth, NEW s \in Sides, AfterChunk(s)
  PROVE  Smooth'
<1>1. PICK r \in Sides : r = Peer(s) /\ r # s
  BY TwoSides
<1>2. PlaceOf(s) /\ KnowsOf(s) /\ MailAt(s) /\ sess[s].open
  BY OpenInside DEF Smooth, SmoothOf, AfterChunk, Ending
<1>3. /\ Moves(s) /\ pc[s] = "afterData" /\ state'[s] = state[s]
      /\ pc'[s] = IF sess[s].start < sess[s].file_length THEN "chunk" ELSE "flush"
  BY DEF AfterChunk, GoTo, Quiet, Moves, TypeOK, disk, ghost, env
<1>4. SaysNoMore(s)
  BY <1>3 DEF SaysNoMore, GreetingSent, PasswordSent, OkSent, EobSent, Early, Ending
<1>5. PlaceOf(s)'
  BY <1>2, <1>3 DEF PlaceOf, Moves, Ending, Closing
<1>6. KnowsOf(s)'
  BY <1>3, <1>4, KnowsMoves DEF Closing
<1>7. chan[s] = <<>> /\ chan[r] = <<>> /\ (InWindow(r) \/ ~sess[r].open)
  <2>1. ~Predicate(s)
    BY <1>3 DEF Predicate
  <2> QED BY <1>1, <1>2, <2>1, WindowEnds DEF AfterChunk
<1>8. TurnOf(s)' /\ ~Acting(r)
  <2>1. InWindow(r)' = InWindow(r)
    BY <1>1, <1>3 DEF InWindow, Moves
  <2>2. TurnOf(s)'
    BY <1>1, <1>3, <1>7, <2>1 DEF TurnOf, Moves
  <2> QED BY <1>7, <2>2, ActingIsOutside
<1>9. MailAt(s)'
  <2>1. /\ NoneOnLine(s)' = NoneOnLine(s) /\ Untouched(r)' = Untouched(r) /\ pc'[r] = pc[r]
        /\ Mail(s)' = Mail(s) /\ sess[s].start \in Nat /\ sess[s].file_length \in Nat
    BY <1>1, <1>3, Fields DEF Moves, NoneOnLine, TypeOK, Untouched, Mail
  <2>2. CASE Over(s)
    <3>1. InPlace(r, s)' = InPlace(r, s)
      BY <1>3, <2>1 DEF InPlace, Moves, HasAll, Receiving, Untouched, Mail
    <3>2. pc'[s] = "flush"
      BY <1>3, <2>1, <2>2 DEF Over
    <3>3. Over(s)'
      BY <1>1, <1>3, <2>1, <2>2, <3>1, <3>2 DEF Over, Moves, Receiving
    <3> QED BY <3>3 DEF MailAt
  <2>3. CASE Transit(s)
    <3>1. Sending(s)
      <4>1. ~Sent(s) /\ ~Answered(s) /\ ~Offered(s)
        BY <1>1, <1>3, <1>7 DEF Sent, Answered, Offered
      <4> QED BY <2>3, <4>1 DEF Transit
    <3>2. pc'[s] = "chunk"
      BY <1>3, <2>3, <3>1 DEF Transit, Sending
    <3>3. Partial(r, s, sess[s].start)'
      BY <1>1, <1>3, <2>1, <3>1 DEF Sending, Partial, Receiving, Moves
    <3>4. Sending(s)'
      BY <1>1, <1>3, <2>1, <3>1, <3>2, <3>3 DEF Sending, Moves
    <3>5. Transit(s)'
      BY <1>1, <1>3, <2>1, <2>3, <3>4 DEF Transit, Moves
    <3> QED BY <3>5 DEF MailAt
  <2>4. ~Home(s)
    BY <1>3 DEF Home, Before
  <2> QED BY <1>2, <2>2, <2>3, <2>4 DEF MailAt
<1> QED BY <1>1, <1>3, <1>4, <1>5, <1>6, <1>8, <1>9, MoveKeeps

-----------------------------------------------------------------------------
(* A side speaks.                                                          *)

\* With nothing on the line s sends fs, and goes on.
Speaks(s, fs) ==
  /\ \A t \in Sides \ {s} : pc'[t] = pc[t] /\ state'[t] = state[t] /\ sess'[t] = sess[t]
  /\ chan[s] = <<>> /\ chan[Peer(s)] = <<>> /\ chan'[s] = <<>> /\ chan'[Peer(s)] = fs
  /\ rst' = rst /\ UNCHANGED <<out, inb, pend, delivered, contact, posted, budget, conf>>
  /\ sess'[s].open = sess[s].open /\ sess'[s].address_list = sess[s].address_list
  /\ sess'[s].remote_password = sess[s].remote_password
  /\ sess'[s].ok_received = sess[s].ok_received /\ sess'[s].eob_received = sess[s].eob_received
  /\ sess'[s].received = sess[s].received
  /\ sess'[s].current_receive_file = sess[s].current_receive_file

\* It is told what was said.
Tells(s, fs) ==
  /\ GreetingSent(s)' => GreetingSent(s) \/ Has(fs, "M_ADR")
  /\ s = "ORIGINATING" /\ PasswordSent(s)' => PasswordSent(s) \/ Has(fs, "M_PWD")
  /\ s = "ANSWERING" /\ OkSent(s)' => OkSent(s) \/ Has(fs, "M_OK")
  /\ EobSent(s)' => EobSent(s) \/ Has(fs, "M_EOB")
  /\ EobSent(s) => EobSent(s)'

LEMMA SpeakKeeps ==
  ASSUME Smooth, NEW s \in Sides, NEW fs, Speaks(s, fs), Tells(s, fs), sess[s].open,
         {pc[s], pc'[s]} \cap Ending = {},
         sess[Peer(s)].open \/ fs = <<>>, ~Acting(Peer(s)),
         Len(fs) <= 1 \/ (s = "ANSWERING" /\ fs = Greeting("ANSWERING")),
         \A k \in DOMAIN fs : FrameOK(Peer(s), fs[k])', ~Has(fs, "M_GOT"),
         PlaceOf(s)', TurnOf(s)', KnowsOf(s)', MailAt(s)'
  PROVE  Smooth'
<1>1. PICK r \in Sides : r = Peer(s) /\ r # s /\ Peer(r) = s /\ \A t \in Sides : t \in {r, s}
  BY TwoSides
<1>2. /\ pc'[r] = pc[r] /\ state'[r] = state[r] /\ sess'[r] = sess[r] /\ chan'[r] = fs
      /\ pc[s] # "idle" /\ pc'[s] # "idle"
  BY <1>1 DEF Speaks, Ending
<1>3. SmoothOf(r) /\ SmoothOf(s)
  BY DEF Smooth
<1>4. /\ GreetingSent(r)' = GreetingSent(r) /\ EobSent(r)' = EobSent(r)
      /\ PasswordSent(r)' = PasswordSent(r) /\ OkSent(r)' = OkSent(r)
      /\ \A a, p : Accepted(a, p)' = Accepted(a, p)
  BY <1>2 DEF GreetingSent, EobSent, PasswordSent, OkSent, Early, Accepted, Speaks
<1>5. PlaceOf(r)'
  <2>1. pc[r] \in Closing => fs = <<>>
    BY <1>1, <1>3 DEF SmoothOf, PlaceOf
  <2> QED BY <1>1, <1>2, <1>3, <2>1 DEF SmoothOf, PlaceOf, Speaks
<1>6. KnowsOf(r)'
  <2>1. KnowsOf(r) /\ (sess'[s].open = sess[s].open) /\ (EobSent(s) => EobSent(s)')
    BY <1>3 DEF SmoothOf, Speaks, Tells
  <2> QED BY <1>1, <1>2, <1>4, <2>1 DEF KnowsOf
<1>7. TurnOf(r)'
  BY <1>1, <1>2 DEF TurnOf, Acting
<1>8. ChanOf(r)' /\ ChanOf(s)'
  <2>1. ChanOf(s)'
    BY <1>1, <1>2 DEF ChanOf, Speaks
  <2>2. Len(fs) <= 1 \/ (r = "ORIGINATING" /\ fs = Greeting("ANSWERING"))
    BY <1>1 DEF Peer
  <2>3. ChanOf(r)'
    BY <1>1, <1>2, <2>2 DEF ChanOf, Speaks, Greeting
  <2> QED BY <2>1, <2>3
<1>9. HeardOf(r)' /\ HeardOf(s)'
  <2>1. r = "ANSWERING" => s = "ORIGINATING"
    BY <1>1 DEF Peer
  <2>2. r = "ORIGINATING" => s = "ANSWERING"
    BY <1>1 DEF Peer
  <2>3. ~Has(chan[r], "M_ADR") /\ ~Has(chan[r], "M_PWD") /\ ~Has(chan[r], "M_OK") /\ ~Has(chan[r], "M_EOB")
    BY <1>1, ShortOnes DEF Speaks
  <2>4. HeardOf(r)'
    BY <1>1, <1>2, <1>3, <2>1, <2>2, <2>3 DEF SmoothOf, HeardOf, Tells
  <2>5. HeardOf(s)'
    BY <1>1, <1>2, <1>3, <1>4 DEF SmoothOf, HeardOf, Speaks
  <2> QED BY <2>4, <2>5
<1>10. MailAt(r)'
  <2>1. MailAt(r) /\ ~Has(<<>>, "M_FILE") /\ ~Has(<<>>, "DATA") /\ ~Has(<<>>, "M_GOT")
    BY <1>3, ShortOnes DEF SmoothOf
  <2>2. Mail(r)' = Mail(r) /\ NoneOnLine(r)' /\ Untouched(s)' = Untouched(s)
    BY <1>1, <1>2, <2>1 DEF Speaks, Mail, NoneOnLine, Untouched
  <2>3. CASE Home(r)
    <3>1. Before(r)' = Before(r)
      BY <1>2 DEF Before
    <3>2. Home(r)'
      BY <1>1, <1>2, <2>2, <2>3, <3>1 DEF Home, Speaks, Receiving
    <3> QED BY <3>2 DEF MailAt
  <2>4. CASE Transit(r)
    <3>1. /\ \A n : Partial(s, r, n)' = Partial(s, r, n)
      BY <1>1, <2>2 DEF Partial, Receiving, Speaks
    <3>2. ~Sent(r) /\ ~Answered(r) /\ (Offered(r) => Partial(s, r, 0))
      BY <1>1 DEF Sent, Answered, Offered, Speaks
    <3>3. (Offered(r) => Offered(r)') /\ (Sending(r) => Sending(r)')
      BY <1>1, <1>2, <2>2, <3>1, <3>2 DEF Offered, Sending
    <3>4. Transit(r)'
      BY <1>1, <1>2, <2>2, <2>4, <3>2, <3>3 DEF Transit, Speaks
    <3> QED BY <3>4 DEF MailAt
  <2>5. CASE Over(r)
    <3>1. InPlace(s, r)'
      BY <1>1, <1>2, <2>2, <2>5 DEF Over, InPlace, Speaks, HasAll, Receiving, Ending
    <3>2. Over(r)'
      BY <1>1, <1>2, <2>2, <2>5, <3>1 DEF Over, Speaks, Receiving
    <3> QED BY <3>2 DEF MailAt
  <2> QED BY <2>1, <2>3, <2>4, <2>5 DEF MailAt
<1>11. CountOf(r)' /\ CountOf(s)' /\ BudgetInv'
  BY <1>2, <1>3 DEF SmoothOf, CountOf, Speaks, Smooth, BudgetInv
<1> QED BY <1>1, <1>5, <1>6, <1>7, <1>8, <1>9, <1>10, <1>11 DEF Smooth, SmoothOf

\* What is sent with nothing on the line is all there is on it.
LEMMA SendAlone ==
  ASSUME TypeOK, Smooth, NEW s \in Sides, NEW fs \in Seq(Frame), Send(s, fs),
         chan[s] = <<>>, chan[Peer(s)] = <<>>, sess[Peer(s)].open
  PROVE  chan'[s] = <<>> /\ chan'[Peer(s)] = fs /\ rst' = rst
<1>1. ~rst[s] /\ Peer(s) \in Sides /\ Peer(s) # s
  BY TwoSides DEF Smooth, SmoothOf, PlaceOf
<1>2. Connected(s) /\ <<>> \o fs = fs
  BY <1>1 DEF Connected
<1> QED BY <1>1, <1>2 DEF Send, TypeOK

\* As long as s has not said M_EOB the other side stays.
LEMMA PeerStays ==
  ASSUME Smooth, NEW s \in Sides, pc[s] # "idle", ~EobSent(s)
  PROVE  sess[Peer(s)].open
  BY DEF Smooth, SmoothOf, KnowsOf

\* Where the file of s stands is not changed by what s says of other things.
LEMMA MailSpeaks ==
  ASSUME Smooth, NEW s \in Sides, NEW fs, Speaks(s, fs), sess'[s].to_send = sess[s].to_send,
         ~Has(fs, "M_FILE"), ~Has(fs, "DATA"), pc[s] # "idle",
         Before(s) => Before(s)', {pc[s], pc'[s]} \cap {"afterFile", "chunk", "afterData"} = {}
  PROVE  MailAt(s)'
<1> DEFINE r == Peer(s)
<1>1. r \in Sides /\ r # s /\ pc'[r] = pc[r] /\ sess'[r] = sess[r] /\ MailAt(s) /\ ~Has(<<>>, "M_GOT")
  BY TwoSides, ShortOnes DEF Smooth, SmoothOf, Speaks
<1>2. Mail(s)' = Mail(s) /\ NoneOnLine(s)' /\ Untouched(r)' = Untouched(r)
  BY <1>1 DEF Speaks, Mail, NoneOnLine, Untouched
<1>3. ~Transit(s)
  BY DEF Transit, Offered, Sending, Sent, Answered
<1>4. CASE Home(s)
  <2>1. Home(s)'
    BY <1>1, <1>2, <1>4 DEF Home, Speaks, Receiving
  <2> QED BY <2>1 DEF MailAt
<1>5. CASE Over(s)
  <2>1. InPlace(r, s)' = InPlace(r, s)
    BY <1>1, <1>2 DEF InPlace, Speaks, HasAll, Receiving
  <2>2. Over(s)'
    BY <1>1, <1>2, <1>5, <2>1 DEF Over, Speaks, Receiving
  <2> QED BY <2>2 DEF MailAt
<1> QED BY <1>1, <1>3, <1>4, <1>5 DEF MailAt

\* The greeting.
LEMMA GreetingSmooth ==
  ASSUME TypeOK, Undisturbed, Smooth, NEW s \in Sides, WaitConn(s)
  PROVE  Smooth'
<1> DEFINE fs == Greeting(s)
<1>1. PICK r \in Sides : r = Peer(s) /\ r # s /\ Peer(r) = s
  BY TwoSides
<1>2. PlaceOf(s) /\ KnowsOf(s) /\ TurnOf(s) /\ sess[s].open /\ sess[s] \in Members
  BY OpenInside DEF Smooth, SmoothOf, WaitConn, At, Ending, TypeOK
<1>3. /\ pc[s] = "handler" /\ state[s] = "WAIT_CONN" /\ pc'[s] = "WaitConn" /\ state'[s] = "WAIT_CONN"
      /\ \A t \in Sides \ {s} : pc'[t] = pc[t] /\ state'[t] = state[t] /\ sess'[t] = sess[t]
  BY DEF WaitConn, At, GoTo, TypeOK
<1>4. sess'[s] = [sess[s] EXCEPT !.challenge = IF s = "ANSWERING" THEN Challenge ELSE @]
  BY DEF WaitConn, TypeOK
<1>5. Acting(s) /\ ~EobSent(s)
  BY <1>3 DEF Acting, EobSent, Early, Ending, WindowStates
<1>6. chan[s] = <<>> /\ chan[r] = <<>> /\ sess[r].open /\ ~Acting(r)
  BY <1>1, <1>2, <1>3, <1>5, PeerStays, ActingIsOutside DEF TurnOf
<1>7. /\ fs \in Seq(Frame) /\ Has(fs, "M_ADR") /\ ~Has(fs, "M_FILE") /\ ~Has(fs, "DATA") /\ ~Has(fs, "M_GOT")
      /\ Len(fs) <= 1 \/ (s = "ANSWERING" /\ fs = Greeting("ANSWERING"))
  <2>1. CASE s = "ANSWERING"
    <3>1. fs = <<[cmd |-> "M_NUL", challenge |-> Challenge], [cmd |-> "M_ADR"]>>
      BY <2>1 DEF Greeting, Cmd
    <3>2. fs \in Seq(Frame) /\ Len(fs) = 2 /\ fs[1].cmd = "M_NUL" /\ fs[2].cmd = "M_ADR" /\ DOMAIN fs = {1, 2}
      BY <3>1, Frames DEF Cmd
    <3> HIDE DEF fs
    <3>3. fs = Greeting("ANSWERING")
      BY <2>1 DEF fs
    <3> QED BY <2>1, <3>2, <3>3 DEF Has
  <2>2. CASE s # "ANSWERING"
    <3>1. fs = <<[cmd |-> "M_ADR"]>>
      BY <2>2 DEF Greeting, Cmd
    <3>2. fs \in Seq(Frame) /\ Len(fs) = 1 /\ fs[1].cmd = "M_ADR" /\ DOMAIN fs = {1}
      BY <3>1, Frames DEF Cmd
    <3> HIDE DEF fs
    <3> QED BY <2>2, <3>2 DEF Has
  <2> QED BY <2>1, <2>2
<1>8. \A k \in DOMAIN fs : FrameOK(r, fs[k])'
  <2>1. \A k \in DOMAIN fs : fs[k].cmd = "M_ADR" \/ (fs[k].cmd = "M_NUL" /\ s = "ANSWERING")
    BY DEF Greeting, Cmd
  <2>2. s = "ANSWERING" => r = "ORIGINATING"
    BY <1>1 DEF Peer
  <2> QED BY <2>1, <2>2 DEF FrameOK
<1> HIDE DEF fs
<1>9. Speaks(s, fs)
  <2>1. chan'[s] = <<>> /\ chan'[r] = fs /\ rst' = rst
    BY <1>1, <1>6, <1>7, SendAlone DEF WaitConn, fs
  <2>2. UNCHANGED <<out, inb, pend, delivered, contact, posted, budget, conf>>
    BY DEF WaitConn, disk, ghost, env
  <2> QED BY <1>1, <1>2, <1>3, <1>4, <1>6, <2>1, <2>2 DEF Speaks, Members
<1>10. Tells(s, fs)
  BY <1>3, <1>5, <1>7 DEF Tells, GreetingSent, PasswordSent, OkSent, EobSent, Early, Ending
<1>11. PlaceOf(s)'
  <2>1. sess'[s].error_received = sess[s].error_received /\ sess'[s].done = sess[s].done
    BY <1>2, <1>4 DEF Members
  <2> QED BY <1>1, <1>2, <1>3, <1>6, <1>9, <2>1 DEF PlaceOf, Speaks, Ending, Closing
<1>12. TurnOf(s)'
  BY <1>3 DEF TurnOf, Acting
<1>13. KnowsOf(s)'
  <2>1. sess'[s].auth_type = sess[s].auth_type /\ (s = "ANSWERING" => sess'[s].challenge = Challenge)
        /\ (s # "ANSWERING" => sess'[s].challenge = sess[s].challenge)
    BY <1>2, <1>4 DEF Members
  <2>2. /\ EobSent(r)' = EobSent(r)
        /\ \A a, p : Accepted(a, p)' = Accepted(a, p)
    BY <1>1, <1>3, <1>9 DEF EobSent, Early, Accepted, Speaks
  <2> QED BY <1>1, <1>2, <1>3, <1>6, <1>9, <2>1, <2>2 DEF KnowsOf, Speaks, Closing
<1>14. MailAt(s)'
  <2>1. sess'[s].to_send = sess[s].to_send
    BY <1>2, <1>4 DEF Members
  <2>2. Before(s)'
    BY <1>3 DEF Before
  <2> QED BY <1>3, <1>7, <1>9, <2>1, <2>2, MailSpeaks
<1>15. {pc[s], pc'[s]} \cap Ending = {}
  BY <1>3 DEF Ending
<1> QED BY <1>1, <1>2, <1>6, <1>7, <1>8, <1>9, <1>10, <1>11, <1>12, <1>13, <1>14, <1>15, SpeakKeeps

\* One frame on the line.
LEMMA Single ==
  ASSUME NEW f \in Frame
  PROVE  /\ <<f>> \in Seq(Frame) /\ Len(<<f>>) <= 1 /\ Has(<<f>>, f.cmd)
         /\ \A c : Has(<<f>>, c) => f.cmd = c
         /\ \A k \in DOMAIN <<f>> : <<f>>[k] = f
<1>1. DOMAIN <<f>> = {1} /\ <<f>>[1] = f /\ <<f>> \in Seq(Frame) /\ Len(<<f>>) = 1
  OBVIOUS
<1> QED BY <1>1, ShortOnes DEF Has

\* The handlers of the session setup that say one word and return.
LEMMA SetupSays ==
  ASSUME TypeOK, Smooth, NEW s \in Sides, NEW next \in BinkState, NEW f \in Frame,
         Return(s, next, sess[s]), Send(s, <<f>>), UNCHANGED <<disk, contact, ghost, env>>,
         Acting(s), pc[s] = "handler", state[s] \in EarlyStates,
         next \in EarlyStates \ {"CONN_INIT", "WAIT_CONN", "SEND_PASSWORD", "PASSWORD_ACK"},
         IF s = "ANSWERING" THEN next \notin {"IF_SECURE", "WAIT_OK"} ELSE next # "WAIT_PWD",
         next # "WAIT_ADDR" => sess[s].address_list,
         FrameOK(Peer(s), f)', f.cmd \in {"M_PWD", "M_OK"}, Tells(s, <<f>>),
         s = "ANSWERING" => sess[s].challenge = Challenge
  PROVE  Smooth'
<1>1. PICK r \in Sides : r = Peer(s) /\ r # s /\ Peer(r) = s
  BY TwoSides
<1>2. PlaceOf(s) /\ KnowsOf(s) /\ TurnOf(s) /\ sess[s].open
  BY OpenInside DEF Smooth, SmoothOf, Ending
<1>3. /\ pc'[s] = "tail" /\ state'[s] = next /\ sess' = sess
      /\ \A t \in Sides \ {s} : pc'[t] = pc[t] /\ state'[t] = state[t] /\ sess'[t] = sess[t]
  <2>1. sess[s] \in Members /\ ~sess[s].error_received
    BY <1>2 DEF TypeOK, PlaceOf
  <2>2. (sess[s].done \/ sess[s].error_received) = sess[s].done
    BY <2>1, Fields
  <2>3. [sess[s] EXCEPT !.done = sess[s].done \/ sess[s].error_received] = sess[s]
    BY <2>1, <2>2 DEF Members
  <2> QED BY <2>3 DEF Return, TypeOK
<1>4. ~EobSent(s)
  BY DEF EobSent, Early, Ending, EarlyStates
<1>5. chan[s] = <<>> /\ chan[r] = <<>> /\ sess[r].open /\ ~Acting(r)
  BY <1>1, <1>2, <1>4, PeerStays, ActingIsOutside DEF TurnOf
<1>6. Speaks(s, <<f>>)
  <2>1. chan'[s] = <<>> /\ chan'[r] = <<f>> /\ rst' = rst
    BY <1>1, <1>5, Single, SendAlone
  <2>2. UNCHANGED <<out, inb, pend, delivered, contact, posted, budget, conf>>
    BY DEF disk, ghost, env
  <2> QED BY <1>1, <1>3, <1>5, <2>1, <2>2 DEF Speaks
<1>7. PlaceOf(s)'
  <2>1. next \notin {"UNKNOWN", "DONE"}
    BY DEF EarlyStates
  <2> QED BY <1>1, <1>2, <1>3, <1>5, <1>6, <2>1 DEF PlaceOf, Speaks, Ending, Closing
<1>8. TurnOf(s)'
  BY <1>3 DEF TurnOf, Acting
<1>9. KnowsOf(s)'
  <2>1. /\ EobSent(r)' = EobSent(r)
        /\ \A a, p : Accepted(a, p)' = Accepted(a, p)
    BY <1>1, <1>3, <1>6 DEF EobSent, Early, Accepted, Speaks
  <2>2. next # "DONE"
    BY DEF EarlyStates
  <2> QED BY <1>1, <1>2, <1>3, <1>5, <2>1, <2>2 DEF KnowsOf, Closing
<1>10. ~Has(<<f>>, "M_FILE") /\ ~Has(<<f>>, "DATA") /\ ~Has(<<f>>, "M_GOT")
  BY Single
<1>11. MailAt(s)'
  <2>1. Before(s)' /\ pc[s] # "idle"
    BY <1>3 DEF Before
  <2> QED BY <1>3, <1>6, <1>10, <2>1, MailSpeaks
<1>12. {pc[s], pc'[s]} \cap Ending = {}
  BY <1>3 DEF Ending
<1>13. \A k \in DOMAIN <<f>> : FrameOK(r, <<f>>[k])'
  <2>1. DOMAIN <<f>> = {1} /\ <<f>>[1] = f
    OBVIOUS
  <2>2. FrameOK(r, <<f>>[1])'
    BY <1>1, <2>1
  <2> QED BY <2>1, <2>2
<1> QED BY <1>1, <1>2, <1>5, <1>6, <1>7, <1>8, <1>9, <1>10, <1>11, <1>12, <1>13, Single, SpeakKeeps

LEMMA PasswordSmooth ==
  ASSUME TypeOK, Undisturbed, Smooth, NEW s \in Sides, SendPasswd(s)
  PROVE  Smooth'
<1>1. PlaceOf(s) /\ KnowsOf(s) /\ TurnOf(s) /\ sess[s] \in Members
  BY DEF Smooth, SmoothOf, TypeOK
<1>2. pc[s] = "handler" /\ state[s] = "SEND_PASSWORD" /\ s = "ORIGINATING" /\ Acting(s)
  BY <1>1 DEF SendPasswd, At, PlaceOf, Sides, Acting, WindowStates
<1>3. PICK a, p :
        /\ a = sess[s].auth_type
        /\ p = IF sess[s].auth_type = "CRAM_MD5"
                 THEN CreateHashedSecret(sess[s].challenge, conf.Password[s])
                 ELSE PlainText(conf.Password[s])
  OBVIOUS
<1>4. PICK f : f = [cmd |-> "M_PWD", auth_type |-> a, password |-> p]
  OBVIOUS
<1>5. Return(s, "WAIT_ADDR", sess[s]) /\ Send(s, <<f>>) /\ UNCHANGED <<disk, contact, ghost, env>>
  BY <1>3, <1>4 DEF SendPasswd
<1>6. f \in Frame /\ f.cmd = "M_PWD" /\ f.auth_type = a /\ f.password = p
  <2>1. a \in AuthType /\ sess[s].challenge \in Challenges /\ conf.Password[s] \in Secrets
    BY <1>1, <1>3, Fields, SecretsOf DEF TypeOK
  <2>2. p \in Passwords
    BY <1>3, <2>1 DEF CreateHashedSecret, PlainText, Passwords, Challenges
  <2> QED BY <1>4, <2>1, <2>2, Frames
<1>7. Accepted(a, p)
  <2>1. sess[s].auth_type = "CRAM_MD5" => sess[s].challenge = Challenge
    BY <1>1, <1>2 DEF KnowsOf
  <2>2. conf.Password[s] = conf.Password["ANSWERING"]
    BY <1>2 DEF Undisturbed
  <2> QED BY <1>3, <2>1, <2>2 DEF Accepted
<1>8. FrameOK(Peer(s), f)'
  <2>1. Accepted(a, p)'
    BY <1>7 DEF Accepted, SendPasswd, env
  <2> QED BY <1>2, <1>6, <2>1 DEF FrameOK, Peer
<1>9. Tells(s, <<f>>)
  <2>1. Has(<<f>>, "M_PWD")
    BY <1>6, Single
  <2>2. pc'[s] = "tail" /\ state'[s] = "WAIT_ADDR"
    BY <1>5 DEF Return, TypeOK
  <2> QED BY <1>2, <2>1, <2>2 DEF Tells, GreetingSent, EobSent, Early, Ending
<1> QED
  BY <1>2, <1>5, <1>6, <1>8, <1>9, SetupSays DEF BinkState, EarlyStates

LEMMA AckSmooth ==
  ASSUME TypeOK, Undisturbed, Smooth, NEW s \in Sides, PasswordAck(s)
  PROVE  Smooth'
<1>1. PlaceOf(s) /\ KnowsOf(s) /\ TurnOf(s) /\ sess[s] \in Members
  BY DEF Smooth, SmoothOf, TypeOK
<1>2. pc[s] = "handler" /\ state[s] = "PASSWORD_ACK" /\ s = "ANSWERING" /\ Acting(s)
  BY <1>1 DEF PasswordAck, At, PlaceOf, Sides, Acting, WindowStates
<1>3. sess[s].challenge = Challenge /\ sess[s].address_list
  BY <1>1, <1>2 DEF KnowsOf, GreetingSent, Early
<1>4. PasswordsMatch(s)
  <2>1. Accepted(sess[s].auth_type, sess[s].remote_password)
    BY <1>1, <1>2 DEF KnowsOf
  <2>2. sess[s].auth_type \in AuthType
    BY <1>1, Fields
  <2> QED BY <1>2, <1>3, <2>1, <2>2 DEF PasswordsMatch, Accepted, AuthType
<1>5. PICK f : f = Cmd("M_OK")
  OBVIOUS
<1>6. Return(s, "TRANSFER_FILES", sess[s]) /\ Send(s, <<f>>) /\ UNCHANGED <<disk, contact, ghost, env>>
  BY <1>4, <1>5 DEF PasswordAck
<1>7. f \in Frame /\ f.cmd = "M_OK"
  BY <1>5, Frames DEF Cmd
<1>8. FrameOK(Peer(s), f)'
  BY <1>7 DEF FrameOK
<1>9. Tells(s, <<f>>)
  <2>1. Has(<<f>>, "M_OK")
    BY <1>7, Single
  <2>2. pc'[s] = "tail" /\ state'[s] = "TRANSFER_FILES"
    BY <1>6 DEF Return, TypeOK
  <2> QED BY <1>2, <2>1, <2>2 DEF Tells, GreetingSent, EobSent, Early, Ending
<1> QED
  BY <1>2, <1>3, <1>6, <1>7, <1>8, <1>9, SetupSays DEF BinkState, EarlyStates

-----------------------------------------------------------------------------
(* A side sends its file.                                                  *)

\* Inside TransferFiles.
LEMMA InsideTransfer ==
  ASSUME Smooth, NEW s \in Sides, NEW fs, Speaks(s, fs), state[s] = "TRANSFER_FILES",
         state'[s] = "TRANSFER_FILES", pc[s] \notin Ending \cup {"tail", "WaitConn", "afterEob"},
         pc'[s] \in {"afterFile", "chunk", "afterData", "afterEob"},
         sess'[s].done = sess[s].done, sess'[s].error_received = sess[s].error_received,
         sess'[s].auth_type = sess[s].auth_type, sess'[s].challenge = sess[s].challenge
  PROVE  /\ PlaceOf(s)' /\ KnowsOf(s)'
         /\ (pc'[s] = "afterEob" => Has(fs, "M_EOB")) => Tells(s, fs)
<1>1. PICK r \in Sides : r = Peer(s) /\ r # s /\ Peer(r) = s
  BY TwoSides
<1>2. PlaceOf(s) /\ KnowsOf(s) /\ sess[s].open
  BY OpenInside DEF Smooth, SmoothOf
<1>3. PlaceOf(s)'
  BY <1>1, <1>2 DEF PlaceOf, Speaks, Ending, Closing
<1>4. ~EobSent(s) /\ (EobSent(s)' => pc'[s] = "afterEob") /\ GreetingSent(s)
  BY DEF EobSent, Early, Ending, GreetingSent
<1>5. KnowsOf(s)'
  <2>1. EobSent(r)' = EobSent(r) /\ \A a, p : Accepted(a, p)' = Accepted(a, p)
    BY <1>1 DEF EobSent, Early, Accepted, Speaks
  <2>2. sess[r].open
    BY <1>1, <1>4, PeerStays DEF Ending
  <2> QED BY <1>1, <1>2, <1>4, <2>1, <2>2 DEF KnowsOf, Speaks, Ending, Closing
<1> QED
  BY <1>3, <1>4, <1>5 DEF Tells, GreetingSent, PasswordSent, OkSent, Early

\* The offer.
LEMMA OfferSmooth ==
  ASSUME TypeOK, Undisturbed, Smooth, NEW s \in Sides, SendFilePacket(s)
  PROVE  Smooth'
<1>1. PICK r \in Sides : r = Peer(s) /\ r # s /\ Peer(r) = s
  BY TwoSides
<1>2. /\ PlaceOf(s) /\ MailAt(s) /\ sess[s].open /\ sess[s] \in Members
      /\ pc[s] = "handler" /\ state[s] = "TRANSFER_FILES" /\ out[s] # <<>> /\ out[s] \in MailFile
  BY OpenInside DEF Smooth, SmoothOf, SendFilePacket, At, Ending, TypeOK
<1>3. /\ pc'[s] = "afterFile" /\ state'[s] = "TRANSFER_FILES"
      /\ \A t \in Sides \ {s} : pc'[t] = pc[t] /\ state'[t] = state[t] /\ sess'[t] = sess[t]
      /\ sess'[s] = [sess[s] EXCEPT !.to_send = TRUE]
  BY <1>2 DEF SendFilePacket, GoTo, TypeOK
<1>4. chan[s] = <<>> /\ chan[r] = <<>> /\ ~Acting(r)
  <2>1. ~Predicate(s)
    BY <1>2 DEF Predicate
  <2>2. chan[s] = <<>> /\ chan[r] = <<>> /\ (InWindow(r) \/ ~sess[r].open)
    BY <1>1, <1>2, <2>1, WindowEnds DEF SendFilePacket
  <2> QED BY <2>2, ActingIsOutside
<1>5. ~EobSent(s) /\ sess[r].open
  <2>1. ~EobSent(s) /\ pc[s] # "idle"
    BY <1>2 DEF EobSent, Early, Ending
  <2> QED BY <1>1, <2>1, PeerStays
<1>6. Home(s)
  BY <1>2 DEF MailAt, Transit, Over, Offered, Sending, Sent, Answered
<1>7. PICK f : f = [cmd |-> "M_FILE", size |-> Len(out[s])]
  OBVIOUS
<1>8. f \in Frame /\ f.cmd = "M_FILE" /\ Send(s, <<f>>)
  BY <1>2, <1>7, Frames DEF SendFilePacket, MailFile
<1>9. Speaks(s, <<f>>)
  <2>1. chan'[s] = <<>> /\ chan'[r] = <<f>> /\ rst' = rst
    BY <1>1, <1>4, <1>5, <1>8, Single, SendAlone
  <2>2. UNCHANGED <<out, inb, pend, delivered, contact, posted, budget, conf>>
    BY DEF SendFilePacket, disk, ghost, env
  <2> QED BY <1>1, <1>2, <1>3, <1>4, <2>1, <2>2 DEF Speaks, Members
<1>10. PlaceOf(s)' /\ KnowsOf(s)' /\ Tells(s, <<f>>)
  BY <1>2, <1>3, <1>9, InsideTransfer DEF Ending, Members
<1>12. TurnOf(s)'
  BY <1>3 DEF TurnOf, Acting
<1>13. MailAt(s)'
  <2>1. Mail(s)' = Mail(s) /\ Untouched(r)' = Untouched(r) /\ NoPart(r)' = NoPart(r)
    BY <1>1, <1>3, <1>9 DEF Speaks, Mail, Untouched, NoPart, Receiving
  <2>2. NoPart(r) /\ Untouched(r) /\ out[s] = Mail(s)
    BY <1>1, <1>6 DEF Home, NoPart
  <2>3. chan'[r] = <<[cmd |-> "M_FILE", size |-> Len(Mail(s))]>>
    BY <1>1, <1>7, <1>9, <2>2 DEF Speaks
  <2>4. Offered(s)'
    BY <1>1, <1>3, <2>1, <2>2, <2>3 DEF Offered
  <2>5. sess'[s].to_send /\ out'[s] = out[s]
    BY <1>2, <1>3, <1>9 DEF Members, Speaks
  <2>6. Transit(s)'
    BY <1>1, <1>2, <1>3, <2>1, <2>2, <2>4, <2>5 DEF Transit
  <2> QED BY <2>6 DEF MailAt
<1>14. {pc[s], pc'[s]} \cap Ending = {}
  BY <1>2, <1>3 DEF Ending
<1>15. \A k \in DOMAIN <<f>> : FrameOK(r, <<f>>[k])'
  <2>1. DOMAIN <<f>> = {1} /\ <<f>>[1] = f
    OBVIOUS
  <2>2. FrameOK(r, f)'
    BY <1>8 DEF FrameOK
  <2> QED BY <2>1, <2>2
<1>16. ~Has(<<f>>, "M_GOT") /\ Len(<<f>>) <= 1
  BY <1>8, Single
<1> QED
  BY <1>1, <1>2, <1>4, <1>5, <1>9, <1>10, <1>12, <1>13, <1>14, <1>15, <1>16, SpeakKeeps

\* The length of the file is read: the other side expects all of it.
LEMMA StartSmooth ==
  ASSUME TypeOK, Undisturbed, Smooth, NEW s \in Sides, SendFileData(s)
  PROVE  Smooth'
<1>1. PICK r \in Sides : r = Peer(s) /\ r # s /\ Peer(r) = s
  BY TwoSides
<1>2. /\ PlaceOf(s) /\ MailAt(s) /\ sess[s].open /\ sess[s] \in Members
      /\ pc[s] = "afterFile" /\ state[s] = "TRANSFER_FILES" /\ out[s] \in MailFile
  BY OpenInside DEF Smooth, SmoothOf, SendFileData, Ending, TypeOK, PlaceOf
<1>3. chan[s] = <<>> /\ chan[r] = <<>> /\ (InWindow(r) \/ ~sess[r].open) /\ ~Acting(r)
  <2>1. ~Predicate(s)
    BY <1>2 DEF Predicate
  <2>2. chan[s] = <<>> /\ chan[r] = <<>> /\ (InWindow(r) \/ ~sess[r].open)
    BY <1>1, <1>2, <2>1, WindowEnds DEF SendFileData
  <2> QED BY <2>2, ActingIsOutside
<1>4. Transit(s) /\ Partial(r, s, 0)
  <2>1. Transit(s)
    BY <1>2 DEF MailAt, Home, Before, Over
  <2>2. Offered(s)
    BY <1>2, <2>1 DEF Transit, Sending, Sent, Answered
  <2> QED BY <1>1, <1>3, <2>1, <2>2 DEF Offered
<1>5. /\ pc'[s] = "chunk" /\ state'[s] = "TRANSFER_FILES"
      /\ \A t \in Sides \ {s} : pc'[t] = pc[t] /\ state'[t] = state[t] /\ sess'[t] = sess[t]
      /\ sess'[s] = [sess[s] EXCEPT !.file_length = Len(out[s]), !.start = 0]
  BY <1>2, <1>4 DEF SendFileData, GoTo, TypeOK, FileSize, Transit
<1>6. Speaks(s, <<>>)
  <2>1. UNCHANGED <<chan, rst, out, inb, pend, delivered, contact, posted, budget, conf>>
    BY DEF SendFileData, Quiet, disk, ghost, env
  <2> QED BY <1>1, <1>2, <1>3, <1>5, <2>1 DEF Speaks, Members
<1>7. PlaceOf(s)' /\ KnowsOf(s)' /\ Tells(s, <<>>)
  BY <1>2, <1>5, <1>6, InsideTransfer DEF Ending, Members
<1>8. TurnOf(s)'
  <2>1. InWindow(r)' = InWindow(r) /\ sess'[r] = sess[r]
    BY <1>1, <1>5 DEF InWindow
  <2> QED BY <1>1, <1>3, <1>6, <2>1 DEF TurnOf, Speaks
<1>9. MailAt(s)'
  <2>1. /\ Mail(s)' = Mail(s) /\ Untouched(r)' = Untouched(r) /\ Partial(r, s, 0)'
        /\ sess'[s].to_send = sess[s].to_send /\ sess'[s].start = 0
        /\ sess'[s].file_length = Len(Mail(s)) /\ out'[s] = out[s]
    <3>1. Mail(s)' = Mail(s) /\ Untouched(r)' = Untouched(r) /\ out'[s] = out[s] /\ out[s] = Mail(s)
      BY <1>4, <1>6 DEF Speaks, Mail, Untouched, Transit
    <3>2. Partial(r, s, 0)' = Partial(r, s, 0)
      BY <1>1, <1>5, <1>6, <3>1 DEF Partial, Receiving, Speaks
    <3>3. /\ sess'[s].to_send = sess[s].to_send /\ sess'[s].start = 0
          /\ sess'[s].file_length = Len(out[s])
      BY <1>2, <1>5 DEF Members
    <3> QED BY <1>4, <3>1, <3>2, <3>3
  <2>2. NoneOnLine(s)'
    BY <1>1, <1>6, ShortOnes DEF NoneOnLine, Speaks
  <2>3. 0 < Len(Mail(s))
    <3>1. out[s] \in Seq(Nat) /\ out[s] # <<>> /\ out[s] = Mail(s)
      BY <1>2, <1>4 DEF Transit, MailFile
    <3>2. Len(out[s]) > 0
      BY <3>1
    <3> QED BY <3>1, <3>2
  <2>4. Sending(s)'
    BY <1>1, <1>5, <2>1, <2>2, <2>3 DEF Sending
  <2>5. Transit(s)'
    BY <1>1, <1>4, <2>1, <2>4 DEF Transit
  <2> QED BY <2>5 DEF MailAt
<1>10. {pc[s], pc'[s]} \cap Ending = {} /\ DOMAIN <<>> = {} /\ Len(<<>>) = 0
  BY <1>2, <1>5 DEF Ending
<1> QED
  BY <1>1, <1>2, <1>3, <1>6, <1>7, <1>8, <1>9, <1>10, ShortOnes, SpeakKeeps

\* A chunk is read and sent.
LEMMA ChunkSmooth ==
  ASSUME TypeOK, Undisturbed, Smooth, NEW s \in Sides,
         GetChunk(s) \/ BadChunk(s) \/ DanglingChunk(s)
  PROVE  Smooth'
<1>1. PICK r \in Sides : r = Peer(s) /\ r # s /\ Peer(r) = s
  BY TwoSides
<1>2. /\ PlaceOf(s) /\ MailAt(s) /\ TurnOf(s) /\ sess[s].open /\ sess[s] \in Members
      /\ pc[s] = "chunk" /\ state[s] = "TRANSFER_FILES" /\ out[s] \in MailFile
  BY OpenInside DEF Smooth, SmoothOf, GetChunk, BadChunk, DanglingChunk, Ending, TypeOK, PlaceOf
<1>3. chan[s] = <<>> /\ chan[r] = <<>> /\ ~Acting(r) /\ ~EobSent(s) /\ sess[r].open
  <2>1. Acting(s) /\ ~EobSent(s) /\ pc[s] # "idle"
    BY <1>2 DEF Acting, EobSent, Early, Ending
  <2>2. chan[s] = <<>> /\ chan[r] = <<>> /\ (InWindow(r) \/ ~sess[r].open)
    BY <1>1, <1>2, <2>1 DEF TurnOf
  <2> QED BY <1>1, <2>1, <2>2, ActingIsOutside, PeerStays
<1>4. Transit(s) /\ Sending(s)
  <2>1. Transit(s)
    BY <1>2 DEF MailAt, Home, Before, Over
  <2> QED BY <1>2, <2>1 DEF Transit, Offered, Sent, Answered
<1>5. PICK n : n = sess[s].start
  OBVIOUS
<1>6. n \in Nat /\ n < Len(Mail(s)) /\ conf.ChunkSize \in Nat \ {0} /\ Mail(s) = out[s]
  BY <1>2, <1>4, <1>5, Fields, ConfFields DEF Sending, Transit, TypeOK
<1>7. PICK d : d = Piece(Mail(s), n)
  OBVIOUS
<1>8. SendChunk(s, d)
  <2>1. GetChunk(s)
    BY <1>4 DEF BadChunk, DanglingChunk, Undisturbed, Transit
  <2>2. SubSeq(out[s], sess[s].start + 1, ChunkEnd(s)) = d
    BY <1>2, <1>4, <1>5, <1>6, <1>7 DEF ChunkEnd, Piece, Upto, Transit
  <2> QED BY <2>1, <2>2 DEF GetChunk
<1>9. PICK f : f = [cmd |-> "DATA", data |-> d]
  OBVIOUS
<1>10. f \in Frame /\ f.cmd = "DATA" /\ Send(s, <<f>>)
  <2>1. d \in MailFile
    BY <1>2, <1>6, <1>7, NextPiece
  <2> QED BY <1>8, <1>9, <2>1, Frames DEF SendChunk
<1>11. /\ pc'[s] = "afterData" /\ state'[s] = "TRANSFER_FILES"
       /\ \A t \in Sides \ {s} : pc'[t] = pc[t] /\ state'[t] = state[t] /\ sess'[t] = sess[t]
       /\ sess'[s] = [sess[s] EXCEPT !.start = n + conf.ChunkSize]
  BY <1>2, <1>5, <1>8 DEF SendChunk, GoTo, TypeOK
<1>12. Speaks(s, <<f>>)
  <2>1. chan'[s] = <<>> /\ chan'[r] = <<f>> /\ rst' = rst
    BY <1>1, <1>3, <1>10, Single, SendAlone
  <2>2. UNCHANGED <<out, inb, pend, delivered, contact, posted, budget, conf>>
    BY <1>8 DEF SendChunk, disk, ghost, env
  <2> QED BY <1>1, <1>2, <1>3, <1>11, <2>1, <2>2 DEF Speaks, Members
<1>13. PlaceOf(s)' /\ KnowsOf(s)' /\ Tells(s, <<f>>)
  BY <1>2, <1>11, <1>12, InsideTransfer DEF Ending, Members
<1>14. TurnOf(s)'
  BY <1>11 DEF TurnOf, Acting
<1>15. MailAt(s)'
  <2>1. /\ Mail(s)' = Mail(s) /\ Untouched(r)' = Untouched(r) /\ Partial(r, s, n)' = Partial(r, s, n)
        /\ Piece(Mail(s), n)' = Piece(Mail(s), n) /\ conf' = conf
    BY <1>1, <1>11, <1>12 DEF Speaks, Mail, Untouched, Partial, Receiving, Piece
  <2>2. /\ sess'[s].to_send = sess[s].to_send /\ sess'[s].start = n + conf.ChunkSize
        /\ sess'[s].file_length = sess[s].file_length /\ out'[s] = out[s]
    BY <1>2, <1>11, <1>12 DEF Speaks, Members
  <2>3. chan'[r] = <<[cmd |-> "DATA", data |-> Piece(Mail(s), n)]>>
    BY <1>1, <1>7, <1>9, <1>12 DEF Speaks
  <2>4. sess'[s].start - conf'.ChunkSize = n
    BY <1>6, <2>1, <2>2
  <2>5. Sent(s)'
    BY <1>1, <1>4, <1>5, <1>6, <1>11, <2>1, <2>3, <2>4 DEF Sent, Sending
  <2>6. Transit(s)'
    BY <1>1, <1>2, <1>4, <2>1, <2>2, <2>5 DEF Transit
  <2> QED BY <2>6 DEF MailAt
<1>16. {pc[s], pc'[s]} \cap Ending = {}
  BY <1>2, <1>11 DEF Ending
<1>17. \A k \in DOMAIN <<f>> : FrameOK(r, <<f>>[k])'
  <2>1. DOMAIN <<f>> = {1} /\ <<f>>[1] = f
    OBVIOUS
  <2>2. FrameOK(r, f)'
    BY <1>10 DEF FrameOK
  <2> QED BY <2>1, <2>2
<1>18. ~Has(<<f>>, "M_GOT") /\ Len(<<f>>) <= 1
  BY <1>10, Single
<1> QED
  BY <1>1, <1>2, <1>3, <1>12, <1>13, <1>14, <1>15, <1>16, <1>17, <1>18, SpeakKeeps

\* The last word.
LEMMA EobSmooth ==
  ASSUME TypeOK, Undisturbed, Smooth, NEW s \in Sides, SendEob(s)
  PROVE  Smooth'
<1>1. PICK r \in Sides : r = Peer(s) /\ r # s /\ Peer(r) = s
  BY TwoSides
<1>2. /\ PlaceOf(s) /\ MailAt(s) /\ sess[s].open /\ sess[s] \in Members
      /\ pc[s] = "flush" /\ state[s] = "TRANSFER_FILES"
  BY OpenInside DEF Smooth, SmoothOf, SendEob, Ending, TypeOK, PlaceOf
<1>3. chan[s] = <<>> /\ chan[r] = <<>> /\ ~Acting(r)
  <2>1. ~Predicate(s)
    BY <1>2 DEF Predicate
  <2>2. chan[s] = <<>> /\ chan[r] = <<>> /\ (InWindow(r) \/ ~sess[r].open)
    BY <1>1, <1>2, <2>1, WindowEnds DEF SendEob
  <2> QED BY <2>2, ActingIsOutside
<1>4. sess[r].open
  <2>1. ~EobSent(s) /\ pc[s] # "idle"
    BY <1>2 DEF EobSent, Early, Ending
  <2> QED BY <1>1, <2>1, PeerStays
<1>5. PICK f : f = Cmd("M_EOB")
  OBVIOUS
<1>6. f \in Frame /\ f.cmd = "M_EOB" /\ Send(s, <<f>>)
  BY <1>5, Frames DEF SendEob, Cmd
<1>7. /\ pc'[s] = "afterEob" /\ state'[s] = "TRANSFER_FILES" /\ sess' = sess
      /\ \A t \in Sides \ {s} : pc'[t] = pc[t] /\ state'[t] = state[t] /\ sess'[t] = sess[t]
  BY <1>2 DEF SendEob, GoTo, TypeOK
<1>8. Speaks(s, <<f>>)
  <2>1. chan'[s] = <<>> /\ chan'[r] = <<f>> /\ rst' = rst
    BY <1>1, <1>3, <1>4, <1>6, Single, SendAlone
  <2>2. UNCHANGED <<out, inb, pend, delivered, contact, posted, budget, conf>>
    BY DEF SendEob, disk, ghost, env
  <2> QED BY <1>1, <1>3, <1>7, <2>1, <2>2 DEF Speaks
<1>9. PlaceOf(s)' /\ KnowsOf(s)' /\ Tells(s, <<f>>)
  <2>1. Has(<<f>>, "M_EOB")
    BY <1>6, Single
  <2> QED BY <1>2, <1>7, <1>8, <2>1, InsideTransfer DEF Ending
<1>10. TurnOf(s)'
  BY <1>7 DEF TurnOf, Acting
<1>11. MailAt(s)'
  <2>1. ~Has(<<f>>, "M_FILE") /\ ~Has(<<f>>, "DATA") /\ ~Before(s)
    BY <1>2, <1>6, Single DEF Before
  <2> QED BY <1>2, <1>7, <1>8, <2>1, MailSpeaks
<1>12. {pc[s], pc'[s]} \cap Ending = {}
  BY <1>2, <1>7 DEF Ending
<1>13. \A k \in DOMAIN <<f>> : FrameOK(r, <<f>>[k])'
  <2>1. DOMAIN <<f>> = {1} /\ <<f>>[1] = f
    OBVIOUS
  <2>2. EobSent(s)'
    BY <1>7 DEF EobSent
  <2>3. FrameOK(r, f)'
    BY <1>1, <1>6, <2>2 DEF FrameOK
  <2> QED BY <2>1, <2>3
<1>14. ~Has(<<f>>, "M_GOT") /\ Len(<<f>>) <= 1
  BY <1>6, Single
<1> QED
  BY <1>1, <1>2, <1>3, <1>4, <1>8, <1>9, <1>10, <1>11, <1>12, <1>13, <1>14, SpeakKeeps

-----------------------------------------------------------------------------
(* A side reads.                                                           *)

\* Side s takes the first frame, f, from its channel; on the other one there
\* is then reply, if anything.
Reads(s, f, reply) ==
  /\ InWindow(s) /\ chan[s] # <<>> /\ f = Head(chan[s])
  /\ chan'[s] = Tail(chan[s]) /\ chan'[Peer(s)] = reply
  /\ pc' = pc /\ state' = state /\ rst' = rst
  /\ UNCHANGED <<pend, delivered, contact, posted, budget, conf>>
  /\ \A t \in Sides \ {s} : sess'[t] = sess[t] /\ out'[t] = out[t] /\ inb'[t] = inb[t]

\* and learns what it says.
Learns(s, f) ==
  /\ sess'[s].open = sess[s].open /\ sess'[s].done = sess[s].done
  /\ sess'[s].error_received = sess[s].error_received
  /\ sess'[s].address_list = (sess[s].address_list \/ f.cmd = "M_ADR")
  /\ sess'[s].ok_received = (sess[s].ok_received \/ f.cmd = "M_OK")
  /\ sess'[s].eob_received = (sess[s].eob_received \/ f.cmd = "M_EOB")
  /\ CASE f.cmd = "M_PWD" -> /\ sess'[s].challenge = sess[s].challenge
                             /\ sess'[s].auth_type = f.auth_type
                             /\ sess'[s].remote_password = f.password
       [] f.cmd = "M_NUL" -> /\ sess'[s].challenge = Challenge
                             /\ sess'[s].remote_password = sess[s].remote_password
       [] OTHER -> /\ sess'[s].challenge = sess[s].challenge
                   /\ sess'[s].auth_type = sess[s].auth_type
                   /\ sess'[s].remote_password = sess[s].remote_password

\* A channel is its first frame and the rest.
LEMMA HeadOrTail ==
  ASSUME NEW q \in Seq(Frame), q # <<>>
  PROVE  /\ \A c : Has(q, c) => Head(q).cmd = c \/ Has(Tail(q), c)
         /\ \A k \in DOMAIN Tail(q) : \E l \in DOMAIN q : Tail(q)[k] = q[l]
         /\ 1 \in DOMAIN q /\ Head(q) = q[1] /\ Head(q) \in Frame
         /\ Len(Tail(q)) = Len(q) - 1 /\ Len(q) \in Nat /\ Tail(q) \in Seq(Frame)
         /\ Len(q) <= 1 => Tail(q) = <<>>
<1> DEFINE r == Tail(q)
<1>1. /\ Len(q) \in Nat /\ Len(q) >= 1 /\ DOMAIN q = 1..Len(q) /\ DOMAIN r = 1..Len(q) - 1
      /\ \A k \in 1..Len(q) - 1 : r[k] = q[k + 1]
      /\ Head(q) = q[1] /\ r \in Seq(Frame) /\ Len(r) = Len(q) - 1 /\ Head(q) \in Frame
  BY HeadTailProperties
<1>2. Len(q) <= 1 => r = <<>>
  BY <1>1
<1> HIDE DEF r
<1>3. \A k \in DOMAIN q : k = 1 \/ (k - 1 \in DOMAIN r /\ r[k - 1] = q[k])
  BY <1>1
<1>4. \A c : Has(q, c) => Head(q).cmd = c \/ Has(r, c)
  BY <1>1, <1>3 DEF Has
<1>5. \A k \in DOMAIN r : \E l \in DOMAIN q : r[k] = q[l]
  BY <1>1
<1> QED BY <1>1, <1>2, <1>4, <1>5 DEF r

\* No side reads while the other one acts, and the frame is a good one.
LEMMA ReaderIsAlone ==
  ASSUME TypeOK, Smooth, NEW s \in Sides, InWindow(s), chan[s] # <<>>
  PROVE  /\ sess[s].open /\ chan[Peer(s)] = <<>> /\ ~Acting(s) /\ ~Acting(Peer(s))
         /\ pc[s] \notin Ending /\ Head(chan[s]) \in Frame /\ FrameOK(s, Head(chan[s]))
<1>1. PICK r \in Sides : r = Peer(s) /\ r # s /\ Peer(r) = s
  BY TwoSides
<1>2. chan[s] \in Seq(Frame) /\ ChanOf(s) /\ TurnOf(r)
  BY <1>1 DEF TypeOK, Smooth, SmoothOf
<1>3. ~Acting(r)
  BY <1>1, <1>2 DEF TurnOf
<1>4. ~Acting(s) /\ sess[s].open /\ pc[s] \notin Ending
  BY DEF InWindow, Acting, WindowPcs, Ending
<1> QED BY <1>1, <1>2, <1>3, <1>4, HeadOrTail DEF ChanOf

\* A password that is accepted is none that was never heard.
LEMMA AcceptedIsOne ==
  ASSUME TypeOK, NEW a, NEW p, Accepted(a, p)
  PROVE  p # PlainText("")
<1>1. conf.Password["ANSWERING"] # ""
  BY ConfFields DEF TypeOK, Sides
<1>2. p.secret = conf.Password["ANSWERING"]
  BY DEF Accepted, PlainText, CreateHashedSecret
<1>3. PlainText("").secret = ""
  BY DEF PlainText
<1> QED BY <1>1, <1>2, <1>3

LEMMA ReadKeeps ==
  ASSUME TypeOK, Undisturbed, Smooth, NEW s \in Sides, NEW f, NEW reply,
         Reads(s, f, reply), Learns(s, f),
         \/ reply = <<>>
         \/ /\ chan'[s] = <<>> /\ sess[Peer(s)].open
            /\ \E g : reply = <<g>> /\ g.cmd = "M_GOT",
         MailAt(s)', MailAt(Peer(s))'
  PROVE  Smooth'
<1>1. PICK r \in Sides : r = Peer(s) /\ r # s /\ Peer(r) = s /\ \A t \in Sides : t \in {r, s}
  BY TwoSides
<1>2. /\ sess'[r] = sess[r] /\ chan[s] # <<>> /\ f = Head(chan[s]) /\ chan'[s] = Tail(chan[s])
      /\ chan'[r] = reply /\ pc' = pc /\ state' = state /\ rst' = rst /\ conf' = conf
  BY <1>1 DEF Reads
<1>3. SmoothOf(r) /\ SmoothOf(s) /\ chan[s] \in Seq(Frame)
  BY DEF Smooth, TypeOK
<1>4. /\ sess[s].open /\ chan[r] = <<>> /\ ~Acting(s) /\ ~Acting(r) /\ pc[s] \notin Ending
      /\ f \in Frame /\ FrameOK(s, f)
  BY <1>1, <1>2, <1>3, ReaderIsAlone DEF Reads
<1>5. \A t \in Sides :
        /\ GreetingSent(t)' = GreetingSent(t) /\ EobSent(t)' = EobSent(t)
        /\ PasswordSent(t)' = PasswordSent(t) /\ OkSent(t)' = OkSent(t)
  BY <1>2 DEF GreetingSent, EobSent, PasswordSent, OkSent, Early
<1>6. \A a, p : Accepted(a, p)' = Accepted(a, p)
  BY <1>2 DEF Accepted
<1>7. \A c : Has(chan[s], c) => f.cmd = c \/ Has(chan'[s], c)
  BY <1>2, <1>3, HeadOrTail
<1>8. PlaceOf(s)' /\ PlaceOf(r)'
  <2>1. PlaceOf(s)'
    BY <1>1, <1>2, <1>3, <1>4 DEF SmoothOf, PlaceOf, Learns, Ending, Closing
  <2>2. pc[r] \in Closing => ~sess[r].open
    BY <1>1, <1>3, <1>4 DEF SmoothOf, PlaceOf
  <2>3. reply = <<>> \/ sess[r].open
    BY <1>1
  <2>4. sess'[s].open
    BY <1>4 DEF Learns
  <2>5. PlaceOf(r)'
    BY <1>1, <1>2, <1>3, <2>2, <2>3, <2>4 DEF SmoothOf, PlaceOf
  <2> QED BY <2>1, <2>5
<1>9. TurnOf(s)' /\ TurnOf(r)'
  BY <1>2, <1>4 DEF TurnOf, Acting
<1>10. ChanOf(s)' /\ ChanOf(r)'
  <2>1. \A t \in Sides : \A g : FrameOK(t, g)' = FrameOK(t, g)
    BY <1>1, <1>5, <1>6, TwoSides DEF FrameOK
  <2>2. \A k \in DOMAIN chan'[s] : FrameOK(s, chan'[s][k])
    BY <1>2, <1>3, HeadOrTail DEF SmoothOf, ChanOf
  <2>3. Len(chan'[s]) <= 1
    <3>1. Len(chan[s]) <= 2
      <4>1. Len(Greeting("ANSWERING")) = 2
        BY DEF Greeting
      <4> QED BY <1>3, <4>1 DEF SmoothOf, ChanOf
    <3>2. Len(chan[s]) \in Nat /\ Len(chan'[s]) = Len(chan[s]) - 1
      BY <1>2, <1>3, HeadOrTail
    <3> QED BY <3>1, <3>2
  <2>4. \A k \in DOMAIN chan'[r] : FrameOK(r, chan'[r][k])
    <3>1. CASE reply = <<>>
      BY <1>2, <3>1
    <3>2. CASE \E g : reply = <<g>> /\ g.cmd = "M_GOT"
      <4>1. PICK g : reply = <<g>> /\ g.cmd = "M_GOT"
        BY <3>2
      <4>2. FrameOK(r, g)
        BY <4>1 DEF FrameOK
      <4>3. DOMAIN <<g>> = {1} /\ <<g>>[1] = g
        OBVIOUS
      <4> QED BY <1>2, <4>1, <4>2, <4>3
    <3> QED BY <3>1, <3>2
  <2>5. Len(chan'[r]) <= 1 /\ (chan'[r] = <<>> \/ chan'[s] = <<>>)
    <3>1. CASE reply = <<>>
      BY <1>2, <3>1
    <3>2. CASE chan'[s] = <<>> /\ \E g : reply = <<g>>
      <4>1. PICK g : reply = <<g>>
        BY <3>2
      <4> QED BY <1>2, <3>2, <4>1
    <3> QED BY <3>1, <3>2
  <2>6. ChanOf(s)'
    BY <1>1, <2>1, <2>2, <2>3, <2>5 DEF ChanOf
  <2>7. ChanOf(r)'
    BY <1>1, <2>1, <2>4, <2>5 DEF ChanOf
  <2> QED BY <2>6, <2>7
<1>11. HeardOf(r)' /\ HeardOf(s)'
  <2>1. HeardOf(r)'
    <3>1. \A c : ~Has(chan[r], c)
      BY <1>4, ShortOnes
    <3> QED BY <1>1, <1>2, <1>3, <1>5, <3>1 DEF SmoothOf, HeardOf
  <2>2. f.cmd = "M_PWD" => sess'[s].remote_password # PlainText("")
    <3> SUFFICES ASSUME f.cmd = "M_PWD" PROVE sess'[s].remote_password # PlainText("")
      OBVIOUS
    <3>1. sess'[s].remote_password = f.password /\ Accepted(f.auth_type, f.password)
      BY <1>4 DEF Learns, FrameOK
    <3> QED BY <3>1, AcceptedIsOne
  <2>3. f.cmd # "M_PWD" => sess'[s].remote_password = sess[s].remote_password
    BY DEF Learns
  <2>4. /\ sess'[s].address_list = (sess[s].address_list \/ f.cmd = "M_ADR")
        /\ sess'[s].ok_received = (sess[s].ok_received \/ f.cmd = "M_OK")
        /\ sess'[s].eob_received = (sess[s].eob_received \/ f.cmd = "M_EOB")
    BY DEF Learns
  <2>5. HeardOf(s) /\ pc'[s] = pc[s]
    BY <1>2, <1>3 DEF SmoothOf
  <2>6. HeardOf(s)'
    BY <1>1, <1>5, <1>7, <2>2, <2>3, <2>4, <2>5 DEF HeardOf
  <2> QED BY <2>1, <2>6
<1>12. KnowsOf(r)' /\ KnowsOf(s)'
  <2>1. sess'[s].open = sess[s].open
    BY DEF Learns
  <2>2. KnowsOf(r)'
    BY <1>1, <1>2, <1>3, <1>5, <1>6, <2>1 DEF SmoothOf, KnowsOf
  <2>3. /\ sess'[s].address_list = (sess[s].address_list \/ f.cmd = "M_ADR")
        /\ sess'[s].eob_received = (sess[s].eob_received \/ f.cmd = "M_EOB")
        /\ f.cmd = "M_EOB" => EobSent(r)
    BY <1>1, <1>4 DEF Learns, FrameOK
  <2>4. s = "ORIGINATING" /\ sess'[s].auth_type = "CRAM_MD5" =>
          sess'[s].challenge = Challenge \/ pc[s] = "idle"
    <3>1. s = "ORIGINATING" => f.cmd # "M_PWD"
      BY <1>4 DEF FrameOK
    <3> QED BY <1>3, <3>1 DEF Learns, SmoothOf, KnowsOf
  <2>5. s = "ANSWERING" =>
          /\ sess'[s].challenge = sess[s].challenge
          /\ \/ /\ sess'[s].auth_type = sess[s].auth_type
                /\ sess'[s].remote_password = sess[s].remote_password
             \/ /\ Accepted(sess'[s].auth_type, sess'[s].remote_password)
                /\ sess'[s].remote_password # PlainText("")
    <3> SUFFICES ASSUME s = "ANSWERING"
                 PROVE  /\ sess'[s].challenge = sess[s].challenge
                        /\ \/ /\ sess'[s].auth_type = sess[s].auth_type
                              /\ sess'[s].remote_password = sess[s].remote_password
                           \/ /\ Accepted(sess'[s].auth_type, sess'[s].remote_password)
                              /\ sess'[s].remote_password # PlainText("")
      OBVIOUS
    <3>1. f.cmd # "M_NUL"
      BY <1>4 DEF FrameOK
    <3>2. CASE f.cmd = "M_PWD"
      <4>1. /\ sess'[s].remote_password = f.password /\ sess'[s].auth_type = f.auth_type
            /\ sess'[s].challenge = sess[s].challenge /\ Accepted(f.auth_type, f.password)
        BY <1>4, <3>2 DEF Learns, FrameOK
      <4> QED BY <4>1, AcceptedIsOne
    <3>3. CASE f.cmd # "M_PWD"
      BY <3>1, <3>3 DEF Learns
    <3> QED BY <3>2, <3>3
  <2>6. KnowsOf(s)'
    <3>1. KnowsOf(s)
      BY <1>3 DEF SmoothOf
    <3>2. pc[s] # "idle"
      BY <1>4 DEF Ending
    <3> QED BY <1>1, <1>2, <1>5, <1>6, <2>3, <2>4, <2>5, <3>1, <3>2 DEF KnowsOf
  <2> QED BY <2>2, <2>6
<1>13. CountOf(r)' /\ CountOf(s)' /\ BudgetInv'
  BY <1>2, <1>3 DEF SmoothOf, CountOf, Reads, Smooth, BudgetInv
<1> QED BY <1>1, <1>8, <1>9, <1>10, <1>11, <1>12, <1>13 DEF Smooth, SmoothOf

\* Reading does not change where its own file stands, unless it is acknowledged,
LEMMA OwnMailReads ==
  ASSUME TypeOK, Smooth, NEW s \in Sides, NEW f, NEW reply, Reads(s, f, reply), f.cmd # "M_GOT",
         sess'[s].to_send = sess[s].to_send, sess'[s].file_length = sess[s].file_length,
         sess'[s].start = sess[s].start, out'[s] = out[s],
         ~Has(reply, "M_FILE"), ~Has(reply, "DATA")
  PROVE  MailAt(s)'
<1>1. PICK r \in Sides : r = Peer(s) /\ r # s /\ Peer(r) = s
  BY TwoSides
<1>2. /\ pc' = pc /\ state' = state /\ sess'[r] = sess[r] /\ inb'[r] = inb[r] /\ conf' = conf
      /\ chan'[r] = reply /\ chan'[s] = Tail(chan[s]) /\ f = Head(chan[s]) /\ chan[s] # <<>>
      /\ chan[s] \in Seq(Frame) /\ chan[r] = <<>> /\ MailAt(s) /\ pc[s] # "idle"
  BY <1>1, ReaderIsAlone DEF Reads, TypeOK, Smooth, SmoothOf, Ending
<1>3. /\ Mail(s)' = Mail(s) /\ Untouched(r)' = Untouched(r) /\ (NoneOnLine(s) => NoneOnLine(s)')
      /\ \A n : Partial(r, s, n)' = Partial(r, s, n)
  <2>1. Has(chan'[s], "M_GOT") => Has(chan[s], "M_GOT")
    BY <1>2, TakenOff
  <2> QED BY <1>1, <1>2, <2>1 DEF Mail, Untouched, NoneOnLine, Partial, Receiving, Reads
<1>4. CASE Home(s)
  <2>1. Home(s)'
    BY <1>1, <1>2, <1>3, <1>4 DEF Home, Before, Receiving, Reads
  <2> QED BY <2>1 DEF MailAt
<1>5. CASE Transit(s)
  <2>1. ~Sent(s) /\ ~Answered(s) /\ (Offered(s) => Partial(r, s, 0) /\ NoneOnLine(s))
    BY <1>1, <1>2, HeadOrTail DEF Sent, Answered, Offered
  <2>2. (Offered(s) => Offered(s)') /\ (Sending(s) => Sending(s)')
    BY <1>1, <1>2, <1>3, <2>1 DEF Offered, Sending
  <2>3. Transit(s)'
    BY <1>1, <1>2, <1>3, <1>5, <2>1, <2>2 DEF Transit
  <2> QED BY <2>3 DEF MailAt
<1>6. CASE Over(s)
  <2>1. InPlace(r, s)' = InPlace(r, s)
    BY <1>1, <1>2, <1>3 DEF InPlace, HasAll, Receiving, Reads
  <2>2. Over(s)'
    BY <1>1, <1>2, <1>3, <1>6, <2>1 DEF Over, Receiving
  <2> QED BY <2>2 DEF MailAt
<1> QED BY <1>2, <1>4, <1>5, <1>6 DEF MailAt

\* nor that of the other side, unless it is offered or sent.
LEMMA PeerMailReads ==
  ASSUME TypeOK, Smooth, NEW s \in Sides, NEW f, Reads(s, f, <<>>), f.cmd \notin {"M_FILE", "DATA"},
         sess'[s].current_receive_file = sess[s].current_receive_file,
         sess'[s].received = sess[s].received, inb'[s] = inb[s]
  PROVE  MailAt(Peer(s))'
<1>1. PICK r \in Sides : r = Peer(s) /\ r # s /\ Peer(r) = s
  BY TwoSides
<1>2. /\ pc' = pc /\ state' = state /\ sess'[r] = sess[r] /\ out'[r] = out[r] /\ conf' = conf
      /\ budget' = budget
      /\ chan'[r] = <<>> /\ chan'[s] = Tail(chan[s]) /\ f = Head(chan[s]) /\ chan[s] # <<>>
      /\ chan[s] \in Seq(Frame) /\ chan[r] = <<>> /\ MailAt(r) /\ pc[s] # "idle"
  BY <1>1, ReaderIsAlone DEF Reads, TypeOK, Smooth, SmoothOf, Ending
<1>3. /\ Mail(r)' = Mail(r) /\ Untouched(s)' = Untouched(s) /\ (NoneOnLine(r) => NoneOnLine(r)')
      /\ \A n : Partial(s, r, n)' = Partial(s, r, n)
  <2>1. /\ Has(chan'[s], "M_FILE") => Has(chan[s], "M_FILE")
        /\ Has(chan'[s], "DATA") => Has(chan[s], "DATA")
    BY <1>2, TakenOff
  <2> QED BY <1>1, <1>2, <2>1 DEF Mail, Untouched, NoneOnLine, Partial, Receiving, Reads
<1>4. CASE Home(r)
  <2>1. Home(r)'
    BY <1>1, <1>2, <1>3, <1>4 DEF Home, Before, Receiving
  <2> QED BY <1>1, <2>1 DEF MailAt
<1>5. CASE Transit(r)
  <2>1. ~Sent(r) /\ ~Answered(r) /\ (Offered(r) => Partial(s, r, 0) /\ NoneOnLine(r))
    BY <1>1, <1>2, HeadOrTail DEF Sent, Answered, Offered
  <2>2. (Offered(r) => Offered(r)') /\ (Sending(r) => Sending(r)')
    BY <1>1, <1>2, <1>3, <2>1 DEF Offered, Sending
  <2>3. Transit(r)'
    BY <1>1, <1>2, <1>3, <1>5, <2>1, <2>2 DEF Transit
  <2> QED BY <1>1, <2>3 DEF MailAt
<1>6. CASE Over(r)
  <2>1. InPlace(s, r)' = InPlace(s, r)
    BY <1>1, <1>2, <1>3 DEF InPlace, HasAll, Receiving, Reads
  <2>2. Over(r)'
    BY <1>1, <1>2, <1>3, <1>6, <2>1 DEF Over, Receiving
  <2> QED BY <1>1, <2>2 DEF MailAt
<1> QED BY <1>2, <1>4, <1>5, <1>6 DEF MailAt

\* A command.
LEMMA CommandSmooth ==
  ASSUME TypeOK, Undisturbed, Smooth, NEW s \in Sides, ReceiveCommand(s)
  PROVE  Smooth'
<1>1. PICK r \in Sides : r = Peer(s) /\ r # s /\ Peer(r) = s
  BY TwoSides
<1>2. PICK f : f = Head(chan[s])
  OBVIOUS
<1>3. /\ f \in Frame /\ FrameOK(s, f) /\ sess[s].open /\ chan[r] = <<>> /\ sess[s] \in Members
      /\ InWindow(s) /\ chan[s] # <<>> /\ chan[s] \in Seq(Frame) /\ f.cmd \notin {"M_GOT", "DATA"}
  BY <1>1, <1>2, ReaderIsAlone DEF ReceiveCommand, TypeOK
<1>4. f.cmd \in {"M_ADR", "M_OK", "M_EOB", "M_NUL", "M_PWD", "M_FILE"}
  BY <1>3, Carries DEF FrameOK
<1>5. Reads(s, f, <<>>)
  <2>1. /\ sess' = [sess EXCEPT ![s] = Handle(s, f)] /\ chan' = [chan EXCEPT ![s] = Tail(chan[s])]
        /\ rst' = rst
        /\ UNCHANGED <<pc, state, out, inb, pend, delivered, contact, posted, budget, conf>>
    BY <1>2 DEF ReceiveCommand, Pop, disk, ghost, env
  <2> QED BY <1>1, <1>2, <1>3, <2>1 DEF Reads, TypeOK
<1>6. sess'[s] = Handle(s, f) /\ inb'[s] = inb[s] /\ out'[s] = out[s]
  BY <1>2 DEF ReceiveCommand, TypeOK, disk
<1>7. f.cmd = "M_NUL" => f.challenge = Challenge
  BY <1>3, Carries
<1>8. Learns(s, f)
  <2>1. CASE f.cmd = "M_NUL"
    BY <1>3, <1>6, <1>7, <2>1 DEF Learns, Handle, Members
  <2>2. CASE f.cmd = "M_ADR"
    BY <1>3, <1>6, <2>2 DEF Learns, Handle, Members
  <2>3. CASE f.cmd = "M_OK"
    BY <1>3, <1>6, <2>3 DEF Learns, Handle, Members
  <2>4. CASE f.cmd = "M_EOB"
    BY <1>3, <1>6, <2>4 DEF Learns, Handle, Members
  <2>5. CASE f.cmd = "M_PWD"
    BY <1>3, <1>6, <2>5 DEF Learns, Handle, Members
  <2>6. CASE f.cmd = "M_FILE"
    BY <1>3, <1>6, <2>6 DEF Learns, Handle, Members
  <2> QED BY <1>4, <2>1, <2>2, <2>3, <2>4, <2>5, <2>6
<1>9. /\ sess'[s].to_send = sess[s].to_send /\ sess'[s].file_length = sess[s].file_length
      /\ sess'[s].start = sess[s].start /\ sess'[s].received = sess[s].received
      /\ f.cmd # "M_FILE" => sess'[s].current_receive_file = sess[s].current_receive_file
      /\ f.cmd = "M_FILE" => sess'[s].current_receive_file =
                               [size |-> f.size, len |-> 0, open |-> FALSE, on |-> TRUE]
  BY <1>3, <1>4, <1>6 DEF Handle, Members
<1>10. MailAt(s)'
  BY <1>3, <1>5, <1>6, <1>9, OwnMailReads, ShortOnes
<1>11. MailAt(r)'
  <2>1. CASE f.cmd # "M_FILE"
    BY <1>1, <1>3, <1>5, <1>6, <1>9, <2>1, PeerMailReads
  <2>2. CASE f.cmd = "M_FILE"
    <3>1. Has(chan[s], "M_FILE") /\ MailAt(r)
      BY <1>2, <1>3, <2>2, TakenOff DEF Smooth, SmoothOf
    <3>2. Transit(r)
      BY <1>1, <3>1 DEF MailAt, Home, Over, NoneOnLine
    <3>3. Len(chan[s]) = 1 /\ Offered(r) /\ NoPart(s) /\ f = [cmd |-> "M_FILE", size |-> Len(Mail(r))]
      <4>1. ~Sending(r) /\ ~Answered(r) /\ ~Sent(r)
        BY <1>1, <1>2, <1>3, <2>2, <3>1 DEF Sending, Answered, Sent, NoneOnLine
      <4>2. Offered(r) /\ ~NoneOnLine(r)
        BY <1>1, <3>1, <3>2, <4>1 DEF Transit, NoneOnLine
      <4>3. PICK g : g = [cmd |-> "M_FILE", size |-> Len(Mail(r))]
        OBVIOUS
      <4>4. NoPart(s) /\ chan[s] = <<g>>
        BY <1>1, <4>2, <4>3 DEF Offered
      <4>5. Len(chan[s]) = 1 /\ Head(chan[s]) = g
        BY <4>4
      <4> QED BY <1>2, <4>2, <4>3, <4>4, <4>5
    <3>4. f.size = Len(Mail(r)) /\ chan'[s] = <<>> /\ chan'[r] = <<>>
      <4>1. f.size = Len(Mail(r))
        BY <3>3
      <4>2. Tail(chan[s]) = <<>>
        BY <1>3, <3>3, HeadOrTail
      <4> QED BY <1>1, <1>5, <4>1, <4>2 DEF Reads
    <3>5. Mail(r)' = Mail(r) /\ Untouched(s)' = Untouched(s) /\ NoneOnLine(r)'
      BY <1>1, <1>5, <3>4, ShortOnes DEF Reads, Mail, Untouched, NoneOnLine
    <3>6. SubSeq(Mail(r), 1, 0) = <<>>
      BY DEF Mail
    <3>7. Partial(s, r, 0)'
      <4>1. ~(0 > 0)
        OBVIOUS
      <4>2. PICK g : g = [size |-> f.size, len |-> 0, open |-> FALSE, on |-> TRUE]
        OBVIOUS
      <4>4. sess'[s].current_receive_file = g /\ g.size = Len(Mail(r)) /\ g.len = 0 /\ g.on
        BY <1>9, <2>2, <3>4, <4>2
      <4>3. inb'[s] = <<>> /\ ~sess'[s].received
        BY <1>6, <1>9, <3>3 DEF NoPart
      <4> QED BY <3>5, <3>6, <4>1, <4>3, <4>4 DEF Partial, Receiving
    <3>8. Offered(r)'
      BY <1>1, <1>5, <3>3, <3>5, <3>7 DEF Offered, Reads
    <3>9. Transit(r)'
      BY <1>1, <1>5, <3>2, <3>5, <3>8 DEF Transit, Reads
    <3> QED BY <3>9 DEF MailAt
  <2> QED BY <2>1, <2>2
<1> QED BY <1>1, <1>5, <1>8, <1>10, <1>11, ReadKeeps

\* The acknowledgement: the other side has all of the file.
LEMMA GotSmooth ==
  ASSUME TypeOK, Undisturbed, Smooth, NEW s \in Sides, HandleFileGotRequest(s)
  PROVE  Smooth'
<1>1. PICK r \in Sides : r = Peer(s) /\ r # s /\ Peer(r) = s
  BY TwoSides
<1>2. PICK f : f = Head(chan[s])
  OBVIOUS
<1>3. /\ f \in Frame /\ sess[s].open /\ chan[r] = <<>> /\ sess[s] \in Members
      /\ InWindow(s) /\ chan[s] # <<>> /\ chan[s] \in Seq(Frame) /\ f.cmd = "M_GOT"
  BY <1>1, <1>2, ReaderIsAlone DEF HandleFileGotRequest, TypeOK
<1>4. Reads(s, f, <<>>)
  <2>1. /\ sess' = [sess EXCEPT ![s].to_send = FALSE] /\ chan' = [chan EXCEPT ![s] = Tail(chan[s])]
        /\ rst' = rst /\ out' = [out EXCEPT ![s] = AfterGot(s)]
        /\ UNCHANGED <<pc, state, inb, pend, delivered, contact, posted, budget, conf>>
    BY <1>2 DEF HandleFileGotRequest, Pop, ghost, env, Undisturbed
  <2> QED BY <1>1, <1>2, <1>3, <2>1 DEF Reads, TypeOK
<1>5. sess'[s] = [sess[s] EXCEPT !.to_send = FALSE] /\ inb'[s] = inb[s] /\ out'[s] = AfterGot(s)
  BY <1>2 DEF HandleFileGotRequest, TypeOK, Undisturbed
<1>6. Learns(s, f)
  BY <1>3, <1>5 DEF Learns, Members
<1>7. /\ ~sess'[s].to_send /\ sess'[s].file_length = sess[s].file_length
      /\ sess'[s].start = sess[s].start /\ sess'[s].received = sess[s].received
      /\ sess'[s].current_receive_file = sess[s].current_receive_file
  BY <1>3, <1>5 DEF Members
<1>8. MailAt(s)'
  <2>1. Has(chan[s], "M_GOT") /\ MailAt(s)
    BY <1>2, <1>3, TakenOff DEF Smooth, SmoothOf
  <2>2. Transit(s)
    BY <2>1 DEF MailAt, Home, Over, NoneOnLine
  <2>3. Answered(s)
    <3>1. ~Sending(s) /\ ~Sent(s)
      BY <1>1, <1>3, <2>1 DEF Sending, Sent, NoneOnLine
    <3>2. ~Offered(s)
      BY <1>1, <1>3, <2>1 DEF Offered, NoneOnLine
    <3> QED BY <2>2, <3>1, <3>2 DEF Transit
  <2>4. chan'[s] = <<>> /\ chan'[r] = <<>>
    <3>1. Len(chan[s]) = 1
      BY <2>3 DEF Answered
    <3>2. Tail(chan[s]) = <<>>
      BY <1>3, <3>1, HeadOrTail
    <3> QED BY <1>1, <1>4, <3>2 DEF Reads
  <2>5. /\ pc'[s] = "afterData" /\ sess'[s].start >= sess'[s].file_length
        /\ sess'[r] = sess[r] /\ inb'[r] = inb[r] /\ pc'[r] = pc[r]
    BY <1>1, <1>4, <1>7, <2>2, <2>3 DEF Reads, Transit, Answered
  <2>6. out'[s] = <<>>
    BY <1>5, <2>2 DEF Transit, AfterGot
  <2>7. Mail(s)' = Mail(s) /\ Untouched(r)' /\ NoneOnLine(s)'
    BY <1>1, <1>4, <2>2, <2>4, ShortOnes DEF Reads, Mail, Untouched, NoneOnLine, Transit
  <2>8. pc[r] \notin {"network", "contact", "idle"}
    <3>1. ~EobSent(s) /\ pc[s] # "idle"
      BY <2>3 DEF Answered, EobSent, Early, Ending
    <3>2. sess[r].open /\ PlaceOf(r)
      BY <1>1, <3>1, PeerStays DEF Smooth, SmoothOf
    <3>3. ~NewBinkP(FALSE).open
      BY DEF NewBinkP
    <3>4. pc[r] # "idle"
      BY <3>2, <3>3 DEF PlaceOf
    <3> QED BY <1>1, <1>3, <3>2, <3>4 DEF PlaceOf, Closing
  <2>9. HasAll(r, s)' /\ ~Receiving(sess'[r])
    BY <1>1, <2>3, <2>5, <2>7 DEF Answered, HasAll
  <2>10. Over(s)'
    BY <1>1, <1>7, <2>5, <2>6, <2>7, <2>8, <2>9 DEF Over, InPlace
  <2> QED BY <2>10 DEF MailAt
<1>9. MailAt(r)'
  BY <1>1, <1>3, <1>4, <1>5, <1>7, PeerMailReads
<1> QED BY <1>1, <1>4, <1>6, <1>8, <1>9, ReadKeeps

\* A data frame is the next piece of the file the other side is sending.
LEMMA DataIsNext ==
  ASSUME TypeOK, Smooth, NEW s \in Sides, InWindow(s), chan[s] # <<>>, Head(chan[s]).cmd = "DATA"
  PROVE  /\ Transit(Peer(s)) /\ Sent(Peer(s)) /\ Receiving(sess[s])
         /\ Head(chan[s]).data = Piece(Mail(Peer(s)), sess[Peer(s)].start - conf.ChunkSize)
         /\ Tail(chan[s]) = <<>>
<1>1. PICK r \in Sides : r = Peer(s) /\ r # s /\ Peer(r) = s
  BY TwoSides
<1>2. /\ Has(chan[s], "DATA") /\ MailAt(r) /\ chan[r] = <<>> /\ chan[s] \in Seq(Frame)
  BY <1>1, TakenOff, ReaderIsAlone DEF TypeOK, Smooth, SmoothOf
<1>3. Transit(r)
  BY <1>1, <1>2 DEF MailAt, Home, Over, NoneOnLine
<1>4. Sent(r)
  <2>1. ~Sending(r) /\ ~Answered(r)
    BY <1>1, <1>2 DEF Sending, Answered, NoneOnLine
  <2>2. ~Offered(r)
    <3>1. ~NoneOnLine(r)
      BY <1>1, <1>2 DEF NoneOnLine
    <3>2. chan[s] # <<[cmd |-> "M_FILE", size |-> Len(Mail(r))]>>
      <4>1. PICK g : g = [cmd |-> "M_FILE", size |-> Len(Mail(r))]
        OBVIOUS
      <4>2. g.cmd # "DATA" /\ Head(<<g>>) = g
        BY <4>1
      <4> QED BY <4>1, <4>2
    <3> QED BY <1>1, <3>1, <3>2 DEF Offered
  <2> QED BY <1>3, <2>1, <2>2 DEF Transit
<1>5. PICK n, g : /\ n = sess[r].start - conf.ChunkSize
                  /\ g = [cmd |-> "DATA", data |-> Piece(Mail(r), n)]
  OBVIOUS
<1>6. chan[s] = <<g>> /\ Partial(s, r, n) /\ g.data = Piece(Mail(r), n)
  BY <1>1, <1>4, <1>5 DEF Sent
<1>7. Head(chan[s]) = g /\ Tail(chan[s]) = <<>>
  BY <1>6
<1>8. Receiving(sess[s])
  BY <1>6 DEF Partial, Receiving
<1> QED BY <1>1, <1>3, <1>4, <1>5, <1>6, <1>7, <1>8

\* Data: the file grows by its next piece, and the last one completes it.
LEMMA DataSmooth ==
  ASSUME TypeOK, Undisturbed, Smooth, NEW s \in Sides, process_data(s) \/ DropData(s)
  PROVE  Smooth'
<1>1. PICK r \in Sides : r = Peer(s) /\ r # s /\ Peer(r) = s
  BY TwoSides
<1>2. PICK f : f = Head(chan[s])
  OBVIOUS
<1>3. /\ f \in Frame /\ sess[s].open /\ chan[r] = <<>> /\ sess[s] \in Members
      /\ InWindow(s) /\ chan[s] # <<>> /\ chan[s] \in Seq(Frame) /\ f.cmd = "DATA"
      /\ inb[s] \in MailFile /\ out[r] \in MailFile /\ conf.ChunkSize \in Nat \ {0}
  BY <1>1, <1>2, ReaderIsAlone, ConfFields DEF process_data, DropData, TypeOK
<1>4. PICK F, n : F = Mail(r) /\ n = sess[r].start - conf.ChunkSize
  OBVIOUS
<1>5. /\ Transit(r) /\ Sent(r) /\ Receiving(sess[s]) /\ f.data = Piece(F, n) /\ Tail(chan[s]) = <<>>
      /\ F \in MailFile /\ n \in Nat /\ n < Len(F) /\ sess[r].start = n + conf.ChunkSize
  <2>1. Transit(r) /\ Sent(r) /\ Receiving(sess[s]) /\ f.data = Piece(F, n) /\ Tail(chan[s]) = <<>>
    BY <1>1, <1>2, <1>3, <1>4, DataIsNext
  <2>2. F \in MailFile /\ n \in Nat /\ n < Len(F)
    BY <1>3, <1>4, <2>1 DEF Transit, Sent
  <2>3. sess[r].start \in Nat
    BY <1>1, Fields DEF TypeOK
  <2> QED BY <1>3, <1>4, <2>1, <2>2, <2>3
<1>6. PICK b : b = Upto(n + conf.ChunkSize, Len(F))
  OBVIOUS
<1>7. /\ Len(f.data) = b - n /\ b \in n + 1 .. Len(F)
      /\ SubSeq(F, 1, n) \o f.data = SubSeq(F, 1, b)
      /\ Len(F) \in Nat /\ b \in Nat
  <2>1. /\ Len(f.data) = b - n /\ b \in n + 1 .. Len(F)
        /\ SubSeq(F, 1, n) \o f.data = SubSeq(F, 1, b)
    BY <1>3, <1>5, <1>6, NextPiece
  <2>2. Len(F) \in Nat
    BY <1>5 DEF MailFile
  <2> QED BY <1>5, <2>1, <2>2
<1>8. /\ sess[s].current_receive_file.size = Len(F) /\ sess[s].current_receive_file.len = n
      /\ n > 0 => sess[s].current_receive_file.open
      /\ inb[s] = SubSeq(F, 1, n) /\ ~sess[s].received
  BY <1>1, <1>4, <1>5 DEF Sent, Partial
<1>9. MayWrite(s)
  <2>1. CASE n > 0
    BY <1>8, <2>1 DEF MayWrite
  <2>2. CASE ~(n > 0)
    <3>1. n = 0
      BY <1>5, <2>2
    <3>2. SubSeq(F, 1, 0) = <<>>
      BY <1>5 DEF MailFile
    <3> QED BY <1>8, <3>1, <3>2 DEF MayWrite
  <2> QED BY <2>1, <2>2
<1>10. process_data(s)
  BY <1>5 DEF DropData, Receiving
<1> DEFINE file == sess[s].current_receive_file
           len == file.len + (IF MayWrite(s) THEN Len(Head(chan[s]).data) ELSE 0)
<1>11. len = b /\ (Complete(s, len) <=> b = Len(F))
  <2>1. file.len = n /\ file.size = Len(F)
    BY <1>8
  <2>2. len = n + (b - n)
    BY <1>2, <1>7, <1>9, <2>1
  <2>3. len = b
    BY <1>5, <1>7, <2>2
  <2>4. Complete(s, len) <=> b >= Len(F)
    BY <2>1, <2>3 DEF Complete
  <2> QED BY <1>7, <2>3, <2>4
<1>12. /\ inb' = [inb EXCEPT ![s] = inb[s] \o f.data]
       /\ UNCHANGED <<pc, state, out, pend, delivered, contact, posted, budget, conf>>
       /\ b = Len(F) =>
            /\ sess' = [sess EXCEPT ![s] = [@ EXCEPT !.current_receive_file = NoFile, !.received = TRUE]]
            /\ chan' = [chan EXCEPT ![s] = Tail(@), ![Peer(s)] =
                          IF Connected(s) THEN Append(@, [cmd |-> "M_GOT", len |-> len]) ELSE @]
            /\ rst' = [rst EXCEPT ![s] = @ \/ ~Connected(s)]
       /\ b # Len(F) =>
            /\ sess' = [sess EXCEPT ![s].current_receive_file =
                          [file EXCEPT !.len = len, !.open = MayWrite(s)]]
            /\ Pop(s)
  BY <1>2, <1>9, <1>10, <1>11 DEF process_data, ghost, env
<1> HIDE DEF len, file
<1>13. inb'[s] = SubSeq(F, 1, b) /\ inb'[r] = inb[r]
  BY <1>1, <1>7, <1>8, <1>12 DEF TypeOK
<1>14. sess[r].open /\ Connected(s)
  <2>1. ~EobSent(r) /\ pc[r] = "afterData"
    BY <1>5 DEF Sent, EobSent, Early, Ending
  <2>2. sess[r].open /\ ~rst[s]
    BY <1>1, <2>1, OpenInside DEF Ending, Smooth, SmoothOf, PlaceOf
  <2> QED BY <1>1, <2>2 DEF Connected
<1>15. Mail(r)' = F /\ Untouched(s)' = Untouched(s)
  BY <1>4, <1>12 DEF Mail, Untouched
<1>16. CASE b = Len(F)
  <2>1. PICK g : g = [cmd |-> "M_GOT", len |-> len]
    OBVIOUS
  <2>2. chan'[s] = <<>> /\ chan'[r] = <<g>> /\ rst' = rst
    <3>1. Append(<<>>, g) = <<g>>
      OBVIOUS
    <3>2. chan' = [chan EXCEPT ![s] = Tail(@), ![r] = Append(@, g)] /\ rst' = [rst EXCEPT ![s] = @ \/ FALSE]
      <4>1. Connected(s) = TRUE
        BY <1>14
      <4> QED BY <1>1, <1>12, <1>16, <2>1, <4>1
    <3>3. chan'[s] = Tail(chan[s]) /\ chan'[r] = Append(chan[r], g)
      BY <1>1, <3>2 DEF TypeOK
    <3>4. rst' = rst
      BY <3>2 DEF TypeOK
    <3> QED BY <1>3, <1>5, <3>1, <3>3, <3>4
  <2>3. /\ sess'[s] = [sess[s] EXCEPT !.current_receive_file = NoFile, !.received = TRUE]
        /\ \A t \in Sides \ {s} : sess'[t] = sess[t] /\ out'[t] = out[t] /\ inb'[t] = inb[t]
    BY <1>12, <1>16 DEF TypeOK
  <2>4. Reads(s, f, <<g>>)
    BY <1>1, <1>2, <1>3, <1>5, <1>12, <2>2, <2>3 DEF Reads
  <2>5. Learns(s, f)
    BY <1>3, <2>3 DEF Learns, Members
  <2>6. MailAt(s)'
    <3>1. /\ sess'[s].to_send = sess[s].to_send /\ sess'[s].file_length = sess[s].file_length
          /\ sess'[s].start = sess[s].start /\ out'[s] = out[s]
      BY <1>3, <1>12, <2>3 DEF Members
    <3>2. ~Has(<<g>>, "M_FILE") /\ ~Has(<<g>>, "DATA")
      BY <2>1, ShortOnes
    <3> QED BY <1>3, <2>4, <3>1, <3>2, OwnMailReads
  <2>7. MailAt(r)'
    <3>1. HasAll(s, r)'
      <4>1. SubSeq(F, 1, Len(F)) = F
        BY <1>5 DEF MailFile
      <4>2. ~NoFile.on /\ sess'[s].current_receive_file = NoFile /\ sess'[s].received
        BY <1>3, <2>3 DEF NoFile, Members
      <4> QED BY <1>13, <1>15, <1>16, <4>1, <4>2 DEF HasAll, Receiving
    <3>2. sess'[r].start >= Len(F)
      <4>1. n + conf.ChunkSize \in Nat /\ ~(n + conf.ChunkSize < Len(F))
        BY <1>3, <1>5, <1>6, <1>7, <1>16 DEF Upto
      <4>2. sess'[r].start = n + conf.ChunkSize
        BY <1>1, <1>5, <2>3
      <4> QED BY <1>7, <4>1, <4>2
    <3>3. Len(<<g>>) = 1 /\ <<g>>[1].cmd = "M_GOT"
      BY <2>1
    <3>4. Answered(r)'
      BY <1>1, <1>5, <1>12, <1>15, <2>2, <3>1, <3>2, <3>3 DEF Answered, Sent
    <3>5. Transit(r)'
      BY <1>1, <1>4, <1>5, <1>12, <1>15, <2>3, <3>4 DEF Transit, Sent
    <3> QED BY <3>5 DEF MailAt
  <2>8. g.cmd = "M_GOT"
    BY <2>1
  <2> QED BY <1>1, <1>14, <2>2, <2>4, <2>5, <2>6, <2>7, <2>8, ReadKeeps
<1>17. CASE b # Len(F)
  <2>1. /\ sess'[s] = [sess[s] EXCEPT !.current_receive_file =
                         [file EXCEPT !.len = b, !.open = TRUE]]
        /\ \A t \in Sides \ {s} : sess'[t] = sess[t] /\ out'[t] = out[t] /\ inb'[t] = inb[t]
        /\ chan'[s] = <<>> /\ chan'[r] = <<>> /\ rst' = rst
    BY <1>1, <1>3, <1>5, <1>9, <1>11, <1>12, <1>17 DEF TypeOK, Pop
  <2>2. Reads(s, f, <<>>)
    BY <1>1, <1>2, <1>3, <1>5, <1>12, <2>1 DEF Reads
  <2>3. Learns(s, f)
    BY <1>3, <2>1 DEF Learns, Members
  <2>4. MailAt(s)'
    <3>1. /\ sess'[s].to_send = sess[s].to_send /\ sess'[s].file_length = sess[s].file_length
          /\ sess'[s].start = sess[s].start /\ out'[s] = out[s]
      BY <1>3, <1>12, <2>1 DEF Members
    <3> QED BY <1>3, <2>2, <3>1, ShortOnes, OwnMailReads
  <2>5. MailAt(r)'
    <3>1. Partial(s, r, b)'
      <4>1. /\ sess'[s].current_receive_file = [file EXCEPT !.len = b, !.open = TRUE]
            /\ sess'[s].received = sess[s].received
        BY <1>3, <2>1 DEF Members
      <4>2. file \in [size : Nat, len : Nat, open : BOOLEAN, on : BOOLEAN] /\ file.on /\ file.size = Len(F)
        BY <1>3, <1>5, <1>8, Fields DEF file, Receiving
      <4>3. PICK g : g = [file EXCEPT !.len = b, !.open = TRUE]
        OBVIOUS
      <4>4. g.len = b /\ g.open /\ g.on /\ g.size = Len(F)
        BY <4>2, <4>3
      <4> QED BY <1>8, <1>13, <1>15, <4>1, <4>3, <4>4 DEF Partial, Receiving
    <3>2. sess'[r].start = b /\ b < Len(F)
      <4>1. n + conf.ChunkSize \in Nat /\ b < Len(F)
        BY <1>3, <1>5, <1>7, <1>17
      <4>2. b = n + conf.ChunkSize
        BY <1>6, <1>7, <4>1 DEF Upto
      <4> QED BY <1>1, <1>5, <2>1, <4>1, <4>2
    <3>3. NoneOnLine(r)'
      BY <1>1, <2>1, ShortOnes DEF NoneOnLine
    <3>4. Sending(r)'
      BY <1>1, <1>5, <1>12, <1>15, <3>1, <3>2, <3>3 DEF Sending, Sent
    <3>5. Transit(r)'
      BY <1>1, <1>4, <1>5, <1>12, <1>15, <2>1, <3>4 DEF Transit, Sent
    <3> QED BY <3>5 DEF MailAt
  <2> QED BY <1>1, <2>2, <2>3, <2>4, <2>5, ReadKeeps
<1> QED BY <1>16, <1>17

-----------------------------------------------------------------------------
(* The end of a session.                                                   *)

\* Both sides have said M_EOB and one has heard it: all the mail is across.
LEMMA BothOver ==
  ASSUME Smooth, NEW s \in Sides, pc[s] # "idle", EobSent(s), sess[s].eob_received
  PROVE  EobSent(Peer(s)) /\ Over(s) /\ Over(Peer(s))
<1>1. PICK r \in Sides : r = Peer(s) /\ r # s
  BY TwoSides
<1>2. EobSent(r) /\ MailAt(s) /\ MailAt(r)
  BY <1>1 DEF Smooth, SmoothOf, KnowsOf
<1>3. \A t \in Sides : EobSent(t) => ~Transit(t) /\ ~Home(t)
  BY DEF EobSent, Early, Ending, Transit, Offered, Sending, Sent, Answered, Home, Before, EarlyStates
<1> QED BY <1>1, <1>2, <1>3 DEF MailAt

\* Side s comes to its end: only it changes, and nothing is on the line to it.
Ends(s) ==
  /\ \A t \in Sides \ {s} :
       /\ pc'[t] = pc[t] /\ state'[t] = state[t] /\ sess'[t] = sess[t]
       /\ inb'[t] = inb[t] /\ pend'[t] = pend[t] /\ delivered'[t] = delivered[t]
       /\ contact'[t] = contact[t]
  /\ out' = out /\ chan' = chan /\ rst' = rst /\ UNCHANGED <<posted, budget, conf>>
  /\ EobSent(s) /\ pc[s] # "idle" /\ sess[s].eob_received
  /\ EobSent(s)' /\ ~Acting(s)' /\ pc'[s] \in Ending \cup {"tail"}
  /\ ~sess'[s].to_send /\ ~Receiving(sess'[s])

LEMMA EndKeeps ==
  ASSUME Smooth, NEW s \in Sides, Ends(s), Acting(Peer(s)) => ~sess'[s].open,
         pc[Peer(s)] \in Closing /\ ~sess[s].open => ~sess'[s].open,
         PlaceOf(s)', pc'[s] # "idle" => HeardOf(s)' /\ KnowsOf(s)', CountOf(s)', InPlace(s, Peer(s))'
  PROVE  Smooth'
<1>1. PICK r \in Sides : r = Peer(s) /\ r # s /\ Peer(r) = s /\ \A t \in Sides : t \in {r, s}
  BY TwoSides
<1>2. /\ pc'[r] = pc[r] /\ state'[r] = state[r] /\ sess'[r] = sess[r] /\ inb'[r] = inb[r]
      /\ pend'[r] = pend[r] /\ delivered'[r] = delivered[r] /\ contact'[r] = contact[r]
      /\ chan' = chan /\ rst' = rst /\ out' = out /\ posted' = posted /\ budget' = budget /\ conf' = conf
  BY <1>1 DEF Ends
<1>3. SmoothOf(r) /\ SmoothOf(s)
  BY DEF Smooth
<1>4. EobSent(r) /\ Over(s) /\ Over(r)
  BY <1>1, BothOver DEF Ends
<1>5. /\ EobSent(r)' = EobSent(r) /\ GreetingSent(r)' = GreetingSent(r)
      /\ PasswordSent(r)' = PasswordSent(r) /\ OkSent(r)' = OkSent(r)
      /\ \A a, p : Accepted(a, p)' = Accepted(a, p)
  BY <1>2 DEF EobSent, GreetingSent, PasswordSent, OkSent, Early, Accepted
<1>6. EobSent(s) /\ EobSent(s)' /\ GreetingSent(s) /\ PasswordSent(s) /\ OkSent(s)
  BY DEF Ends, EobSent, GreetingSent, PasswordSent, OkSent, Early, Ending
<1>7. PlaceOf(r)'
  BY <1>1, <1>2, <1>3 DEF SmoothOf, PlaceOf
<1>8. TurnOf(s)' /\ TurnOf(r)'
  BY <1>1, <1>2, <1>3 DEF SmoothOf, TurnOf, Acting, Ends
<1>9. ChanOf(r)' /\ ChanOf(s)'
  <2>1. \A f : FrameOK(r, f) => FrameOK(r, f)'
    BY <1>1, <1>5, <1>6 DEF FrameOK
  <2>2. \A f : FrameOK(s, f) => FrameOK(s, f)'
    BY <1>1, <1>5, <1>6 DEF FrameOK
  <2> QED BY <1>1, <1>2, <1>3, <2>1, <2>2 DEF SmoothOf, ChanOf
<1>10. HeardOf(r)'
  BY <1>1, <1>2, <1>3, <1>6 DEF SmoothOf, HeardOf
<1>11. HeardOf(s)' /\ KnowsOf(s)'
  BY DEF HeardOf, KnowsOf
<1>12. KnowsOf(r)'
  BY <1>1, <1>2, <1>3, <1>4, <1>5, <1>6 DEF SmoothOf, KnowsOf
<1>13. MailAt(s)' /\ MailAt(r)'
  <2>1. NoneOnLine(s)' = NoneOnLine(s) /\ NoneOnLine(r)' = NoneOnLine(r)
    BY <1>2 DEF NoneOnLine
  <2>2. InPlace(r, s)' = InPlace(r, s)
    BY <1>2 DEF InPlace, HasAll, Untouched, Mail
  <2>3. Over(s)'
    BY <1>1, <1>2, <1>4, <2>1, <2>2 DEF Over, Ends, Ending
  <2>4. Over(r)'
    BY <1>1, <1>2, <1>4, <2>1 DEF Over, Ends
  <2> QED BY <2>3, <2>4 DEF MailAt
<1>14. CountOf(r)' /\ BudgetInv'
  BY <1>2, <1>3 DEF SmoothOf, CountOf, Smooth, BudgetInv
<1> QED
  BY <1>1, <1>7, <1>8, <1>9, <1>10, <1>11, <1>12, <1>13, <1>14 DEF Smooth, SmoothOf

\* The socket is closed, with nothing unread in it.
LEMMA DoneSmooth ==
  ASSUME TypeOK, Undisturbed, Smooth, NEW s \in Sides, Done(s)
  PROVE  Smooth'
<1>1. PICK r \in Sides : r = Peer(s) /\ r # s /\ Peer(r) = s
  BY TwoSides
<1>2. /\ pc[s] = "handler" /\ state[s] = "DONE" /\ sess[s] \in Members
      /\ PlaceOf(s) /\ KnowsOf(s) /\ HeardOf(s) /\ TurnOf(s) /\ CountOf(s)
  BY DEF Done, At, TypeOK, Smooth, SmoothOf
<1>3. Acting(s) /\ EobSent(s) /\ sess[s].eob_received
  BY <1>2 DEF Acting, EobSent, Early, KnowsOf, WindowStates
<1>4. chan[s] = <<>> /\ chan[r] = <<>> /\ ~Acting(r)
  BY <1>1, <1>2, <1>3, ActingIsOutside DEF TurnOf
<1>5. Over(s) /\ Over(r) /\ EobSent(r)
  BY <1>1, <1>2, <1>3, BothOver
<1>6. /\ pc'[s] = "tail" /\ state'[s] = "DONE"
      /\ \A t \in Sides \ {s} : pc'[t] = pc[t] /\ state'[t] = state[t] /\ sess'[t] = sess[t]
      /\ sess'[s] = [[sess[s] EXCEPT !.open = FALSE, !.done = TRUE] EXCEPT !.done = TRUE]
      /\ chan' = [chan EXCEPT ![s] = <<>>]
      /\ rst' = [rst EXCEPT ![r] = @ \/ (sess[r].open /\ chan[s] # <<>>)]
      /\ UNCHANGED <<out, inb, pend, delivered, contact, posted, budget, conf>>
  <2>1. \A m : (TRUE \/ m) = TRUE
    OBVIOUS
  <2>2. [sess[s] EXCEPT !.open = FALSE, !.done = TRUE].done = TRUE
    BY <1>2 DEF Members
  <2> QED BY <1>1, <2>1, <2>2 DEF Done, Return, Close, TypeOK, disk, ghost, env
<1>7. chan' = chan /\ rst' = rst
  <2>1. rst[r] \in BOOLEAN
    BY DEF TypeOK
  <2>2. (rst[r] \/ (sess[r].open /\ chan[s] # <<>>)) = rst[r]
    BY <1>4, <2>1
  <2> QED BY <1>1, <1>4, <1>6, <2>2 DEF TypeOK
<1>8. /\ ~sess'[s].open /\ sess'[s].done /\ sess'[s].to_send = sess[s].to_send
      /\ sess'[s].current_receive_file = sess[s].current_receive_file
      /\ sess'[s].received = sess[s].received /\ sess'[s].eob_received = sess[s].eob_received
      /\ sess'[s].error_received = sess[s].error_received
      /\ sess'[s].address_list = sess[s].address_list /\ sess'[s].challenge = sess[s].challenge
      /\ sess'[s].auth_type = sess[s].auth_type /\ sess'[s].ok_received = sess[s].ok_received
      /\ sess'[s].remote_password = sess[s].remote_password
  BY <1>2, <1>6 DEF Members
<1>9. Ends(s)
  BY <1>1, <1>2, <1>3, <1>5, <1>6, <1>7, <1>8
     DEF Ends, EobSent, Early, Acting, Over, Receiving, Ending
<1>10. PlaceOf(s)'
  BY <1>2, <1>4, <1>6, <1>7, <1>8 DEF PlaceOf, Closing
<1>11. /\ GreetingSent(r)' = GreetingSent(r) /\ EobSent(r)' = EobSent(r)
       /\ PasswordSent(r)' = PasswordSent(r) /\ OkSent(r)' = OkSent(r) /\ EobSent(s)'
       /\ \A a, p : Accepted(a, p)' = Accepted(a, p)
  BY <1>1, <1>6 DEF GreetingSent, EobSent, PasswordSent, OkSent, Early, Accepted
<1>12. HeardOf(s)'
  BY <1>1, <1>2, <1>6, <1>7, <1>8, <1>11 DEF HeardOf
<1>13. KnowsOf(s)'
  <2>1. GreetingSent(s) /\ pc[s] # "idle" /\ sess'[r] = sess[r]
    BY <1>1, <1>2, <1>6 DEF GreetingSent, Early
  <2> QED BY <1>1, <1>2, <1>3, <1>6, <1>8, <1>11, <2>1 DEF KnowsOf
<1>14. CountOf(s)'
  BY <1>2, <1>6 DEF CountOf
<1>15. InPlace(s, r)'
  BY <1>1, <1>2, <1>5, <1>6, <1>8 DEF Over, InPlace, HasAll, Receiving, Untouched, Mail
<1> QED BY <1>1, <1>4, <1>8, <1>9, <1>10, <1>12, <1>13, <1>14, <1>15, EndKeeps

\* What is common to the steps after the loop of Run.
LEMMA AfterRun ==
  ASSUME TypeOK, Smooth, NEW s \in Sides, pc[s] \in Closing
  PROVE  /\ EobSent(s) /\ sess[s].eob_received /\ chan[s] = <<>>
         /\ Over(s) /\ Over(Peer(s)) /\ InPlace(s, Peer(s)) /\ EobSent(Peer(s))
         /\ sess[s].address_list /\ ~sess[s].error_received
         /\ Acting(Peer(s)) => ~sess[s].open
<1>1. PICK r \in Sides : r = Peer(s) /\ r # s /\ Peer(r) = s
  BY TwoSides
<1>2. PlaceOf(s) /\ KnowsOf(s) /\ TurnOf(r)
  BY <1>1 DEF Smooth, SmoothOf
<1>3. pc[s] # "idle" /\ EobSent(s)
  BY DEF Closing, EobSent, Ending
<1>4. sess[s].eob_received /\ sess[s].address_list
  BY <1>2, <1>3 DEF KnowsOf, PlaceOf
<1>5. Over(s) /\ Over(r) /\ EobSent(r)
  BY <1>1, <1>3, <1>4, BothOver
<1>6. ~InWindow(s)
  BY DEF InWindow, WindowPcs, Closing
<1> QED BY <1>1, <1>2, <1>3, <1>4, <1>5, <1>6 DEF PlaceOf, TurnOf, Over

\* A step from one of them to the next.
LEMMA ClosingKeeps ==
  ASSUME TypeOK, Smooth, NEW s \in Sides, pc[s] \in Closing, NEW label \in Closing,
         pc' = [pc EXCEPT ![s] = label], UNCHANGED <<state, sess, chan, rst, out, contact>>,
         UNCHANGED <<posted, budget, conf>>,
         \A t \in Sides \ {s} : inb'[t] = inb[t] /\ pend'[t] = pend[t] /\ delivered'[t] = delivered[t],
         InPlace(s, Peer(s))'
  PROVE  Smooth'
<1>1. PICK r \in Sides : r = Peer(s) /\ r # s /\ Peer(r) = s
  BY TwoSides
<1>2. /\ EobSent(s) /\ sess[s].eob_received /\ Over(s) /\ Over(r)
      /\ Acting(r) => ~sess[s].open
  BY <1>1, AfterRun
<1>3. /\ PlaceOf(s) /\ KnowsOf(s) /\ HeardOf(s) /\ CountOf(s)
  BY DEF Smooth, SmoothOf
<1>4. pc'[s] = label /\ pc'[r] = pc[r]
  BY <1>1 DEF TypeOK
<1>5. Ends(s)
  BY <1>1, <1>2, <1>4 DEF Ends, TypeOK, EobSent, Acting, Over, Closing, Ending
<1>6. PlaceOf(s)'
  BY <1>1, <1>3, <1>4 DEF PlaceOf, Closing, Ending
<1>7. /\ GreetingSent(r)' = GreetingSent(r) /\ EobSent(r)' = EobSent(r)
      /\ PasswordSent(r)' = PasswordSent(r) /\ OkSent(r)' = OkSent(r)
      /\ GreetingSent(s) /\ EobSent(s)'
      /\ \A a, p : Accepted(a, p)' = Accepted(a, p)
  BY <1>4 DEF GreetingSent, EobSent, PasswordSent, OkSent, Early, Accepted, Closing, Ending
<1>8. HeardOf(s)'
  BY <1>1, <1>3, <1>4, <1>7 DEF HeardOf, Closing
<1>9. KnowsOf(s)'
  BY <1>1, <1>2, <1>3, <1>4, <1>7 DEF KnowsOf, Closing
<1>10. CountOf(s)'
  BY <1>3, <1>4 DEF CountOf, Closing
<1> QED BY <1>1, <1>2, <1>4, <1>5, <1>6, <1>8, <1>9, <1>10, EndKeeps DEF Ends

\* The file that was received waits for network1,
LEMMA RenameSmooth ==
  ASSUME TypeOK, Undisturbed, Smooth, NEW s \in Sides, rename_pending_files(s)
  PROVE  Smooth'
<1>1. PICK r \in Sides : r = Peer(s) /\ r # s /\ Peer(r) = s
  BY TwoSides
<1>2. pc[s] = "rename" /\ pc[s] \in Closing /\ InPlace(s, r)
  BY <1>1, AfterRun DEF rename_pending_files, Closing
<1>3. /\ pc' = [pc EXCEPT ![s] = "network"] /\ UNCHANGED <<state, sess, chan, rst, out, contact>>
      /\ UNCHANGED <<posted, budget, conf, delivered>>
      /\ IF sess[s].received /\ CanRename(s)
           THEN pend' = [pend EXCEPT ![s] = Renamed(s)] /\ inb' = [inb EXCEPT ![s] = <<>>]
           ELSE UNCHANGED <<pend, inb>>
  BY DEF rename_pending_files, GoTo, Quiet, Received, ghost, env
<1>4. pc'[s] = "network" /\ Mail(r)' = Mail(r)
  BY <1>3 DEF TypeOK, Mail
<1>5. InPlace(s, r)'
  <2>1. CASE sess[s].received
    <3>1. HasAll(s, r) /\ Untouched(s)
      BY <1>2, <2>1 DEF InPlace
    <3>2. CanRename(s) /\ Renamed(s) = <<Mail(r)>>
      <4>1. Append(<<>>, inb[s]) = <<inb[s]>> /\ Len(<<>>) = 0
        OBVIOUS
      <4> QED BY <3>1, <4>1 DEF CanRename, Renamed, Undisturbed, HasAll, Untouched
    <3>3. pend'[s] = <<Mail(r)>> /\ inb'[s] = <<>>
      BY <1>3, <2>1, <3>2 DEF TypeOK
    <3> QED BY <1>3, <1>4, <3>1, <3>3 DEF InPlace, Untouched
  <2>2. CASE ~sess[s].received
    <3>1. pend[s] = <<>> /\ delivered[s] = 1..posted[r] /\ inb[s] = <<>>
      BY <1>2, <2>2 DEF InPlace, HasAll
    <3> QED BY <1>3, <2>2, <3>1 DEF InPlace
  <2> QED BY <2>1, <2>2
<1>6. \A t \in Sides \ {s} : inb'[t] = inb[t] /\ pend'[t] = pend[t] /\ delivered'[t] = delivered[t]
  BY <1>3 DEF TypeOK
<1> QED BY <1>1, <1>2, <1>3, <1>5, <1>6, ClosingKeeps DEF Closing

\* What network1 takes in is all the packets of the file.
LEMMA MailPackets ==
  ASSUME NEW p \in Sides, posted[p] \in Nat
  PROVE  Packets(<<Mail(p)>>) = 1..posted[p]
<1>1. DOMAIN <<Mail(p)>> = {1} /\ <<Mail(p)>>[1] = Mail(p)
  OBVIOUS
<1>2. Packets(<<Mail(p)>>) = Range(Mail(p))
  BY <1>1 DEF Packets
<1>3. Range(Mail(p)) = 1..posted[p]
  BY DEF Mail, Range
<1> QED BY <1>2, <1>3

LEMMA TakenIn ==
  ASSUME TypeOK, NEW s \in Sides, Network1(s), InPlace(s, Peer(s)), pc[s] = "network",
         inb' = inb, posted' = posted, sess'[s].received => pc'[s] \in {"network", "contact"}
  PROVE  InPlace(s, Peer(s))'
<1>1. PICK r \in Sides : r = Peer(s)
  BY TwoSides
<1>2. delivered'[s] = delivered[s] \cup Packets(pend[s]) /\ pend'[s] = <<>>
  BY DEF Network1, TypeOK
<1>3. Packets(<<>>) = {} /\ Packets(<<Mail(r)>>) = 1..posted[r]
  BY MailPackets DEF Packets, TypeOK
<1>4. delivered'[s] = 1..posted[r] /\ inb[s] = <<>>
  BY <1>1, <1>2, <1>3 DEF InPlace
<1> QED BY <1>1, <1>2, <1>4 DEF InPlace

\* which takes it in,
LEMMA NetworkSmooth ==
  ASSUME TypeOK, Undisturbed, Smooth, NEW s \in Sides, process_network_files(s)
  PROVE  Smooth'
<1>1. PICK r \in Sides : r = Peer(s) /\ r # s /\ Peer(r) = s
  BY TwoSides
<1>2. pc[s] = "network" /\ pc[s] \in Closing /\ InPlace(s, r)
  BY <1>1, AfterRun DEF process_network_files, Closing
<1>3. /\ pc' = [pc EXCEPT ![s] = "contact"] /\ UNCHANGED <<state, sess, chan, rst, out, contact>>
      /\ UNCHANGED <<posted, budget, conf, inb>> /\ Network1(s)
  BY DEF process_network_files, GoTo, Quiet, Undisturbed, ghost, env
<1>4. InPlace(s, r)'
  <2>1. pc'[s] = "contact"
    BY <1>3 DEF TypeOK
  <2> QED BY <1>1, <1>2, <1>3, <2>1, TakenIn
<1>5. \A t \in Sides \ {s} : inb'[t] = inb[t] /\ pend'[t] = pend[t] /\ delivered'[t] = delivered[t]
  BY <1>3 DEF TypeOK, Network1
<1> QED BY <1>1, <1>2, <1>3, <1>4, <1>5, ClosingKeeps DEF Closing

\* and the contact is counted.
LEMMA ContactSmooth ==
  ASSUME TypeOK, Undisturbed, Smooth, NEW s \in Sides, UpdateContact(s)
  PROVE  Smooth'
<1>1. PICK r \in Sides : r = Peer(s) /\ r # s /\ Peer(r) = s
  BY TwoSides
<1>2. /\ pc[s] = "contact" /\ EobSent(s) /\ sess[s].eob_received /\ chan[s] = <<>> /\ InPlace(s, r)
      /\ sess[s].address_list /\ ~sess[s].error_received /\ CountOf(s) /\ PlaceOf(s)
  BY <1>1, AfterRun DEF UpdateContact, Closing, Smooth, SmoothOf
<1>3. /\ pc' = [pc EXCEPT ![s] = "idle"] /\ state' = [state EXCEPT ![s] = StartState(s)]
      /\ sess' = [sess EXCEPT ![s] = NewBinkP(FALSE)]
      /\ contact' = [contact EXCEPT ![s] = add_contact(@)]
      /\ UNCHANGED <<out, inb, pend, delivered, posted, budget, conf>>
  <2>1. conf.HasContact[s]
    BY DEF Undisturbed
  <2> QED BY <1>2, <2>1 DEF UpdateContact, Exit, disk, ghost, env
<1>4. chan' = chan /\ rst' = rst
  <2>1. /\ chan' = [chan EXCEPT ![s] = <<>>]
        /\ rst' = [rst EXCEPT ![r] = @ \/ (sess[r].open /\ chan[s] # <<>>)]
    BY <1>1 DEF UpdateContact, Exit, Close
  <2>2. (rst[r] \/ (sess[r].open /\ chan[s] # <<>>)) = rst[r]
    BY <1>2 DEF TypeOK
  <2> QED BY <1>1, <1>2, <2>1, <2>2 DEF TypeOK
<1>5. /\ pc'[s] = "idle" /\ state'[s] = StartState(s) /\ sess'[s] = NewBinkP(FALSE)
      /\ \A t \in Sides \ {s} : /\ pc'[t] = pc[t] /\ state'[t] = state[t] /\ sess'[t] = sess[t]
                                /\ contact'[t] = contact[t]
  BY <1>3 DEF TypeOK
<1>6. /\ ~NewBinkP(FALSE).open /\ ~NewBinkP(FALSE).to_send /\ ~NewBinkP(FALSE).received
      /\ ~NewBinkP(FALSE).done /\ ~NewBinkP(FALSE).error_received
      /\ ~NewBinkP(FALSE).current_receive_file.on
  BY DEF NewBinkP, NoFile
<1>7. Ends(s)
  BY <1>1, <1>2, <1>3, <1>4, <1>5, <1>6 DEF Ends, EobSent, Acting, Receiving, Ending
<1>8. PlaceOf(s)'
  <2>1. StartState(s) # "UNKNOWN" /\ IF s = "ANSWERING"
          THEN StartState(s) \notin {"CONN_INIT", "SEND_PASSWORD", "IF_SECURE", "WAIT_OK"}
          ELSE StartState(s) \notin {"WAIT_PWD", "PASSWORD_ACK"}
    BY DEF StartState, Sides
  <2> QED BY <1>2, <1>4, <1>5, <1>6, <2>1 DEF PlaceOf, Ending, Closing
<1>9. CountOf(s)'
  <2>1. budget.sessions \in Nat /\ conf.MaxSessions \in Nat
    BY ConfFields DEF TypeOK
  <2>2. contact[s] = [numcontacts |-> conf.MaxSessions - budget.sessions - 1, numfails |-> 0]
    BY <1>2 DEF CountOf
  <2>3. contact'[s] = [numcontacts |-> conf.MaxSessions - budget.sessions - 1 + 1, numfails |-> 0]
    BY <1>3, <2>2 DEF add_contact, TypeOK
  <2>4. conf.MaxSessions - budget.sessions - 1 + 1 = conf.MaxSessions - budget.sessions - 0
    BY <2>1
  <2> QED BY <1>3, <1>5, <2>3, <2>4 DEF CountOf
<1>10. InPlace(s, r)'
  BY <1>2, <1>3, <1>5, <1>6 DEF InPlace
<1> QED BY <1>1, <1>5, <1>6, <1>7, <1>8, <1>9, <1>10, EndKeeps

-----------------------------------------------------------------------------
(* The environment, and all the steps.                                     *)

\* A call finds both sides as the last session left them.
LEMMA CallSmooth ==
  ASSUME TypeOK, Undisturbed, Smooth, Call
  PROVE  Smooth'
<1>1. /\ \A s \in Sides : pc[s] = "idle"
      /\ budget' = [budget EXCEPT !["sessions"] = @ - 1] /\ budget["sessions"] > 0
      /\ pc' = [s \in Sides |-> "handler"] /\ sess' = [s \in Sides |-> NewBinkP(TRUE)]
      /\ chan' = [s \in Sides |-> <<>>] /\ rst' = [s \in Sides |-> FALSE]
      /\ UNCHANGED <<state, out, inb, pend, delivered, contact, posted, conf>>
  BY DEF Call, Spend, disk, ghost
<1>2. /\ budget'.sessions = budget.sessions - 1 /\ budget'.crashes = budget.crashes
      /\ budget'.resets = budget.resets /\ budget.sessions \in Nat /\ conf.MaxSessions \in Nat
  BY <1>1, ConfFields DEF TypeOK
<1>3. /\ NewBinkP(TRUE).open /\ ~NewBinkP(TRUE).done /\ ~NewBinkP(TRUE).error_received
      /\ NewBinkP(TRUE).auth_type = "PLAIN_TEXT" /\ NewBinkP(TRUE).remote_password = PlainText("")
      /\ ~NewBinkP(TRUE).eob_received /\ ~NewBinkP(TRUE).to_send /\ ~NewBinkP(TRUE).received
      /\ ~NewBinkP(TRUE).current_receive_file.on
  BY DEF NewBinkP, NoFile
<1>17. BudgetInv'
  BY <1>1, <1>2 DEF BudgetInv, Smooth
<1> SUFFICES ASSUME NEW s \in Sides
             PROVE  SmoothOf(s)'
  BY <1>17 DEF Smooth
<1>4. PICK r \in Sides : r = Peer(s) /\ r # s /\ Peer(r) = s
  BY TwoSides
<1>5. SmoothOf(s) /\ SmoothOf(r) /\ BudgetInv
  BY DEF Smooth
<1>6. \A t \in Sides :
        /\ pc[t] = "idle" /\ pc'[t] = "handler" /\ state'[t] = StartState(t) /\ sess'[t] = NewBinkP(TRUE)
        /\ chan'[t] = <<>> /\ ~rst'[t]
  <2>1. \A t \in Sides : state[t] = StartState(t)
    BY <1>1 DEF Smooth, SmoothOf, PlaceOf
  <2> QED BY <1>1, <2>1
<1>7. /\ StartState("ORIGINATING") = "CONN_INIT" /\ StartState("ANSWERING") = "WAIT_CONN"
      /\ s \in {"ORIGINATING", "ANSWERING"}
  BY DEF StartState, Sides
<1>8. StartState(s) \in {"CONN_INIT", "WAIT_CONN"} /\ StartState(r) \in {"CONN_INIT", "WAIT_CONN"}
  BY DEF StartState
<1>9. PlaceOf(s)'
  <2>1. s = "ANSWERING" => StartState(s) = "WAIT_CONN"
    BY DEF StartState
  <2> QED BY <1>3, <1>6, <1>8, <2>1 DEF PlaceOf, Ending, Closing
<1>10. TurnOf(s)'
  <2>1. Acting(s)' => r = "ORIGINATING"
    BY <1>4, <1>6 DEF Acting, StartState, WindowStates, Sides
  <2>2. r = "ORIGINATING" => InWindow(r)'
    BY <1>3, <1>6 DEF InWindow, StartState, WindowStates
  <2> QED BY <1>4, <1>6, <2>1, <2>2 DEF TurnOf
<1>11. ChanOf(s)'
  <2>1. chan'[s] = <<>> /\ chan'[r] = <<>>
    BY <1>4, <1>6
  <2>2. DOMAIN chan'[s] = {} /\ Len(chan'[s]) <= 1
    BY <2>1
  <2> QED BY <1>4, <2>1, <2>2 DEF ChanOf
<1>12. ~GreetingSent(s)' /\ ~GreetingSent(r)' /\ ~PasswordSent(r)' /\ ~EobSent(s)' /\ ~EobSent(r)'
       /\ (r = "ANSWERING" => ~OkSent(r)')
  BY <1>6, <1>8 DEF GreetingSent, PasswordSent, OkSent, EobSent, Early, Ending, StartState
<1>13. HeardOf(s)'
  <2>1. s = "ORIGINATING" => r = "ANSWERING"
    BY <1>4 DEF Peer
  <2> QED BY <1>4, <1>12, <2>1 DEF HeardOf
<1>14. KnowsOf(s)'
  BY <1>3, <1>4, <1>6, <1>8, <1>12 DEF KnowsOf, Closing
<1>15. MailAt(s)'
  <2>1. MailAt(s) /\ ~Transit(s)
    BY <1>5, <1>6 DEF SmoothOf, Transit, Offered, Sending, Sent, Answered
  <2>2. Mail(s)' = Mail(s) /\ Untouched(r)' = Untouched(r) /\ NoneOnLine(s)'
    BY <1>1, <1>4, <1>6, ShortOnes DEF Mail, Untouched, NoneOnLine
  <2>3. CASE Home(s)
    <3>1. Before(s)'
      BY <1>6, <1>8 DEF Before, EarlyStates, BinkState
    <3>2. Home(s)'
      BY <1>1, <1>3, <1>4, <1>6, <2>2, <2>3, <3>1 DEF Home, Receiving
    <3> QED BY <3>2 DEF MailAt
  <2>4. CASE Over(s)
    <3>1. pend[r] = <<>> /\ delivered[r] = 1..posted[s] /\ inb[r] = <<>>
      BY <1>4, <1>6, <2>4 DEF Over, InPlace
    <3>2. InPlace(r, s)'
      BY <1>1, <1>3, <1>4, <1>6, <3>1 DEF InPlace
    <3>3. Over(s)'
      BY <1>1, <1>3, <1>4, <1>6, <2>2, <2>4, <3>2 DEF Over, Receiving
    <3> QED BY <3>3 DEF MailAt
  <2> QED BY <2>1, <2>3, <2>4 DEF MailAt
<1>16. CountOf(s)'
  <2>1. conf.MaxSessions - budget.sessions - 0 = conf.MaxSessions - (budget.sessions - 1) - 1
    BY <1>2
  <2>2. contact[s] = [numcontacts |-> conf.MaxSessions - budget.sessions - 0, numfails |-> 0]
    BY <1>5, <1>6 DEF SmoothOf, CountOf
  <2> QED BY <1>1, <1>2, <1>6, <2>1, <2>2 DEF CountOf
<1> QED BY <1>9, <1>10, <1>11, <1>13, <1>14, <1>15, <1>16 DEF SmoothOf

\* network1, run by the BBS, finds the file before the session's own one does.
LEMMA TossSmooth ==
  ASSUME TypeOK, Undisturbed, Smooth, NEW s \in Sides, network1_tosses(s)
  PROVE  Smooth'
<1>1. PICK r \in Sides : r = Peer(s) /\ r # s /\ Peer(r) = s /\ \A t \in Sides : t \in {r, s}
  BY TwoSides
<1>2. /\ Network1(s) /\ pend[s] # <<>>
      /\ UNCHANGED <<pc, state, sess, chan, rst, out, inb, contact, posted, budget, conf>>
  BY DEF network1_tosses, ghost, env
<1>3. pend'[r] = pend[r] /\ delivered'[r] = delivered[r]
  BY <1>1, <1>2 DEF Network1, TypeOK
<1>4. \A t \in Sides : /\ PlaceOf(t)' = PlaceOf(t) /\ TurnOf(t)' = TurnOf(t)
                       /\ CountOf(t)' = CountOf(t) /\ BudgetInv' = BudgetInv
  BY <1>2, TwoSides DEF PlaceOf, TurnOf, CountOf, BudgetInv, Acting, InWindow
<1>5. \A t \in Sides :
        /\ GreetingSent(t)' = GreetingSent(t) /\ EobSent(t)' = EobSent(t)
        /\ PasswordSent(t)' = PasswordSent(t) /\ OkSent(t)' = OkSent(t)
        /\ \A a, p : Accepted(a, p)' = Accepted(a, p)
  BY <1>2 DEF GreetingSent, EobSent, PasswordSent, OkSent, Early, Accepted
<1>6. ASSUME NEW t \in Sides
      PROVE  (HeardOf(t) => HeardOf(t)') /\ (KnowsOf(t) => KnowsOf(t)')
  <2>1. Peer(t) \in Sides
    BY TwoSides
  <2>2. HeardOf(t) => HeardOf(t)'
    BY <1>2, <1>5, <2>1 DEF HeardOf
  <2>3. KnowsOf(t) => KnowsOf(t)'
    BY <1>2, <1>5, <2>1 DEF KnowsOf
  <2> QED BY <2>2, <2>3
<1>7. \A t \in Sides : ChanOf(t)' = ChanOf(t)
  <2>1. \A t \in Sides : \A f : FrameOK(t, f)' = FrameOK(t, f)
    BY <1>5, TwoSides DEF FrameOK
  <2> QED BY <1>2, <2>1 DEF ChanOf
<1>8. MailAt(s)' = MailAt(s)
  <2>1. Mail(s)' = Mail(s) /\ NoneOnLine(s)' = NoneOnLine(s) /\ Untouched(r)' = Untouched(r)
        /\ Before(s)' = Before(s) /\ \A n : Piece(Mail(s), n)' = Piece(Mail(s), n)
    BY <1>2, <1>3 DEF Mail, NoneOnLine, Untouched, Before, Piece
  <2>2. /\ \A n : Partial(r, s, n)' = Partial(r, s, n)
        /\ NoPart(r)' = NoPart(r) /\ HasAll(r, s)' = HasAll(r, s)
    BY <1>2, <2>1 DEF Partial, NoPart, HasAll, Receiving
  <2>3. /\ Offered(s)' = Offered(s) /\ Sending(s)' = Sending(s)
        /\ Sent(s)' = Sent(s) /\ Answered(s)' = Answered(s)
    BY <1>1, <1>2, <2>1, <2>2 DEF Offered, Sending, Sent, Answered
  <2>4. Home(s)' = Home(s) /\ Transit(s)' = Transit(s)
    BY <1>1, <1>2, <2>1, <2>3 DEF Home, Transit, Receiving
  <2>5. InPlace(r, s)' = InPlace(r, s)
    BY <1>2, <1>3, <2>1, <2>2 DEF InPlace
  <2>6. Over(s)' = Over(s)
    BY <1>1, <1>2, <2>1, <2>5 DEF Over, Receiving
  <2> QED BY <2>4, <2>6 DEF MailAt
<1>9. MailAt(r)'
  <2>1. MailAt(r) /\ ~Untouched(s)
    BY <1>2 DEF Smooth, SmoothOf, Untouched
  <2>2. Over(r) /\ InPlace(s, r)
    BY <1>1, <2>1 DEF MailAt, Home, Transit, Over
  <2>3. pc[s] = "network"
    BY <1>2, <2>1, <2>2 DEF InPlace
  <2>4. InPlace(s, r)'
    BY <1>1, <1>2, <2>2, <2>3, TakenIn
  <2>5. NoneOnLine(r)' = NoneOnLine(r)
    BY <1>2 DEF NoneOnLine
  <2>6. Over(r)'
    BY <1>1, <1>2, <2>2, <2>4, <2>5 DEF Over, Receiving
  <2> QED BY <2>6 DEF MailAt
<1> QED BY <1>1, <1>4, <1>6, <1>7, <1>8, <1>9 DEF Smooth, SmoothOf

\* Nothing else happens.
LEMMA NothingElse ==
  ASSUME TypeOK, Undisturbed, Smooth, NEW s \in Sides
  PROVE  /\ ~Reset /\ ~Crash(s) /\ ~ResetArrives(s) /\ ~network1_appends(s) /\ ~Unknown(s)
<1>1. budget["crashes"] = 0 /\ budget["resets"] = 0
  BY DEF Smooth, BudgetInv
<1>2. ~rst[s] /\ state[s] # "UNKNOWN"
  BY DEF Smooth, SmoothOf, PlaceOf
<1> QED BY <1>1, <1>2 DEF Reset, Crash, Spend, ResetArrives, network1_appends, Undisturbed, Unknown, At

LEMMA StillSmooth ==
  ASSUME Smooth, UNCHANGED vars
  PROVE  Smooth'
<1>1. UNCHANGED <<pc, state, sess, chan, rst, out, inb, pend, delivered, contact, posted, budget, conf>>
  BY DEF vars, disk, ghost, env
<1>2. \A t \in Sides :
        /\ GreetingSent(t)' = GreetingSent(t) /\ EobSent(t)' = EobSent(t)
        /\ PasswordSent(t)' = PasswordSent(t) /\ OkSent(t)' = OkSent(t)
        /\ \A a, p : Accepted(a, p)' = Accepted(a, p)
  BY <1>1 DEF GreetingSent, EobSent, PasswordSent, OkSent, Early, Accepted
<1>3. \A t \in Sides : /\ PlaceOf(t)' = PlaceOf(t) /\ TurnOf(t)' = TurnOf(t)
                       /\ CountOf(t)' = CountOf(t) /\ BudgetInv' = BudgetInv
  BY <1>1, TwoSides DEF PlaceOf, TurnOf, CountOf, BudgetInv, Acting, InWindow
<1>6. ASSUME NEW t \in Sides
      PROVE  (HeardOf(t) => HeardOf(t)') /\ (KnowsOf(t) => KnowsOf(t)')
  <2>1. Peer(t) \in Sides
    BY TwoSides
  <2>2. HeardOf(t) => HeardOf(t)'
    BY <1>1, <1>2, <2>1 DEF HeardOf
  <2>3. KnowsOf(t) => KnowsOf(t)'
    BY <1>1, <1>2, <2>1 DEF KnowsOf
  <2> QED BY <2>2, <2>3
<1>4. \A t \in Sides : ChanOf(t)' = ChanOf(t)
  <2>1. \A t \in Sides : \A f : FrameOK(t, f)' = FrameOK(t, f)
    BY <1>2, TwoSides DEF FrameOK
  <2> QED BY <1>1, <2>1 DEF ChanOf
<1>5. \A t \in Sides : MailAt(t)' = MailAt(t)
  BY <1>1 DEF MailAt, Home, Transit, Over, Offered, Sending, Sent, Answered, Partial, NoPart, HasAll,
              InPlace, Untouched, NoneOnLine, Mail, Before, Receiving, Piece
<1>7. BudgetInv'
  BY <1>1 DEF Smooth, BudgetInv
<1>8. ASSUME NEW t \in Sides PROVE SmoothOf(t)'
  BY <1>3, <1>4, <1>5, <1>6 DEF Smooth, SmoothOf
<1> QED BY <1>7, <1>8 DEF Smooth

LEMMA InitSmooth ==
  ASSUME Init
  PROVE  SmoothInv
<1> SUFFICES ASSUME Undisturbed PROVE Smooth
  BY DEF SmoothInv
<1>1. /\ conf.MaxSessions \in Nat /\ \A s \in Sides : posted[s] \in Nat
      /\ budget.sessions = conf.MaxSessions /\ budget.crashes = 0 /\ budget.resets = 0
  <2>1. conf \in Scenarios /\ TypeOK
    BY InitType DEF Init, TypeInv
  <2>2. conf.MaxSessions \in Nat
    BY <2>1, ConfFields
  <2> QED BY <2>1, <2>2 DEF Init, Undisturbed, TypeOK
<1>2. BudgetInv
  BY <1>1 DEF BudgetInv
<1>3. ASSUME NEW s \in Sides
      PROVE  SmoothOf(s)
  <2>1. PICK r \in Sides : r = Peer(s) /\ r # s /\ Peer(r) = s
    BY TwoSides
  <2>2. /\ \A t \in Sides : pc[t] = "idle"
        /\ \A t \in {r, s} : /\ state[t] = StartState(t) /\ sess[t] = NewBinkP(FALSE)
                             /\ chan[t] = <<>> /\ ~rst[t] /\ inb[t] = <<>> /\ pend[t] = <<>>
                             /\ delivered[t] = {} /\ out[t] = Mail(t)
                             /\ contact[t] = [numcontacts |-> 0, numfails |-> 0]
    BY <2>1 DEF Init, Mail
  <2>3. /\ ~NewBinkP(FALSE).open /\ ~NewBinkP(FALSE).to_send /\ ~NewBinkP(FALSE).received
        /\ ~NewBinkP(FALSE).done /\ ~NewBinkP(FALSE).error_received
        /\ ~NewBinkP(FALSE).current_receive_file.on
    BY DEF NewBinkP, NoFile
  <2>4. PlaceOf(s)
    <3>1. StartState(s) # "UNKNOWN" /\ IF s = "ANSWERING"
            THEN StartState(s) \notin {"CONN_INIT", "SEND_PASSWORD", "IF_SECURE", "WAIT_OK"}
            ELSE StartState(s) \notin {"WAIT_PWD", "PASSWORD_ACK"}
      BY DEF StartState, Sides
    <3> QED BY <2>2, <2>3, <3>1 DEF PlaceOf, Ending, Closing
  <2>5. TurnOf(s) /\ ChanOf(s) /\ HeardOf(s) /\ KnowsOf(s)
    <3>1. DOMAIN <<>> = {} /\ Len(<<>>) = 0 /\ chan[s] = <<>>
      BY <2>2
    <3>2. ChanOf(s)
      BY <3>1 DEF ChanOf
    <3> QED BY <2>2, <3>2 DEF TurnOf, Acting, HeardOf, KnowsOf
  <2>6. MailAt(s)
    <3>1. NoneOnLine(s) /\ Untouched(r)
      BY <2>1, <2>2, ShortOnes DEF NoneOnLine, Untouched
    <3> QED BY <1>1, <2>1, <2>2, <2>3, <3>1 DEF MailAt, Home, Receiving
  <2>7. CountOf(s)
    <3>1. conf.MaxSessions - conf.MaxSessions - 0 = 0
      BY <1>1
    <3> QED BY <1>1, <2>2, <3>1 DEF CountOf
  <2> QED BY <2>4, <2>5, <2>6, <2>7 DEF SmoothOf
<1> QED BY <1>2, <1>3 DEF Smooth

LEMMA NextSmooth ==
  ASSUME TypeInv, SmoothInv, [Next]_vars
  PROVE  SmoothInv'
<1>1. TypeOK /\ conf' = conf
  BY NextConf
<1> SUFFICES ASSUME Undisturbed, Smooth PROVE Smooth'
  BY <1>1 DEF SmoothInv, Undisturbed
<1>2. CASE UNCHANGED vars
  BY <1>2, StillSmooth
<1>3. CASE Environment
  BY <1>1, <1>3, CallSmooth, TossSmooth, NothingElse DEF Environment, Sides
<1>4. ASSUME NEW s \in Sides, Handler(s)
      PROVE  Smooth'
  <2>1. ~Unknown(s)
    BY <1>1, NothingElse
  <2> QED
    BY <1>1, <1>4, <2>1, WaitsSmooth, GreetingSmooth, PasswordSmooth, AckSmooth, OfferSmooth,
       NothingSmooth, StartSmooth, ChunkSmooth, AfterChunkSmooth, EobSmooth, ReturnsSmooth,
       DoneSmooth, LoopSmooth, RenameSmooth, NetworkSmooth, ContactSmooth DEF Handler
<1>5. ASSUME NEW s \in Sides, ReceiveFrame(s) \/ SocketClosed(s)
      PROVE  Smooth'
  BY <1>1, <1>5, CommandSmooth, GotSmooth, DataSmooth, ClosedSmooth DEF ReceiveFrame
<1> QED BY <1>2, <1>3, <1>4, <1>5 DEF Next, Step

\* Between two sessions all of the mail is across.
LEMMA SmoothDelivers ==
  ASSUME TypeOK, SmoothInv
  PROVE  PromptDelivers
<1> SUFFICES ASSUME Undisturbed, budget.sessions < conf.MaxSessions, \A s \in Sides : pc[s] = "idle",
                    NEW s \in Sides
             PROVE  /\ out[s] = <<>> /\ delivered[Peer(s)] = 1 .. posted[s]
                    /\ contact[s] = [numcontacts |-> conf.MaxSessions - budget.sessions, numfails |-> 0]
  BY DEF PromptDelivers
<1>1. PICK r \in Sides : r = Peer(s)
  BY TwoSides
<1>2. SmoothOf(s)
  BY DEF SmoothInv, Smooth
<1>3. Over(s)
  <2>1. budget.sessions \in Nat /\ conf.MaxSessions \in Nat
    BY ConfFields DEF TypeOK
  <2>2. ~Home(s)
    BY <2>1 DEF Home, Before
  <2>3. ~Transit(s)
    BY DEF Transit, Offered, Sending, Sent, Answered
  <2> QED BY <1>2, <2>2, <2>3 DEF SmoothOf, MailAt
<1>4. out[s] = <<>> /\ delivered[r] = 1..posted[s]
  BY <1>1, <1>3 DEF Over, InPlace
<1>5. contact[s] = [numcontacts |-> conf.MaxSessions - budget.sessions, numfails |-> 0]
  <2>1. conf.MaxSessions - budget.sessions - 0 = conf.MaxSessions - budget.sessions
    <3>1. conf.MaxSessions \in Nat /\ budget.sessions \in Nat
      BY ConfFields DEF TypeOK
    <3> QED BY <3>1
  <2>2. contact[s] = [numcontacts |-> conf.MaxSessions - budget.sessions - 0, numfails |-> 0]
    BY <1>2 DEF SmoothOf, CountOf
  <2> QED BY <2>1, <2>2
<1> QED BY <1>1, <1>4, <1>5

\* For all mail files, chunk sizes, passwords and numbers of calls: on a link
\* that is faster than the timeouts and does not break, when both sides know
\* each other, the first session moves all the mail both ways, and every
\* session counts as a contact without failure on both sides.
THEOREM SessionsDeliver == Spec => []PromptDelivers
<1>1. Init => TypeInv /\ SmoothInv
  BY InitType, InitSmooth
<1>2. (TypeInv /\ SmoothInv) /\ [Next]_vars => (TypeInv /\ SmoothInv)'
  BY NextType, NextSmooth
<1>3. TypeInv /\ SmoothInv => PromptDelivers
  BY SmoothDelivers DEF TypeInv
<1> QED BY <1>1, <1>2, <1>3, PTL DEF Spec
=============================================================================
