----------------------------- MODULE IpcProofs -----------------------------
(***************************************************************************)
(* Proofs about Ipc, for any number of clients, any letters, any size of   *)
(* the buffer and any length of what is sent: however a stream is cut up   *)
(* by the reads, the commands that run are its lines.                      *)
(*                                                                         *)
(* The argument follows one connection byte by byte.  Serves relates what  *)
(* is in the buffer and what has run to the text read so far; Take, the    *)
(* work done for one byte, extends it to the text with that byte           *)
(* (TakeServes), and the loop of Drain is that many Takes (DrainServes).   *)
(***************************************************************************)
EXTENDS Ipc, NaturalsInduction, WellFoundedInduction, SequenceTheorems, TLAPS

USE BytesAssumption, SizesAssumption

Texts == Seq(Bytes)
Lines == Seq(Letters \cup {Blank})
-----------------------------------------------------------------------------
(* Numbers                                                                 *)

LEMMA LeastOf ==
    ASSUME NEW T, T \subseteq Nat, T # {}
    PROVE  \E m \in T : \A n \in T : m <= n
<1>1. PICK m \in T : \A n \in T : ~ (<<n, m>> \in OpToRel(<, Nat))
  BY NatLessThanWellFounded, WFMin
<1>2. ASSUME NEW n \in T PROVE m <= n
  <2>1. m \in Nat /\ n \in Nat /\ ~ (n < m)
    BY <1>1 DEF OpToRel
  <2> QED
    BY <2>1
<1> QED
  BY <1>2

LEMMA GreatestOf ==
    ASSUME NEW N \in Nat, NEW T, T \subseteq 0..N, T # {}
    PROVE  \E m \in T : \A n \in T : n <= m
<1> DEFINE U == {N - n : n \in T}
<1>1. U \subseteq Nat /\ U # {}
  OBVIOUS
<1>2. PICK u \in U : \A n \in U : u <= n
  BY <1>1, LeastOf, Zenon
<1>3. PICK m \in T : u = N - m
  BY <1>2
<1>4. ASSUME NEW n \in T PROVE n <= m
  <2>1. N - n \in U /\ n \in 0..N /\ m \in 0..N
    BY <1>3
  <2>2. N - m <= N - n
    BY <1>2, <1>3, <2>1
  <2> QED
    BY <2>1, <2>2
<1> QED
  BY <1>4
-----------------------------------------------------------------------------
(* Lines of a text                                                         *)

\* What Trim leaves of a line: from its first letter to its last.
LEMMA TrimCases ==
    ASSUME NEW line \in Lines
    PROVE  LET text == {i \in DOMAIN line : line[i] # Blank} IN
           /\ text = {} => Trim(line) = <<>>
           /\ text # {} =>
                \E a, b \in text : /\ \A j \in text : a <= j /\ j <= b
                                   /\ Trim(line) = SubSeq(line, a, b)
<1> DEFINE text == {i \in DOMAIN line : line[i] # Blank}
           a == CHOOSE i \in text : \A j \in text : i <= j
           b == CHOOSE i \in text : \A j \in text : j <= i
<1>1. CASE text = {}
  BY <1>1 DEF Trim
<1>2. CASE text # {}
  <2>1. DOMAIN line = 1..Len(line) /\ Len(line) \in Nat
    BY LenProperties DEF Lines
  <2>2. text \subseteq 0..Len(line) /\ text \subseteq Nat
    BY <2>1
  <2>3. Trim(line) = SubSeq(line, a, b)
    BY <1>2, Zenon DEF Trim
  <2> HIDE DEF text
  <2>4. \E i \in text : \A j \in text : i <= j
    BY <1>2, <2>2, LeastOf
  <2>5. \E i \in text : \A j \in text : j <= i
    BY <1>2, <2>1, <2>2, GreatestOf
  <2>6. a \in text /\ b \in text /\ \A j \in text : a <= j /\ j <= b
    BY <2>4, <2>5, Zenon
  <2> QED
    BY <1>2, <2>3, <2>6, Zenon DEF text
<1> QED
  BY <1>1, <1>2

LEMMA TrimIsLine ==
    ASSUME NEW line \in Lines
    PROVE  Trim(line) \in Lines
<1> DEFINE text == {i \in DOMAIN line : line[i] # Blank}
<1>1. CASE text = {}
  BY <1>1, TrimCases, EmptySeq DEF Lines
<1>2. CASE text # {}
  <2>1. PICK a, b \in text : Trim(line) = SubSeq(line, a, b)
    BY <1>2, TrimCases, Zenon
  <2>2. DOMAIN line = 1..Len(line) /\ Len(line) \in Nat
    BY LenProperties DEF Lines
  <2>3. a \in Int /\ b \in Int /\ \A i \in a..b : line[i] \in Letters \cup {Blank}
    BY <2>2, ElementOfSeq DEF Lines
  <2> QED
    BY <2>1, <2>3, SubSeqProperties DEF Lines
<1> QED
  BY <1>1, <1>2

\* The end of a line, trimmed, is the end of the trimmed line.
LEMMA TrimOfTail ==
    ASSUME NEW line \in Lines, NEW k \in 1..Len(line) + 1,
           Trim(SubSeq(line, k, Len(line))) # <<>>
    PROVE  \E m \in DOMAIN Trim(line) :
             Trim(SubSeq(line, k, Len(line))) = SubSeq(Trim(line), m, Len(Trim(line)))
<1> DEFINE S == Letters \cup {Blank}
           L == Len(line)
           tail == SubSeq(line, k, L)
           text == {i \in DOMAIN line : line[i] # Blank}
           ends == {i \in DOMAIN tail : tail[i] # Blank}
<1>1. L \in Nat /\ DOMAIN line = 1..L /\ \A i \in 1..L : line[i] \in S
  BY LenProperties, ElementOfSeq DEF Lines
<1>0. k \in Nat /\ k <= L + 1
  BY <1>1
<1>2. /\ tail \in Lines /\ Len(tail) = L - k + 1
      /\ \A i \in 1..L - k + 1 : tail[i] = line[k + i - 1]
  <2>1. k \in Int /\ L \in Int /\ \A i \in k..L : line[i] \in S
    BY <1>1
  <2>2. /\ tail \in Seq(S) /\ Len(tail) = (IF k <= L THEN L - k + 1 ELSE 0)
        /\ \A i \in 1..L - k + 1 : tail[i] = line[k + i - 1]
    BY <2>1, SubSeqProperties
  <2> QED
    BY <1>1, <2>2 DEF Lines
<1>3. DOMAIN tail = 1..L - k + 1
  BY <1>2, LenProperties DEF Lines
<1>4. ends # {}
  BY <1>2, TrimCases
<1>5. PICK x, y \in ends : /\ \A j \in ends : x <= j /\ j <= y
                           /\ Trim(tail) = SubSeq(tail, x, y)
  BY <1>2, <1>4, TrimCases, Zenon
<1>6. x \in 1..L - k + 1 /\ y \in 1..L - k + 1 /\ x <= y
  BY <1>3, <1>5
<1>7. k + x - 1 \in text /\ k + y - 1 \in text
  BY <1>1, <1>2, <1>3, <1>6
<1>8. PICK a, b \in text : /\ \A j \in text : a <= j /\ j <= b
                           /\ Trim(line) = SubSeq(line, a, b)
  BY <1>7, TrimCases, Zenon
<1>9. a \in 1..L /\ b \in 1..L /\ a <= k + x - 1 /\ k + y - 1 <= b
  BY <1>1, <1>7, <1>8
<1>18. /\ L \in Int /\ k \in Int /\ a \in Int /\ b \in Int /\ x \in Int /\ y \in Int
       /\ 1 <= k /\ 1 <= a /\ 1 <= b /\ b <= L /\ 1 <= x /\ x <= y /\ y <= L - k + 1
       /\ a <= k + x - 1 /\ k + y - 1 <= b
  <2> HIDE DEF L, text, ends
  <2>1. a \in Int /\ b \in Int /\ 1 <= a /\ 1 <= b /\ b <= L
    BY <1>1, <1>9
  <2>2. x \in Int /\ y \in Int /\ 1 <= x /\ y <= L - k + 1
    BY <1>0, <1>1, <1>6
  <2>3. k \in Int /\ 1 <= k
    BY DEF L
  <2> QED
    BY <1>1, <1>6, <1>9, <2>1, <2>2, <2>3
<1>10. b = k + y - 1
  <2>1. b - k + 1 \in 1..L - k + 1
    <3> HIDE DEF L, text, ends
    <3> QED
      BY <1>18
  <2>2. tail[b - k + 1] = line[b]
    <3>1. tail[b - k + 1] = line[k + (b - k + 1) - 1]
      BY <1>2, <2>1
    <3>2. k + (b - k + 1) - 1 = b
      BY <1>9
    <3> QED
      BY <3>1, <3>2
  <2>3. b - k + 1 \in ends
    BY <1>3, <1>8, <2>1, <2>2
  <2>4. b - k + 1 <= y
    BY <1>5, <2>3
  <2> QED
    <3> HIDE DEF L, text, ends
    <3> QED
      BY <1>18, <2>4
<1> DEFINE m == k + x - a
           full == SubSeq(line, a, b)
           end == SubSeq(tail, x, y)
<1>11. /\ full \in Lines /\ Len(full) = b - a + 1
       /\ \A i \in 1..b - a + 1 : full[i] = line[a + i - 1]
  <2>1. a \in Int /\ b \in Int /\ \A i \in a..b : line[i] \in S
    <3> HIDE DEF S, L, text, ends, tail
    <3> QED
      BY <1>1, <1>9
  <2>2. a <= b
    <3> HIDE DEF L, text, ends
    <3> QED
      BY <1>18
  <2> QED
    BY <2>1, <2>2, SubSeqProperties DEF Lines
<1>12. /\ end \in Lines /\ Len(end) = y - x + 1
       /\ \A i \in 1..y - x + 1 : end[i] = line[k + x + i - 2]
  <2>1. x \in Int /\ y \in Int /\ \A i \in x..y : tail[i] \in S
    <3> HIDE DEF S, L, text, ends, tail
    <3>1. \A i \in 1..L - k + 1 : tail[i] \in S
      <4>1. ASSUME NEW i \in 1..L - k + 1 PROVE k + i - 1 \in 1..L
        BY <1>0, <1>1, <4>1
      <4> QED
        BY <1>1, <1>2, <4>1
    <3>2. x \in Int /\ y \in Int /\ x..y \subseteq 1..L - k + 1
      BY <1>0, <1>1, <1>6
    <3> QED
      BY <3>1, <3>2
  <2>2. /\ end \in Seq(S) /\ Len(end) = y - x + 1
        /\ \A i \in 1..y - x + 1 : end[i] = tail[x + i - 1]
    <3> HIDE DEF S, tail, ends
    <3> QED
      BY <1>6, <2>1, SubSeqProperties
  <2>3. ASSUME NEW i \in 1..y - x + 1 PROVE end[i] = line[k + x + i - 2]
    <3>1. x + i - 1 \in 1..L - k + 1 /\ k + (x + i - 1) - 1 = k + x + i - 2
      <4> HIDE DEF L
      <4> QED
        BY <1>0, <1>1, <1>6
    <3> QED
      BY <1>2, <2>2, <3>1
  <2> QED
    BY <2>2, <2>3 DEF Lines
<1>13. m \in 1..b - a + 1
  <2> HIDE DEF L, text, ends
  <2> QED
    BY <1>10, <1>18
<1>14. DOMAIN full = 1..b - a + 1
  BY <1>11, LenProperties DEF Lines
<1>15. end = SubSeq(full, m, Len(full))
  <2> DEFINE rest == SubSeq(full, m, b - a + 1)
  <2>0. m \in Nat /\ a \in Nat /\ b \in Nat /\ x \in Nat /\ y \in Nat
    <3> HIDE DEF L, text, ends, m
    <3> QED
      BY <1>13, <1>18
  <2>1. m \in Int /\ b - a + 1 \in Int /\ \A i \in m..b - a + 1 : full[i] \in S
    <3>1. full \in Seq(S) /\ DOMAIN full = 1..b - a + 1 /\ Len(full) = b - a + 1
      BY <1>11, <1>14 DEF Lines
    <3> HIDE DEF full, m, S
    <3>2. \A i \in 1..b - a + 1 : full[i] \in S
      BY <3>1, ElementOfSeq
    <3> QED
      BY <1>13, <2>0, <3>2
  <2>2. /\ rest \in Seq(S) /\ Len(rest) = b - a + 1 - m + 1
        /\ \A i \in 1..b - a + 1 - m + 1 : rest[i] = full[m + i - 1]
    <3> HIDE DEF full, m, S
    <3> QED
      BY <1>13, <2>0, <2>1, SubSeqProperties
  <2>3. b - a + 1 - m + 1 = y - x + 1
    BY <1>0, <1>10, <2>0
  <2>4. ASSUME NEW i \in 1..y - x + 1 PROVE rest[i] = end[i]
    <3>1. m + i - 1 \in 1..b - a + 1 /\ a + (m + i - 1) - 1 = k + x + i - 2
      BY <1>0, <1>6, <1>9, <1>10, <2>0
    <3>2. full[m + i - 1] = line[k + x + i - 2]
      BY <1>11, <3>1
    <3> QED
      BY <1>12, <2>2, <2>3, <3>2
  <2>5. end = rest
    <3>1. end \in Seq(S) /\ rest \in Seq(S) /\ Len(end) = Len(rest)
      BY <1>12, <2>2, <2>3 DEF Lines
    <3>2. \A i \in 1..Len(end) : end[i] = rest[i]
      BY <1>12, <2>4
    <3> HIDE DEF end, rest
    <3> QED
      BY <3>1, <3>2, SeqEqual
  <2> QED
    BY <1>11, <2>5
<1>16. m \in DOMAIN full /\ Trim(line) = full /\ Trim(tail) = end
  BY <1>5, <1>8, <1>13, <1>14
<1> HIDE DEF m, full, end, tail
<1>17. \E i \in DOMAIN Trim(line) : Trim(tail) = SubSeq(Trim(line), i, Len(Trim(line)))
  BY <1>15, <1>16
<1> QED
  BY <1>17 DEF tail

\* A line begins at one place, after the newline before it or with the text.
LEMMA BeginsSomewhere ==
    ASSUME NEW text \in Texts, NEW i \in 1..Len(text)
    PROVE  \E j \in 1..i : Begins(text, j, i)
<1> DEFINE T == {j \in 1..i : text[j - 1] = Newline \/ j = 1}
<1>1. Len(text) \in Nat /\ i \in Nat
  BY LenProperties DEF Texts
<1>2. T \subseteq 0..i /\ 1 \in T
  BY <1>1
<1>3. PICK j \in T : \A n \in T : n <= j
  <2> HIDE DEF T
  <2> QED
    BY <1>1, <1>2, GreatestOf
<1>4. ASSUME NEW k \in j..i - 1 PROVE text[k] # Newline
  <2>1. k + 1 \in 1..i /\ (k + 1) - 1 = k /\ ~ (k + 1 <= j)
    BY <1>1, <1>3
  <2> QED
    BY <1>3, <2>1
<1> QED
  BY <1>3, <1>4 DEF Begins

LEMMA LineAtIs ==
    ASSUME NEW text \in Texts, NEW i \in 1..Len(text), NEW j \in 1..i, Begins(text, j, i)
    PROVE  LineAt(text, i) = SubSeq(text, j, i - 1)
<1>1. Len(text) \in Nat /\ i \in Nat /\ j \in Nat
  BY LenProperties DEF Texts
<1>2. ASSUME NEW k \in 1..i, Begins(text, k, i) PROVE k = j
  <2>1. CASE k < j
    <3>1. j - 1 \in k..i - 1 /\ j # 1
      BY <1>1, <2>1
    <3> QED
      BY <1>2, <3>1 DEF Begins
  <2>2. CASE j < k
    <3>1. k - 1 \in j..i - 1 /\ k # 1
      BY <1>1, <2>2
    <3> QED
      BY <1>2, <3>1 DEF Begins
  <2> QED
    BY <1>1, <2>1, <2>2
<1>3. (CHOOSE k \in 1..i : Begins(text, k, i)) = j
  BY <1>2, Zenon
<1> QED
  BY <1>3 DEF LineAt

\* A line ends before a newline and holds none.
LEMMA LineAtIsLine ==
    ASSUME NEW text \in Texts, NEW i \in 1..Len(text)
    PROVE  /\ LineAt(text, i) \in Lines
           /\ \E j \in 1..i : Begins(text, j, i) /\ LineAt(text, i) = SubSeq(text, j, i - 1)
<1>1. Len(text) \in Nat /\ i \in Nat /\ \A k \in 1..Len(text) : text[k] \in Bytes
  BY LenProperties, ElementOfSeq DEF Texts
<1>2. PICK j \in 1..i : Begins(text, j, i)
  BY BeginsSomewhere
<1>3. LineAt(text, i) = SubSeq(text, j, i - 1)
  BY <1>2, LineAtIs
<1>4. ASSUME NEW k \in j..i - 1 PROVE text[k] \in Letters \cup {Blank}
  <2>1. k \in 1..Len(text) /\ text[k] # Newline
    BY <1>1, <1>2 DEF Begins
  <2> QED
    BY <1>1, <2>1 DEF Bytes
<1>5. j \in Int /\ i - 1 \in Int
  BY <1>1
<1>6. SubSeq(text, j, i - 1) \in Lines
  BY <1>4, <1>5, SubSeqProperties DEF Lines
<1> QED
  BY <1>2, <1>3, <1>6

\* A text that grows keeps its lines.
LEMMA GrownText ==
    ASSUME NEW text \in Texts, NEW byte \in Bytes
    PROVE  LET grown == Append(text, byte)
               L == Len(text)
           IN  /\ grown \in Texts /\ L \in Nat /\ Len(grown) = L + 1
               /\ \A i \in 1..L : grown[i] = text[i]
               /\ grown[L + 1] = byte
               /\ Ends(grown) = Ends(text) \cup (IF byte = Newline THEN {L + 1} ELSE {})
               /\ Ends(text) \subseteq 1..L
               /\ \A i \in Ends(text) : LineAt(grown, i) = LineAt(text, i)
               /\ Fits(grown) => Fits(text)
<1> DEFINE grown == Append(text, byte)
           L == Len(text)
<1>1. /\ grown \in Texts /\ L \in Nat /\ Len(grown) = L + 1
      /\ \A i \in 1..L : grown[i] = text[i]
      /\ grown[L + 1] = byte
      /\ DOMAIN text = 1..L /\ DOMAIN grown = 1..L + 1
  <2>1. text \in Seq(Bytes) /\ byte \in Bytes
    BY DEF Texts
  <2>2. /\ grown \in Seq(Bytes) /\ Len(grown) = L + 1
        /\ \A i \in 1..L : grown[i] = text[i]
        /\ grown[L + 1] = byte
    BY <2>1, AppendProperties
  <2> QED
    BY <2>1, <2>2, LenProperties DEF Texts
<1> HIDE DEF grown, L
<1>2. Ends(grown) = Ends(text) \cup (IF byte = Newline THEN {L + 1} ELSE {})
  BY <1>1 DEF Ends
<1>3. Ends(text) \subseteq 1..L
  BY <1>1 DEF Ends
<1>4. ASSUME NEW i \in Ends(text) PROVE LineAt(grown, i) = LineAt(text, i)
  <2>1. i \in 1..L /\ i \in 1..L + 1 /\ i \in Nat
    BY <1>1, <1>3
  <2>2. PICK j \in 1..i : Begins(text, j, i) /\ LineAt(text, i) = SubSeq(text, j, i - 1)
    BY <2>1, LineAtIsLine DEF L
  <2>3. Begins(grown, j, i)
    <3>1. j # 1 => j - 1 \in 1..L
      BY <1>1, <2>1
    <3>2. \A k \in j..i - 1 : k \in 1..L
      BY <1>1, <2>1
    <3> QED
      BY <1>1, <2>2, <3>1, <3>2 DEF Begins
  <2>4. LineAt(grown, i) = SubSeq(grown, j, i - 1)
    BY <1>1, <2>1, <2>3, LineAtIs
  <2>5. SubSeq(grown, j, i - 1) = SubSeq(text, j, i - 1)
    <3>1. \A k \in j..i - 1 : k \in 1..L
      BY <1>1, <2>1
    <3>2. j \in Int /\ i - 1 \in Int
      BY <2>1
    <3>3. \A k \in 1..(i - 1) - j + 1 : j + k - 1 \in j..i - 1
      BY <3>2
    <3> DEFINE s == SubSeq(grown, j, i - 1)
               t == SubSeq(text, j, i - 1)
    <3>4. \A k \in j..i - 1 : grown[k] \in Bytes /\ text[k] \in Bytes
      BY <1>1, <3>1, ElementOfSeq DEF Texts, L
    <3>5. /\ s \in Seq(Bytes)
          /\ Len(s) = (IF j <= i - 1 THEN i - 1 - j + 1 ELSE 0)
          /\ \A k \in 1..(i - 1) - j + 1 : s[k] = grown[j + k - 1]
      BY <3>2, <3>4, SubSeqProperties
    <3>6. /\ t \in Seq(Bytes)
          /\ Len(t) = (IF j <= i - 1 THEN i - 1 - j + 1 ELSE 0)
          /\ \A k \in 1..(i - 1) - j + 1 : t[k] = text[j + k - 1]
      BY <3>2, <3>4, SubSeqProperties
    <3>7. Len(s) = Len(t) /\ \A k \in 1..Len(s) : k \in 1..(i - 1) - j + 1
      BY <3>2, <3>5, <3>6
    <3>8. \A k \in 1..Len(s) : s[k] = t[k]
      BY <1>1, <3>1, <3>3, <3>5, <3>6, <3>7
    <3> HIDE DEF s, t
    <3>9. s = t
      BY <3>5, <3>6, <3>7, <3>8, SeqEqual
    <3> QED
      BY <3>9 DEF s, t
  <2> QED
    BY <2>2, <2>4, <2>5
<1>5. ASSUME Fits(grown) PROVE Fits(text)
  <2> SUFFICES ASSUME NEW i \in 0..L - BufSize
               PROVE  \E j \in i + 1..i + BufSize : text[j] = Newline
    BY DEF Fits, L
  <2>1. i \in 0..L + 1 - BufSize /\ \A j \in i + 1..i + BufSize : j \in 1..L
    BY <1>1
  <2>2. PICK j \in i + 1..i + BufSize : grown[j] = Newline
    BY <1>1, <1>5, <2>1 DEF Fits
  <2> QED
    BY <1>1, <2>1, <2>2
<1> QED
  BY <1>1, <1>2, <1>3, <1>4, <1>5 DEF grown, L
-----------------------------------------------------------------------------
(* The bytes of a buffer                                                   *)

\* Each command is the tail of a line of the text, as RunsTailsOfLines says.
AreTails(commands, text) ==
    \A n \in DOMAIN commands : \E i \in Ends(text) :
      LET line == Trim(LineAt(text, i)) IN
      \E k \in DOMAIN line : commands[n] = SubSeq(line, k, Len(line))

\* The buffer holds the end of the text and no newline, and what ran are tails
\* of its lines; as long as every line fits, it holds the whole unfinished line
\* and the commands are the lines.
Serves(rest, commands, text) ==
    /\ rest \in Lines /\ commands \in Seq(Lines)
    /\ Len(rest) <= Len(text)
    /\ \A i \in 1..Len(rest) : rest[i] = text[Len(text) - Len(rest) + i]
    /\ AreTails(commands, text)
    /\ Fits(text) =>
         /\ Len(rest) = Len(text) \/ text[Len(text) - Len(rest)] = Newline
         /\ AreLinesOf(commands, text)

LEMMA TailsGrow ==
    ASSUME NEW text \in Texts, NEW commands, NEW byte \in Bytes, AreTails(commands, text)
    PROVE  AreTails(commands, Append(text, byte))
<1> DEFINE grown == Append(text, byte)
<1>1. /\ Ends(text) \subseteq Ends(grown)
      /\ \A i \in Ends(text) : LineAt(grown, i) = LineAt(text, i)
  BY GrownText
<1> HIDE DEF grown
<1> SUFFICES ASSUME NEW n \in DOMAIN commands
             PROVE  \E i \in Ends(grown) :
                      \E k \in DOMAIN Trim(LineAt(grown, i)) :
                        commands[n] = SubSeq(Trim(LineAt(grown, i)), k,
                                             Len(Trim(LineAt(grown, i))))
  BY DEF AreTails, grown
<1>2. PICK i \in Ends(text) :
        \E k \in DOMAIN Trim(LineAt(text, i)) :
          commands[n] = SubSeq(Trim(LineAt(text, i)), k, Len(Trim(LineAt(text, i))))
  BY Zenon DEF AreTails
<1> QED
  BY <1>1, <1>2

\* A byte that ends no line: nothing runs.
LEMMA LetterServes ==
    ASSUME NEW text \in Texts, NEW rest, NEW commands, NEW byte \in Bytes,
           Serves(rest, commands, text), byte # Newline
    PROVE  Serves(Append(rest, byte), commands, Append(text, byte))
<1> DEFINE grown == Append(text, byte)
           longer == Append(rest, byte)
           L == Len(text)
           R == Len(rest)
           S == Letters \cup {Blank}
<1>1. /\ grown \in Texts /\ L \in Nat /\ Len(grown) = L + 1
      /\ \A i \in 1..L : grown[i] = text[i]
      /\ grown[L + 1] = byte
      /\ Ends(grown) = Ends(text)
      /\ \A i \in Ends(text) : LineAt(grown, i) = LineAt(text, i)
      /\ Fits(grown) => Fits(text)
  <2>1. Ends(grown) = Ends(text) \cup (IF byte = Newline THEN {L + 1} ELSE {})
    BY GrownText
  <2>2. Ends(grown) = Ends(text)
    BY <2>1
  <2> HIDE DEF grown, L
  <2> QED
    BY <2>2, GrownText DEF grown, L
<1>2. /\ longer \in Lines /\ R \in Nat /\ Len(longer) = R + 1
      /\ \A i \in 1..R : longer[i] = rest[i]
      /\ longer[R + 1] = byte
  <2>1. rest \in Seq(S) /\ byte \in S
    BY DEF Serves, Lines, Bytes
  <2> QED
    BY <2>1, AppendProperties, LenProperties DEF Lines
<1>3. commands \in Seq(Lines) /\ R <= L
  BY DEF Serves
<1> HIDE DEF grown, longer
<1>4. ASSUME NEW i \in 1..R + 1
      PROVE  longer[i] = grown[(L + 1) - (R + 1) + i]
  <2>1. CASE i = R + 1
    <3>1. (L + 1) - (R + 1) + i = L + 1
      BY <1>1, <1>2, <2>1
    <3> QED
      BY <1>1, <1>2, <2>1, <3>1
  <2>2. CASE i # R + 1
    <3>1. i \in 1..R /\ (L + 1) - (R + 1) + i = L - R + i /\ L - R + i \in 1..L
      BY <1>1, <1>2, <1>3, <2>2
    <3> QED
      BY <1>1, <1>2, <3>1 DEF Serves
  <2> QED
    BY <2>1, <2>2
<1>5. AreTails(commands, grown)
  BY TailsGrow DEF Serves, grown
<1>6. ASSUME Fits(grown)
      PROVE  /\ R + 1 = L + 1 \/ grown[(L + 1) - (R + 1)] = Newline
             /\ AreLinesOf(commands, grown)
  <2>1. (R = L \/ text[L - R] = Newline) /\ AreLinesOf(commands, text)
    BY <1>1, <1>6 DEF Serves
  <2>2. R # L => L - R \in 1..L /\ (L + 1) - (R + 1) = L - R
    BY <1>1, <1>2, <1>3
  <2>3. Commanded(grown) = Commanded(text)
    BY <1>1 DEF Commanded
  <2>4. \A i \in Commanded(text) : LineAt(grown, i) = LineAt(text, i)
    BY <1>1 DEF Commanded
  <2>5. AreLinesOf(commands, grown)
    BY <2>1, <2>3, <2>4 DEF AreLinesOf
  <2> QED
    BY <1>1, <1>2, <2>1, <2>2, <2>5
<1>7. R + 1 <= L + 1
  BY <1>1, <1>2, <1>3
<1> HIDE DEF L, R
<1>8. Serves(longer, commands, grown)
  BY <1>1, <1>2, <1>3, <1>4, <1>5, <1>6, <1>7 DEF Serves
<1> QED
  BY <1>8 DEF longer, grown

\* The newline that ends a line: the rest of the buffer is the tail of that line,
\* and the whole of it if every line fits.
LEMMA EndedLine ==
    ASSUME NEW text \in Texts, NEW rest, NEW commands, Serves(rest, commands, text)
    PROVE  LET grown == Append(text, Newline)
               line == LineAt(grown, Len(text) + 1)
           IN  /\ line \in Lines
               /\ \E k \in 1..Len(line) + 1 : rest = SubSeq(line, k, Len(line))
               /\ Fits(text) => line = rest
<1> DEFINE grown == Append(text, Newline)
           L == Len(text)
           R == Len(rest)
           line == LineAt(grown, L + 1)
           S == Letters \cup {Blank}
<1>0. Newline \in Bytes
  BY DEF Bytes
<1>1. /\ grown \in Texts /\ L \in Nat /\ Len(grown) = L + 1
      /\ \A i \in 1..L : grown[i] = text[i]
  BY <1>0, GrownText
<1>2. rest \in Seq(S) /\ R \in Nat /\ R <= L
  BY LenProperties DEF Serves, Lines
<1>3. \A i \in 1..R : L - R + i \in 1..L /\ rest[i] = grown[L - R + i] /\ rest[i] \in S
  <2>1. \A i \in 1..R : L - R + i \in 1..L
    BY <1>1, <1>2
  <2> QED
    BY <1>1, <1>2, <2>1, ElementOfSeq DEF Serves
<1> HIDE DEF grown
<1>4. line \in Lines
  BY <1>1, LineAtIsLine
<1>5. PICK j \in 1..L + 1 : /\ Begins(grown, j, L + 1)
                            /\ line = SubSeq(grown, j, (L + 1) - 1)
  <2>1. L + 1 \in 1..Len(grown)
    BY <1>1
  <2> QED
    BY <1>1, <2>1, LineAtIsLine, Zenon
<1>6. /\ j \in Nat /\ Len(line) = L - j + 1
      /\ \A i \in 1..L - j + 1 : line[i] = grown[j + i - 1]
  <2>1. j \in Nat /\ (L + 1) - 1 = L
    BY <1>1, <1>5
  <2>2. j \in Int /\ L \in Int /\ \A i \in j..L : grown[i] \in Bytes
    BY <1>1, <2>1, ElementOfSeq DEF Texts
  <2>3. /\ Len(SubSeq(grown, j, L)) = IF j <= L THEN L - j + 1 ELSE 0
        /\ \A i \in 1..L - j + 1 : SubSeq(grown, j, L)[i] = grown[j + i - 1]
    BY <2>2, SubSeqProperties
  <2>4. j <= L \/ L - j + 1 = 0
    BY <1>1, <1>5
  <2> QED
    BY <1>5, <2>1, <2>3, <2>4
<1>7. j <= L - R + 1
  <2>1. SUFFICES ASSUME ~ (j <= L - R + 1) PROVE FALSE
    OBVIOUS
  <2>2. j - 1 \in 1..L /\ j # 1 /\ j - 1 - (L - R) \in 1..R
    BY <1>1, <1>2, <1>5, <1>6, <2>1
  <2>3. grown[j - 1] = Newline
    BY <1>5, <2>2 DEF Begins
  <2>4. L - R + (j - 1 - (L - R)) = j - 1
    BY <1>1, <1>2, <1>6
  <2>5. grown[j - 1] \in S
    BY <1>3, <2>2, <2>4
  <2> QED
    BY <2>3, <2>5
<1> HIDE DEF line, L, R
<1>8. ASSUME NEW k \in 1..Len(line) + 1, k = L - R + 1 - j + 1
      PROVE  rest = SubSeq(line, k, Len(line))
  <2> DEFINE tail == SubSeq(line, k, Len(line))
  <2>1. k \in Int /\ Len(line) \in Int /\ Len(line) - k + 1 = R
    BY <1>1, <1>2, <1>6, <1>8
  <2>2. \A i \in k..Len(line) : line[i] \in S
    BY <1>4, <2>1, ElementOfSeq DEF Lines
  <2>3. /\ tail \in Seq(S) /\ Len(tail) = (IF k <= Len(line) THEN Len(line) - k + 1 ELSE 0)
        /\ \A i \in 1..Len(line) - k + 1 : tail[i] = line[k + i - 1]
    BY <2>1, <2>2, SubSeqProperties
  <2>4. Len(tail) = R
    BY <1>2, <2>1, <2>3
  <2>5. ASSUME NEW i \in 1..R PROVE tail[i] = rest[i]
    <3>1. tail[i] = line[k + i - 1]
      BY <2>1, <2>3
    <3>2. k + i - 1 \in 1..L - j + 1 /\ j + (k + i - 1) - 1 = L - R + i
      BY <1>1, <1>2, <1>6, <1>7, <1>8
    <3>3. line[k + i - 1] = grown[L - R + i]
      BY <1>6, <3>2
    <3> QED
      BY <1>3, <3>1, <3>3
  <2> HIDE DEF tail
  <2>6. rest = tail
    BY <1>2, <2>3, <2>4, <2>5, SeqEqual DEF R
  <2> QED
    BY <2>6 DEF tail
<1>9. \E k \in 1..Len(line) + 1 : rest = SubSeq(line, k, Len(line))
  <2>1. L - R + 1 - j + 1 \in 1..Len(line) + 1
    BY <1>1, <1>2, <1>6, <1>7
  <2> QED
    BY <1>8, <2>1
<1>10. ASSUME Fits(text) PROVE line = rest
  <2>1. R = L \/ text[L - R] = Newline
    BY <1>10 DEF Serves, L, R
  <2>2. L - R + 1 <= j
    <3>1. CASE R = L
      BY <1>2, <1>6, <1>5, <3>1
    <3>2. CASE R # L
      <4>1. L - R \in 1..L /\ grown[L - R] = Newline
        BY <1>1, <1>2, <2>1, <3>2
      <4>2. SUFFICES ASSUME ~ (L - R + 1 <= j) PROVE FALSE
        OBVIOUS
      <4>3. L - R \in j..(L + 1) - 1
        BY <1>1, <1>2, <1>6, <4>1, <4>2
      <4> QED
        BY <1>5, <4>1, <4>3 DEF Begins
    <3> QED
      BY <3>1, <3>2
  <2>3. 1 \in 1..Len(line) + 1 /\ 1 = L - R + 1 - j + 1
    BY <1>1, <1>2, <1>6, <1>7, <2>2
  <2>4. rest = SubSeq(line, 1, Len(line))
    BY <1>8, <2>3
  <2> QED
    BY <1>4, <2>4, SubSeqFull DEF Lines
<1> QED
  BY <1>4, <1>9, <1>10 DEF line, grown, L

LEMMA NewlineServes ==
    ASSUME NEW text \in Texts, NEW rest, NEW commands, Serves(rest, commands, text)
    PROVE  Serves(<<>>, Run(commands, rest), Append(text, Newline))
<1> DEFINE grown == Append(text, Newline)
           L == Len(text)
           line == LineAt(grown, L + 1)
           M == Len(commands)
           after == Run(commands, rest)
<1>0. Newline \in Bytes
  BY DEF Bytes
<1>1. /\ grown \in Texts /\ L \in Nat /\ Len(grown) = L + 1
      /\ grown[L + 1] = Newline
      /\ Ends(text) \subseteq 1..L
      /\ \A i \in Ends(text) : LineAt(grown, i) = LineAt(text, i)
      /\ Fits(grown) => Fits(text)
  BY <1>0, GrownText
<1>2. Ends(grown) = Ends(text) \cup {L + 1}
  <2>1. Ends(grown) = Ends(text) \cup (IF Newline = Newline THEN {L + 1} ELSE {})
    BY <1>0, GrownText
  <2> QED
    BY <2>1
<1>3. /\ line \in Lines
      /\ \E k \in 1..Len(line) + 1 : rest = SubSeq(line, k, Len(line))
      /\ Fits(text) => line = rest
  BY EndedLine
<1>4. commands \in Seq(Lines) /\ rest \in Lines /\ Trim(rest) \in Lines
  BY TrimIsLine DEF Serves
<1>5. M \in Nat /\ DOMAIN commands = 1..M
  BY <1>4, LenProperties
<1>6. AreTails(commands, grown)
  BY <1>0, TailsGrow DEF Serves
<1>7. Fits(grown) => line = rest /\ AreLinesOf(commands, text)
  BY <1>1, <1>3 DEF Serves
<1> HIDE DEF grown, line, L
<1>8. Commanded(grown) = Commanded(text) \cup (IF Trim(line) = <<>> THEN {} ELSE {L + 1})
  BY <1>1, <1>2 DEF Commanded, line
<1>9. Commanded(text) \subseteq 1..L
  BY <1>1 DEF Commanded
<1>10. CASE Trim(rest) = <<>>
  <2>1. after = commands
    BY <1>10 DEF Run
  <2>2. ASSUME Fits(grown) PROVE AreLinesOf(commands, grown)
    <3>1. line = rest /\ AreLinesOf(commands, text)
      BY <1>7, <2>2
    <3>2. Commanded(grown) = Commanded(text)
      BY <1>8, <1>10, <3>1
    <3>3. \A i \in Commanded(text) : LineAt(grown, i) = LineAt(text, i)
      BY <1>1 DEF Commanded
    <3> QED
      BY <3>1, <3>2, <3>3 DEF AreLinesOf
  <2> HIDE DEF after
  <2>3. Fits(grown) => (0 = L + 1 \/ grown[(L + 1) - 0] = Newline) /\ AreLinesOf(after, grown)
    <3>1. (L + 1) - 0 = L + 1
      BY <1>1
    <3> QED
      BY <1>1, <2>1, <2>2, <3>1
  <2>4. <<>> \in Lines /\ Len(<<>>) = 0
    BY EmptySeq DEF Lines
  <2>5. \A i \in 1..0 : FALSE
    OBVIOUS
  <2>6. 0 <= L + 1
    BY <1>1
  <2>7. Serves(<<>>, after, grown)
    BY <1>1, <1>4, <1>6, <2>1, <2>3, <2>4, <2>5, <2>6 DEF Serves
  <2> QED
    BY <2>7 DEF after, grown
<1>11. CASE Trim(rest) # <<>>
  <2>1. after = Append(commands, Trim(rest))
    BY <1>11 DEF Run
  <2>2. /\ after \in Seq(Lines) /\ Len(after) = M + 1
        /\ \A n \in 1..M : after[n] = commands[n]
        /\ after[M + 1] = Trim(rest)
    BY <1>4, <2>1, AppendProperties
  <2>3. DOMAIN after = 1..M + 1
    BY <2>2, LenProperties
  <2> HIDE DEF after
  <2>4. \E k \in DOMAIN Trim(line) : Trim(rest) = SubSeq(Trim(line), k, Len(Trim(line)))
    <3>1. PICK k \in 1..Len(line) + 1 : rest = SubSeq(line, k, Len(line))
      BY <1>3
    <3> QED
      BY <1>3, <1>11, <3>1, TrimOfTail
  <2>5. AreTails(after, grown)
    <3> SUFFICES ASSUME NEW n \in 1..M + 1
                 PROVE  \E i \in Ends(grown) :
                          \E k \in DOMAIN Trim(LineAt(grown, i)) :
                            after[n] = SubSeq(Trim(LineAt(grown, i)), k,
                                              Len(Trim(LineAt(grown, i))))
      BY <2>3 DEF AreTails
    <3>1. CASE n = M + 1
      BY <1>2, <2>2, <2>4, <3>1 DEF line
    <3>2. CASE n # M + 1
      <4>1. n \in DOMAIN commands /\ after[n] = commands[n]
        BY <1>5, <2>2, <3>2
      <4> QED
        BY <1>6, <4>1, Zenon DEF AreTails
    <3> QED
      BY <3>1, <3>2
  <2>6. ASSUME Fits(grown) PROVE AreLinesOf(after, grown)
    <3>1. line = rest /\ AreLinesOf(commands, text)
      BY <1>7, <2>6
    <3>2. Commanded(grown) = Commanded(text) \cup {L + 1}
      BY <1>8, <1>11, <3>1
    <3>3. PICK at \in [1..M -> Commanded(text)] :
            /\ \A n \in 1..M : commands[n] = Trim(LineAt(text, at[n]))
            /\ \A n, k \in 1..M : n < k => at[n] < at[k]
            /\ \A i \in Commanded(text) : \E n \in 1..M : at[n] = i
      BY <1>5, <3>1, Zenon DEF AreLinesOf
    <3> DEFINE next == [n \in 1..M + 1 |-> IF n = M + 1 THEN L + 1 ELSE at[n]]
    <3>4. ASSUME NEW n \in 1..M + 1, n # M + 1
          PROVE  n \in 1..M /\ next[n] = at[n] /\ at[n] \in Commanded(text)
      BY <1>5, <3>3, <3>4
    <3>5. next[M + 1] = L + 1
      BY <1>5
    <3>6. next \in [1..M + 1 -> Commanded(grown)]
      BY <3>2, <3>3, <3>4
    <3> HIDE DEF next
    <3>7. ASSUME NEW n \in 1..M + 1 PROVE after[n] = Trim(LineAt(grown, next[n]))
      <4>1. CASE n = M + 1
        BY <2>2, <3>1, <3>5, <4>1 DEF line
      <4>2. CASE n # M + 1
        <5>1. n \in 1..M /\ next[n] = at[n] /\ at[n] \in Ends(text)
          BY <3>4, <4>2 DEF Commanded
        <5> QED
          BY <1>1, <2>2, <3>3, <5>1
      <4> QED
        BY <4>1, <4>2
    <3>8. ASSUME NEW n \in 1..M + 1, NEW k \in 1..M + 1, n < k
          PROVE  next[n] < next[k]
      <4>1. n # M + 1
        BY <1>5, <3>8
      <4>2. n \in 1..M /\ next[n] = at[n] /\ at[n] \in 1..L
        BY <1>9, <3>4, <4>1
      <4>3. CASE k = M + 1
        BY <1>1, <3>5, <4>2, <4>3
      <4>4. CASE k # M + 1
        BY <3>3, <3>4, <3>8, <4>2, <4>4
      <4> QED
        BY <4>3, <4>4
    <3>9. ASSUME NEW i \in Commanded(grown) PROVE \E n \in 1..M + 1 : next[n] = i
      <4>1. CASE i = L + 1
        BY <1>5, <3>5, <4>1
      <4>2. CASE i # L + 1
        <5>1. PICK n \in 1..M : at[n] = i
          BY <3>2, <3>3, <4>2
        <5>2. n \in 1..M + 1 /\ n # M + 1
          BY <1>5
        <5> QED
          BY <3>4, <5>1, <5>2
      <4> QED
        BY <4>1, <4>2
    <3> QED
      BY <2>3, <3>6, <3>7, <3>8, <3>9 DEF AreLinesOf
  <2>7. Fits(grown) => (0 = L + 1 \/ grown[(L + 1) - 0] = Newline) /\ AreLinesOf(after, grown)
    <3>1. (L + 1) - 0 = L + 1
      BY <1>1
    <3> QED
      BY <1>1, <2>6, <3>1
  <2>8. <<>> \in Lines /\ Len(<<>>) = 0
    BY EmptySeq DEF Lines
  <2>9. 0 <= L + 1 /\ \A i \in 1..0 : FALSE
    BY <1>1
  <2>10. Serves(<<>>, after, grown)
    BY <1>1, <2>2, <2>5, <2>7, <2>8, <2>9 DEF Serves
  <2> QED
    BY <2>10 DEF after, grown
<1> QED
  BY <1>10, <1>11

\* What the loop does for one byte.
LEMMA TakeServes ==
    ASSUME NEW text \in Texts, NEW line, NEW byte \in Bytes,
           line = [rest |-> line.rest, ran |-> line.ran],
           Serves(line.rest, line.ran, text)
    PROVE  LET taken == Take(line, byte) IN
           /\ taken = [rest |-> taken.rest, ran |-> taken.ran]
           /\ Serves(taken.rest, taken.ran, Append(text, byte))
           /\ Len(taken.rest) <= Len(line.rest) + 1
<1>1. CASE byte = Newline
  <2>1. Take(line, byte) = [rest |-> <<>>, ran |-> Run(line.ran, line.rest)]
    BY <1>1 DEF Take
  <2>2. Len(<<>>) <= Len(line.rest) + 1
    BY LenProperties, EmptySeq DEF Serves, Lines
  <2> QED
    BY <1>1, <2>1, <2>2, NewlineServes
<1>2. CASE byte # Newline
  <2>1. Take(line, byte) = [rest |-> Append(line.rest, byte), ran |-> line.ran]
    BY <1>2 DEF Take
  <2>2. Len(Append(line.rest, byte)) <= Len(line.rest) + 1
    <3>1. line.rest \in Seq(Letters \cup {Blank}) /\ byte \in Letters \cup {Blank}
      BY <1>2 DEF Serves, Lines, Bytes
    <3> QED
      BY <3>1, AppendProperties, LenProperties
  <2> QED
    BY <1>2, <2>1, <2>2, LetterServes
<1> QED
  BY <1>1, <1>2

\* The loop, byte after byte.
Looped(bytes, commands, after) ==
    after = [n \in 0..Len(bytes) |->
               IF n = 0 THEN [rest |-> <<>>, ran |-> commands]
               ELSE Take(after[n - 1], bytes[n])]

LEMMA DrainDefined ==
    ASSUME NEW bytes, NEW commands, Len(bytes) \in Nat
    PROVE  \E after : /\ Looped(bytes, commands, after)
                      /\ Drain(bytes, commands) = after[Len(bytes)]
<1> DEFINE def(g, i) == IF i = 0 THEN [rest |-> <<>>, ran |-> commands]
                        ELSE Take(g[i - 1], bytes[i])
           A == CHOOSE after : after = [i \in 0..Len(bytes) |-> def(after, i)]
<1>1. Drain(bytes, commands) = A[Len(bytes)]
  BY DEF Drain
<1>2. ASSUME NEW g, NEW h, NEW i, g[i - 1] = h[i - 1]
      PROVE  def(g, i) = def(h, i)
  BY <1>2
<1> DEFINE n == Len(bytes)
           Starts(g, m) == g = [i \in 0..m |-> def(g, i)]
           Missing == {m \in 0..n : ~ \E g : Starts(g, m)}
<1> HIDE DEF def, n
<1>3. \E g : Starts(g, 0)
  <2> DEFINE start == [rest |-> <<>>, ran |-> commands]
             g == [i \in 0..0 |-> start]
  <2>1. def(g, 0) = start
    BY DEF def
  <2> HIDE DEF start
  <2>2. [i \in 0..0 |-> def(g, i)] = [i \in 0..0 |-> start]
    BY <2>1
  <2> QED
    BY <2>2
<1>4. ASSUME NEW m \in Nat, NEW g, Starts(g, m)
      PROVE  \E h : Starts(h, m + 1)
  <2> DEFINE h == [i \in 0..m + 1 |-> IF i = m + 1 THEN def(g, m + 1) ELSE g[i]]
  <2>1. ASSUME NEW i \in 0..m + 1
        PROVE  h[i] = def(h, i)
    <3>1. CASE i = 0
      <4>1. h[i] = g[i] /\ g[i] = def(g, i)
        BY <1>4, <3>1
      <4>2. def(g, i) = def(h, i)
        BY <3>1 DEF def
      <4> QED
        BY <4>1, <4>2
    <3>2. CASE i # 0
      <4>1. i - 1 \in 0..m + 1 /\ i - 1 # m + 1
        BY <3>2
      <4>2. h[i - 1] = g[i - 1]
        BY <4>1
      <4>3. def(h, i) = def(g, i)
        BY <1>2, <4>2
      <4>4. h[i] = def(g, i)
        BY <1>4
      <4> QED
        BY <4>3, <4>4
    <3> QED
      BY <3>1, <3>2
  <2>2. h = [i \in 0..m + 1 |-> h[i]]
    OBVIOUS
  <2> HIDE DEF h
  <2>3. Starts(h, m + 1)
    BY <2>1, <2>2
  <2> QED
    BY <2>3
<1>5. \E g : Starts(g, n)
  <2>0. n \in Nat
    BY DEF n
  <2>1. SUFFICES ASSUME Missing # {} PROVE FALSE
    BY <2>0
  <2>2. PICK m \in Missing : \A y \in Missing : m <= y
    <3>1. Missing \subseteq Nat
      BY <2>0
    <3> HIDE DEF Missing
    <3> QED
      BY <2>1, <3>1, LeastOf
  <2>3. m # 0
    BY <1>3, <2>2
  <2>4. m - 1 \in 0..n /\ m - 1 \notin Missing /\ m - 1 \in Nat /\ (m - 1) + 1 = m
    BY <2>0, <2>2, <2>3
  <2>5. PICK g : Starts(g, m - 1)
    BY <2>4
  <2>6. \E h : Starts(h, (m - 1) + 1)
    <3> HIDE DEF Starts
    <3> QED
      BY <1>4, <2>4, <2>5
  <2> QED
    BY <2>2, <2>4, <2>6
<1>6. Starts(A, n)
  <2>1. \E g : g = [i \in 0..n |-> def(g, i)]
    BY <1>5
  <2>2. (CHOOSE g : g = [i \in 0..n |-> def(g, i)])
          = [i \in 0..n |-> def(CHOOSE g : g = [i_1 \in 0..n |-> def(g, i_1)], i)]
    BY <2>1
  <2> QED
    BY <2>2 DEF n
<1>7. Looped(bytes, commands, A)
  BY <1>6 DEF Looped, def, n
<1> QED
  BY <1>1, <1>7

LEMMA PrefixGrows ==
    ASSUME NEW whole \in Texts, NEW k \in 0..Len(whole) - 1
    PROVE  /\ SubSeq(whole, 1, k) \in Texts
           /\ whole[k + 1] \in Bytes
           /\ SubSeq(whole, 1, k + 1) = Append(SubSeq(whole, 1, k), whole[k + 1])
<1>1. Len(whole) \in Nat /\ k \in Nat /\ k + 1 \in 1..Len(whole) /\ 1 \in 1..Len(whole)
  BY LenProperties DEF Texts
<1>2. \A i \in 1..Len(whole) : whole[i] \in Bytes
  BY ElementOfSeq DEF Texts
<1>3. SubSeq(whole, 1, k) \in Seq(Bytes)
  BY <1>1, <1>2, SubSeqProperties
<1>4. (k + 1) - 1 = k
  BY <1>1
<1>5. SubSeq(whole, 1, k + 1) = SubSeq(whole, 1, (k + 1) - 1) \o <<whole[k + 1]>>
  BY <1>1, SubSeqRecursiveSecond DEF Texts
<1>6. Append(SubSeq(whole, 1, k), whole[k + 1]) = SubSeq(whole, 1, k) \o <<whole[k + 1]>>
  BY <1>1, <1>2, <1>3, AppendIsConcat
<1> QED
  BY <1>1, <1>2, <1>3, <1>4, <1>5, <1>6 DEF Texts

\* What is left in the buffer is taken again, and adds nothing: it holds no
\* newline.  Then each new byte extends the text that is served.
LEMMA DrainServes ==
    ASSUME NEW whole \in Texts, NEW k \in Nat, NEW a \in Nat, k + a <= Len(whole),
           NEW rest, NEW commands, Serves(rest, commands, SubSeq(whole, 1, k))
    PROVE  LET drained == Drain(rest \o SubSeq(whole, k + 1, k + a), commands) IN
           /\ Serves(drained.rest, drained.ran, SubSeq(whole, 1, k + a))
           /\ Len(drained.rest) <= Len(rest) + a
<1> DEFINE new == SubSeq(whole, k + 1, k + a)
           bytes == rest \o new
           R == Len(rest)
<1>1. Len(whole) \in Nat /\ \A i \in 1..Len(whole) : whole[i] \in Bytes
  BY LenProperties, ElementOfSeq DEF Texts
<1>2. /\ new \in Seq(Bytes) /\ Len(new) = a
      /\ \A i \in 1..a : new[i] = whole[k + i] /\ k + i \in 1..Len(whole)
  <2>1. \A i \in k + 1..k + a : whole[i] \in Bytes
    BY <1>1
  <2>2. k + 1 \in Int /\ k + a \in Int /\ (k + a) - (k + 1) + 1 = a
    OBVIOUS
  <2>3. /\ new \in Seq(Bytes)
        /\ Len(new) = (IF k + 1 <= k + a THEN (k + a) - (k + 1) + 1 ELSE 0)
        /\ \A i \in 1..(k + a) - (k + 1) + 1 : new[i] = whole[(k + 1) + i - 1]
    BY <2>1, <2>2, SubSeqProperties
  <2>4. Len(new) = a
    BY <2>3
  <2>5. ASSUME NEW i \in 1..a PROVE new[i] = whole[k + i] /\ k + i \in 1..Len(whole)
    <3>1. (k + 1) + i - 1 = k + i /\ k + i \in 1..Len(whole)
      BY <1>1
    <3> QED
      BY <2>2, <2>3, <3>1
  <2> QED
    BY <2>3, <2>4, <2>5
<1>3. rest \in Lines /\ rest \in Seq(Bytes) /\ R \in Nat /\ commands \in Seq(Lines)
  <2>1. rest \in Seq(Letters \cup {Blank}) /\ commands \in Seq(Lines)
    BY DEF Serves, Lines
  <2>2. Letters \cup {Blank} \subseteq Bytes
    BY DEF Bytes
  <2> QED
    BY <2>1, <2>2, SeqMonotonic, LenProperties DEF Lines
<1> HIDE DEF new
<1>4. /\ Len(bytes) = R + a
      /\ \A i \in 1..R : bytes[i] = rest[i]
      /\ \A i \in 1..a : bytes[R + i] = whole[k + i]
  <2>1. /\ Len(bytes) = R + a
        /\ \A i \in 1..R + a : bytes[i] = IF i <= R THEN rest[i] ELSE new[i - R]
    <3>1. rest \in Seq(Bytes) /\ new \in Seq(Bytes) /\ Len(new) = a
      BY <1>2, <1>3
    <3> QED
      BY <3>1, ConcatProperties
  <2>2. \A i \in 1..R : i \in 1..R + a /\ i <= R
    BY <1>3
  <2>3. \A i \in 1..a : R + i \in 1..R + a /\ ~ (R + i <= R) /\ (R + i) - R = i
    BY <1>3
  <2> HIDE DEF bytes
  <2>4. \A i \in 1..a : bytes[R + i] = new[i]
    BY <2>1, <2>3
  <2> QED
    BY <1>2, <2>1, <2>2, <2>4
<1> HIDE DEF bytes, R
<1>5. PICK after : Looped(bytes, commands, after) /\ Drain(bytes, commands) = after[R + a]
  <2>1. Len(bytes) \in Nat /\ Len(bytes) = R + a
    BY <1>3, <1>4
  <2> QED
    BY <2>1, DrainDefined, Zenon
<1>6. /\ after[0] = [rest |-> <<>>, ran |-> commands]
      /\ \A n \in 1..R + a : after[n] = Take(after[n - 1], bytes[n])
  BY <1>3, <1>4, <1>5 DEF Looped
<1> DEFINE Again(n) == after[n] = [rest |-> SubSeq(rest, 1, n), ran |-> commands]
           Served(n) == /\ after[n] = [rest |-> after[n].rest, ran |-> after[n].ran]
                        /\ Serves(after[n].rest, after[n].ran, SubSeq(whole, 1, k + (n - R)))
                        /\ Len(after[n].rest) <= n
           Bad == {n \in 0..R + a : ~ ((n <= R => Again(n)) /\ (R <= n => Served(n)))}
<1>7. SUFFICES ASSUME Bad # {} PROVE FALSE
  <2>1. R + a \notin Bad => Served(R + a)
    <3> HIDE DEF Again, Served
    <3> QED
      BY <1>3
  <2>2. k + ((R + a) - R) = k + a
    BY <1>3
  <2> HIDE DEF Bad
  <2>3. Bad = {} => Serves(after[R + a].rest, after[R + a].ran, SubSeq(whole, 1, k + a))
                      /\ Len(after[R + a].rest) <= R + a
    BY <2>1, <2>2
  <2> QED
    BY <1>5, <2>3 DEF bytes, new, R
<1>8. PICK n \in Bad : \A j \in Bad : n <= j
  <2>1. Bad \subseteq Nat
    BY <1>3
  <2> HIDE DEF Bad
  <2> QED
    BY <1>7, <2>1, LeastOf
<1>9. n \in Nat /\ n <= R + a /\ ~ ((n <= R => Again(n)) /\ (R <= n => Served(n)))
  BY <1>3, <1>8
<1>10. n # 0 => n - 1 \in 0..R + a /\ n - 1 \in Nat /\ n \in 1..R + a
                /\ (n - 1 <= R => Again(n - 1)) /\ (R <= n - 1 => Served(n - 1))
  <2>1. n # 0 => n - 1 \in 0..R + a /\ ~ (n <= n - 1)
    BY <1>3, <1>9
  <2>2. n # 0 => n - 1 \notin Bad
    <3> HIDE DEF Bad
    <3> QED
      BY <1>8, <2>1
  <2> QED
    BY <1>9, <2>1, <2>2
<1> HIDE DEF Bad, Again, Served
<1>11. n <= R => Again(n)
  <2> SUFFICES ASSUME n <= R PROVE Again(n)
    OBVIOUS
  <2>1. CASE n = 0
    <3>1. SubSeq(rest, 1, 0) = <<>>
      BY SubSeqEmpty
    <3> QED
      BY <1>6, <2>1, <3>1 DEF Again
  <2>2. CASE n # 0
    <3>1. Again(n - 1) /\ n \in 1..R /\ n \in 1..R + a /\ 1 \in 1..R
      BY <1>3, <1>9, <1>10, <2>2
    <3>2. bytes[n] = rest[n] /\ rest[n] \in Letters \cup {Blank}
      BY <1>3, <1>4, <3>1, ElementOfSeq DEF Lines, R
    <3>3. after[n] = Take([rest |-> SubSeq(rest, 1, n - 1), ran |-> commands], rest[n])
      BY <1>6, <3>1, <3>2 DEF Again
    <3>4. after[n] = [rest |-> Append(SubSeq(rest, 1, n - 1), rest[n]), ran |-> commands]
      <4> DEFINE head == SubSeq(rest, 1, n - 1)
      <4> HIDE DEF head
      <4>1. after[n] = Take([rest |-> head, ran |-> commands], rest[n])
        BY <3>3 DEF head
      <4>2. rest[n] # Newline
        BY <3>2
      <4>3. after[n] = [rest |-> Append(head, rest[n]), ran |-> commands]
        BY <4>1, <4>2 DEF Take
      <4> QED
        BY <4>3 DEF head
    <3>5. SubSeq(rest, 1, n) = Append(SubSeq(rest, 1, n - 1), rest[n])
      <4>1. n - 1 \in 0..Len(rest) - 1 /\ (n - 1) + 1 = n
        BY <1>3, <3>1 DEF R
      <4>2. rest \in Texts
        BY <1>3 DEF Texts
      <4> QED
        BY <4>1, <4>2, PrefixGrows
    <3> QED
      BY <3>4, <3>5 DEF Again
  <2> QED
    BY <2>1, <2>2
<1>12. R <= n => Served(n)
  <2> SUFFICES ASSUME R <= n PROVE Served(n)
    OBVIOUS
  <2>1. CASE n = R
    <3>1. after[n] = [rest |-> SubSeq(rest, 1, n), ran |-> commands]
      BY <1>3, <1>11, <2>1 DEF Again
    <3>2. SubSeq(rest, 1, n) = rest
      BY <1>3, <2>1, SubSeqFull DEF R
    <3>3. k + (n - R) = k
      BY <1>3, <2>1
    <3>4. Len(rest) <= n
      BY <1>3, <2>1 DEF R
    <3> QED
      <4>1. after[n] = [rest |-> rest, ran |-> commands]
        BY <3>1, <3>2
      <4>2. after[n].rest = rest /\ after[n].ran = commands
        BY <4>1
      <4> QED
        BY <3>3, <3>4, <4>1, <4>2 DEF Served
  <2>2. CASE n # R
    <3>1. n # 0 /\ R <= n - 1 /\ n - R \in 1..a
      BY <1>3, <1>9, <2>2
    <3>2. Served(n - 1) /\ n \in 1..R + a
      BY <1>10, <3>1
    <3> DEFINE m == k + (n - 1 - R)
    <3>3. /\ m \in 0..Len(whole) - 1 /\ m + 1 = k + (n - R)
          /\ R + (n - R) = n
      BY <1>1, <1>3, <1>9, <3>1
    <3>4. bytes[n] = whole[m + 1]
      BY <1>4, <3>1, <3>3
    <3> HIDE DEF m
    <3>5. /\ SubSeq(whole, 1, m) \in Texts /\ whole[m + 1] \in Bytes
          /\ SubSeq(whole, 1, m + 1) = Append(SubSeq(whole, 1, m), whole[m + 1])
      BY <3>3, PrefixGrows
    <3>6. Serves(after[n - 1].rest, after[n - 1].ran, SubSeq(whole, 1, m))
      BY <3>2 DEF Served, m
    <3>7. after[n] = Take(after[n - 1], whole[m + 1])
      BY <1>6, <3>2, <3>4
    <3>8. /\ after[n] = [rest |-> after[n].rest, ran |-> after[n].ran]
          /\ Serves(after[n].rest, after[n].ran, SubSeq(whole, 1, m + 1))
          /\ Len(after[n].rest) <= Len(after[n - 1].rest) + 1
      <4> DEFINE text == SubSeq(whole, 1, m)
                 byte == whole[m + 1]
                 line == after[n - 1]
      <4>1. text \in Texts /\ byte \in Bytes /\ Serves(line.rest, line.ran, text)
        BY <3>5, <3>6
      <4>2. line = [rest |-> line.rest, ran |-> line.ran]
        BY <3>2 DEF Served
      <4>3. after[n] = Take(line, byte) /\ SubSeq(whole, 1, m + 1) = Append(text, byte)
        BY <3>5, <3>7
      <4> HIDE DEF text, byte, line
      <4>4. /\ Take(line, byte) = [rest |-> Take(line, byte).rest, ran |-> Take(line, byte).ran]
            /\ Serves(Take(line, byte).rest, Take(line, byte).ran, Append(text, byte))
            /\ Len(Take(line, byte).rest) <= Len(line.rest) + 1
        BY <4>1, <4>2, TakeServes
      <4> QED
        BY <4>3, <4>4 DEF line
    <3>9. Len(after[n].rest) <= n
      <4>1. Len(after[n - 1].rest) <= n - 1
        BY <3>2 DEF Served
      <4>2. Len(after[n - 1].rest) \in Nat /\ Len(after[n].rest) \in Nat
        BY <3>6, <3>8, LenProperties DEF Serves, Lines
      <4> QED
        BY <1>9, <3>8, <4>1, <4>2
    <3> QED
      BY <3>3, <3>8, <3>9 DEF Served
  <2> QED
    BY <2>1, <2>2
<1> QED
  BY <1>9, <1>11, <1>12

\* A buffer that is full holds no newline, so not every line fits it.
LEMMA SpillServes ==
    ASSUME NEW text \in Texts, NEW rest, NEW commands, Serves(rest, commands, text),
           Len(rest) <= BufSize
    PROVE  Serves(Spill(rest), commands, text) /\ Len(Spill(rest)) < BufSize
<1> DEFINE L == Len(text)
<1>1. L \in Nat /\ Len(rest) \in Nat /\ commands \in Seq(Lines) /\ Len(rest) <= L
  BY LenProperties DEF Texts, Serves, Lines
<1>2. CASE Len(rest) = BufSize
  <2>1. Spill(rest) = <<>> /\ <<>> \in Lines /\ Len(<<>>) = 0
    BY <1>2, EmptySeq DEF Spill, Lines
  <2>2. \A i \in 1..BufSize : rest[i] # Newline /\ rest[i] = text[L - BufSize + i]
    BY <1>2, ElementOfSeq DEF Serves, Lines
  <2>3. ~ Fits(text)
    <3>1. SUFFICES ASSUME Fits(text) PROVE FALSE
      OBVIOUS
    <3>2. L - BufSize \in 0..L - BufSize
      BY <1>1, <1>2
    <3>3. PICK j \in (L - BufSize) + 1..(L - BufSize) + BufSize : text[j] = Newline
      BY <3>1, <3>2 DEF Fits
    <3>4. j - (L - BufSize) \in 1..BufSize /\ L - BufSize + (j - (L - BufSize)) = j
      BY <1>1, <3>3
    <3> QED
      BY <2>2, <3>3, <3>4
  <2>4. 0 <= L /\ \A i \in 1..0 : FALSE
    BY <1>1
  <2>5. Serves(<<>>, commands, text)
    BY <1>1, <2>1, <2>3, <2>4 DEF Serves
  <2> QED
    BY <2>1, <2>5
<1>3. CASE Len(rest) # BufSize
  BY <1>1, <1>3 DEF Spill
<1> QED
  BY <1>2, <1>3

LEMMA NothingServes ==
    Serves(<<>>, <<>>, <<>>)
<1>1. <<>> \in Lines /\ <<>> \in Seq(Lines) /\ Len(<<>>) = 0 /\ DOMAIN <<>> = {}
  BY EmptySeq DEF Lines
<1>2. AreTails(<<>>, <<>>)
  BY <1>1 DEF AreTails
<1>3. AreLinesOf(<<>>, <<>>)
  <2>1. Commanded(<<>>) = {}
    BY <1>1 DEF Commanded, Ends
  <2> DEFINE at == [n \in {} |-> 0]
  <2>2. at \in [{} -> {}]
    OBVIOUS
  <2> HIDE DEF at
  <2> QED
    BY <1>1, <2>1, <2>2 DEF AreLinesOf
<1> QED
  BY <1>1, <1>2, <1>3 DEF Serves
-----------------------------------------------------------------------------
(* The connections                                                         *)

\* What holds of one connection: what was sent, how much of it is unread, what
\* is in the buffer and what ran.
Sound(text, left, rest, commands) ==
    /\ Len(text) <= MaxSent /\ left <= Len(text)
    /\ Len(rest) < BufSize
    /\ Serves(rest, commands, SubSeq(text, 1, Len(text) - left))

IInv ==
    /\ state \in [Clients -> {"none", "open", "hung up"}]
    /\ sent \in [Clients -> Texts]
    /\ unread \in [Clients -> Nat]
    /\ buf \in [Clients -> Lines]
    /\ ran \in [Clients -> Seq(Lines)]
    /\ \A c \in Clients : Sound(sent[c], unread[c], buf[c], ran[c])

LEMMA NewIsSound ==
    Sound(<<>>, 0, <<>>, <<>>) /\ <<>> \in Texts /\ <<>> \in Lines /\ <<>> \in Seq(Lines)
<1>1. <<>> \in Texts /\ <<>> \in Lines /\ <<>> \in Seq(Lines) /\ Len(<<>>) = 0
  BY EmptySeq DEF Texts, Lines
<1>2. SubSeq(<<>>, 1, Len(<<>>) - 0) = <<>>
  <2>1. SubSeq(<<>>, 1, 0) = <<>>
    BY SubSeqEmpty
  <2>2. Len(<<>>) - 0 = 0
    BY <1>1
  <2> QED
    BY <2>1, <2>2
<1>3. 0 <= MaxSent /\ 0 <= 0 /\ 0 < BufSize
  OBVIOUS
<1>4. Sound(<<>>, 0, <<>>, <<>>)
  BY <1>1, <1>2, <1>3, NothingServes DEF Sound
<1> QED
  BY <1>1, <1>4

LEMMA InitSound ==
    Init => IInv
<1> SUFFICES ASSUME Init PROVE IInv
  OBVIOUS
<1> QED
  BY NewIsSound DEF Init, IInv

LEMMA ConnectSound ==
    ASSUME IInv, NEW c \in Clients, Connect(c)
    PROVE  IInv'
BY NewIsSound DEF IInv, Connect

LEMMA HangUpSound ==
    ASSUME IInv, NEW c \in Clients, HangUp(c)
    PROVE  IInv'
BY DEF IInv, HangUp

LEMMA WriteSound ==
    ASSUME IInv, NEW c \in Clients, NEW b \in Bytes, Write(c, b)
    PROVE  IInv'
<1> DEFINE text == sent[c]
           left == unread[c]
<1>1. text \in Texts /\ left \in Nat /\ Sound(text, left, buf[c], ran[c])
  BY DEF IInv
<1>2. /\ Len(text) \in Nat /\ Append(text, b) \in Texts
      /\ Len(Append(text, b)) = Len(text) + 1
  BY <1>1, LenProperties, AppendProperties DEF Texts
<1>3. left <= Len(text) /\ Len(text) < MaxSent
  BY <1>1 DEF Sound, Write
<1>4. SubSeq(Append(text, b), 1, (Len(text) + 1) - (left + 1)) = SubSeq(text, 1, Len(text) - left)
  <2> HIDE DEF text, left
  <2>1. (Len(text) + 1) - (left + 1) = Len(text) - left
    BY <1>1, <1>2
  <2>2. CASE left = Len(text)
    BY <1>2, <2>1, <2>2, SubSeqEmpty
  <2>3. CASE left # Len(text)
    <3>1. Len(text) - left \in 1..Len(text) /\ 1 \in 1..Len(text)
      BY <1>1, <1>2, <1>3, <2>3
    <3>2. Append(text, b) = text \o <<b>> /\ <<b>> \in Seq(Bytes) /\ text \in Seq(Bytes)
      BY <1>1, AppendIsConcat DEF Texts
    <3> QED
      BY <2>1, <3>1, <3>2, SubSeqOfConcat1
  <2> QED
    BY <2>2, <2>3
<1>5. Sound(Append(text, b), left + 1, buf[c], ran[c])
  <2> DEFINE longer == Append(text, b)
  <2> HIDE DEF text, left, longer
  <2>1. Len(text) + 1 <= MaxSent /\ left + 1 <= Len(text) + 1
    BY <1>1, <1>2, <1>3
  <2>2. Len(longer) = Len(text) + 1
    BY <1>2 DEF longer
  <2>3. Len(longer) - (left + 1) = (Len(text) + 1) - (left + 1)
    BY <2>2
  <2>4. Len(buf[c]) < BufSize /\ Serves(buf[c], ran[c], SubSeq(text, 1, Len(text) - left))
    BY <1>1 DEF Sound
  <2>5. Serves(buf[c], ran[c], SubSeq(longer, 1, Len(longer) - (left + 1)))
    BY <1>4, <2>3, <2>4 DEF longer
  <2>6. Sound(longer, left + 1, buf[c], ran[c])
    BY <2>1, <2>2, <2>4, <2>5 DEF Sound
  <2> QED
    BY <2>6 DEF longer
<1>6. /\ sent' = [sent EXCEPT ![c] = Append(text, b)]
      /\ unread' = [unread EXCEPT ![c] = left + 1]
      /\ UNCHANGED <<state, buf, ran>>
  BY DEF Write
<1>7. left + 1 \in Nat
  BY <1>1
<1> HIDE DEF text, left
<1> QED
  BY <1>2, <1>5, <1>6, <1>7 DEF IInv

LEMMA EventSound ==
    ASSUME IInv, NEW c \in Clients, Event(c)
    PROVE  IInv'
<1> DEFINE text == sent[c]
           left == unread[c]
           a == Arriving(c)
           k == Len(text) - left
           drained == Drain(buf[c] \o SubSeq(text, k + 1, k + a), ran[c])
<1>1. text \in Texts /\ left \in Nat /\ Sound(text, left, buf[c], ran[c]) /\ buf[c] \in Lines
  BY DEF IInv
<1>2. /\ Len(text) \in Nat /\ Len(buf[c]) \in Nat /\ k \in Nat
      /\ Len(text) <= MaxSent /\ left <= Len(text)
  BY <1>1, LenProperties DEF Texts, Lines, Sound
<1>3. a \in Nat /\ a <= left /\ Len(buf[c]) + a <= BufSize
  BY <1>1, <1>2 DEF Arriving, Sound
<1>4. /\ buf' = [buf EXCEPT ![c] = Spill(drained.rest)]
      /\ ran' = [ran EXCEPT ![c] = drained.ran]
      /\ unread' = [unread EXCEPT ![c] = left - a]
      /\ sent' = sent
      /\ state' \in [Clients -> {"none", "open", "hung up"}]
  BY DEF Event, IInv
<1> HIDE DEF a
<1>5. k + a <= Len(text) /\ Len(text) - (left - a) = k + a /\ left - a \in Nat
  <2> HIDE DEF text, left
  <2> QED
    BY <1>1, <1>2, <1>3
<1>6. /\ Serves(drained.rest, drained.ran, SubSeq(text, 1, k + a))
      /\ Len(drained.rest) <= Len(buf[c]) + a
  <2>1. Serves(buf[c], ran[c], SubSeq(text, 1, k))
    BY <1>1 DEF Sound
  <2> HIDE DEF text, k
  <2> QED
    BY <1>1, <1>2, <1>3, <1>5, <2>1, DrainServes
<1> HIDE DEF drained, k, text, left
<1>7. SubSeq(text, 1, k + a) \in Texts
  <2>1. \A i \in 1..k + a : text[i] \in Bytes
    BY <1>1, <1>2, <1>3, <1>5, ElementOfSeq DEF Texts
  <2>2. 1 \in Int /\ k + a \in Int
    BY <1>2, <1>3
  <2> QED
    BY <2>1, <2>2, SubSeqProperties DEF Texts
<1>8. Len(drained.rest) <= BufSize
  <2>1. Len(drained.rest) \in Nat
    BY <1>6, LenProperties DEF Serves, Lines
  <2> QED
    BY <1>2, <1>3, <1>6, <2>1
<1>9. /\ Serves(Spill(drained.rest), drained.ran, SubSeq(text, 1, k + a))
      /\ Len(Spill(drained.rest)) < BufSize
  BY <1>6, <1>7, <1>8, SpillServes
<1>10. Sound(text, left - a, Spill(drained.rest), drained.ran)
  <2>1. left - a <= Len(text)
    BY <1>1, <1>2, <1>3
  <2> QED
    BY <1>2, <1>5, <1>9, <2>1 DEF Sound
<1>11. Spill(drained.rest) \in Lines /\ drained.ran \in Seq(Lines)
  BY <1>9 DEF Serves
<1> QED
  BY <1>4, <1>5, <1>10, <1>11 DEF IInv, text

LEMMA NextSound ==
    IInv /\ [Next]_vars => IInv'
<1> SUFFICES ASSUME IInv, [Next]_vars PROVE IInv'
  OBVIOUS
<1>1. ASSUME NEW c \in Clients, Connect(c) PROVE IInv'
  BY <1>1, ConnectSound
<1>2. ASSUME NEW c \in Clients, HangUp(c) PROVE IInv'
  BY <1>2, HangUpSound
<1>3. ASSUME NEW c \in Clients, Event(c) PROVE IInv'
  BY <1>3, EventSound
<1>4. ASSUME NEW c \in Clients, NEW b \in Bytes, Write(c, b) PROVE IInv'
  BY <1>4, WriteSound
<1>5. CASE UNCHANGED vars
  BY <1>5 DEF IInv, vars
<1> QED
  BY <1>1, <1>2, <1>3, <1>4, <1>5 DEF Next

\* Every state of a run is sound.
THEOREM AlwaysSound ==
    Spec => []IInv
BY InitSound, NextSound, PTL DEF Spec

LEMMA SoundIsTyped ==
    IInv => TypeOK
<1> SUFFICES ASSUME IInv, NEW c \in Clients
             PROVE  /\ sent[c] \in Seq(Bytes) /\ Len(sent[c]) <= MaxSent
                    /\ unread[c] \in 0..Len(sent[c])
                    /\ buf[c] \in Seq(Bytes) /\ Len(buf[c]) < BufSize
                    /\ ran[c] \in Seq(Seq(Letters \cup {Blank}))
  BY DEF IInv, TypeOK
<1>1. Sound(sent[c], unread[c], buf[c], ran[c]) /\ unread[c] \in Nat
  BY DEF IInv
<1>2. buf[c] \in Seq(Bytes)
  <2>1. Letters \cup {Blank} \subseteq Bytes /\ buf[c] \in Seq(Letters \cup {Blank})
    BY DEF Bytes, IInv, Lines
  <2> QED
    BY <2>1, SeqMonotonic
<1>3. sent[c] \in Seq(Bytes) /\ Len(sent[c]) \in Nat
  BY LenProperties DEF IInv, Texts
<1>4. Len(sent[c]) <= MaxSent /\ unread[c] <= Len(sent[c]) /\ Len(buf[c]) < BufSize
  BY <1>1 DEF Sound
<1>5. ran[c] \in Seq(Seq(Letters \cup {Blank}))
  BY DEF IInv, Lines
<1>6. unread[c] \in 0..Len(sent[c])
  BY <1>1, <1>3, <1>4
<1> QED
  BY <1>2, <1>3, <1>4, <1>5, <1>6

\* A buffer always has room: no read of length zero, which the handler of
\* src/ipc.c would take for the end of the connection.
THEOREM TypeCorrect ==
    Spec => []TypeOK
BY AlwaysSound, SoundIsTyped, PTL

\* However the bytes of a client are cut up, the commands that ran are the lines
\* that were read, in their order, as long as they fit the buffer.
THEOREM LinesRun ==
    Spec => []RunsWhatWasSent
<1>1. IInv => RunsWhatWasSent
  BY DEF IInv, Sound, Serves, Read, RunsWhatWasSent
<1> QED
  BY <1>1, AlwaysSound, PTL

\* Also of a line that is too long only the tail can run, and nothing that is
\* not the tail of one line.
THEOREM OnlyTailsRun ==
    Spec => []RunsTailsOfLines
<1>1. IInv => RunsTailsOfLines
  BY DEF IInv, Sound, Serves, Read, AreTails, RunsTailsOfLines
<1> QED
  BY <1>1, AlwaysSound, PTL

LEMMA AllArrives ==
    ASSUME NEW c \in Clients, unread[c] \in Nat, Len(buf[c]) \in Nat,
           unread[c] <= BufSize - Len(buf[c])
    PROVE  Arriving(c) = unread[c]
<1> DEFINE room == BufSize - Len(buf[c])
<1>1. room \in Int
  OBVIOUS
<1> HIDE DEF room
<1> QED
  BY <1>1 DEF Arriving, room

\* A client that writes and hangs up has had its lines run when the connection
\* ends, if they fit one read.
THEOREM HangUpRuns ==
    Spec => HangUpRunsTheRest
<1>0. \A n \in Nat : n - n = 0 /\ n - 0 = n
  OBVIOUS
<1> DEFINE Rest == \A c \in Clients :
                     /\ state[c] = "hung up" /\ state'[c] = "none"
                     /\ unread[c] <= BufSize - Len(buf[c])
                     /\ Fits(sent[c])
                     => AreLinesOf(ran'[c], sent[c])
<1>1. IInv /\ IInv' /\ [Next]_vars => [Rest]_vars
  <2> SUFFICES ASSUME IInv, IInv', Next, NEW c \in Clients,
                      state[c] = "hung up", state'[c] = "none",
                      unread[c] <= BufSize - Len(buf[c]), Fits(sent[c])
               PROVE  AreLinesOf(ran'[c], sent[c])
    OBVIOUS
  <2>1. PICK d \in Clients : \/ Connect(d) \/ HangUp(d) \/ Event(d)
                             \/ \E b \in Bytes : Write(d, b)
    BY DEF Next
  <2>2. Event(c)
    <3>1. CASE Connect(d)
      BY <3>1 DEF Connect, IInv
    <3>2. CASE HangUp(d)
      BY <3>2 DEF HangUp, IInv
    <3>3. CASE Event(d)
      BY <3>3 DEF Event, IInv
    <3>4. CASE \E b \in Bytes : Write(d, b)
      BY <3>4 DEF Write, IInv
    <3> QED
      BY <2>1, <3>1, <3>2, <3>3, <3>4
  <2>3. sent[c] \in Texts /\ unread[c] \in Nat /\ buf[c] \in Lines
    BY DEF IInv
  <2>4. Len(sent[c]) \in Nat /\ Len(buf[c]) \in Nat
    BY <2>3, LenProperties DEF Texts, Lines
  <2>5. Arriving(c) = unread[c]
    BY <2>3, <2>4, AllArrives
  <2>6. sent' = sent /\ unread'[c] = 0
    <3>1. sent' = sent /\ unread' = [unread EXCEPT ![c] = unread[c] - Arriving(c)]
      BY <2>2 DEF Event
    <3>2. unread'[c] = unread[c] - Arriving(c)
      BY <3>1 DEF IInv
    <3> QED
      BY <1>0, <2>3, <2>5, <3>1, <3>2, Zenon
  <2>7. Sound(sent[c], 0, buf'[c], ran'[c])
    BY <2>6 DEF IInv
  <2>8. SubSeq(sent[c], 1, Len(sent[c]) - 0) = sent[c]
    <3>1. Len(sent[c]) - 0 = Len(sent[c])
      BY <1>0, <2>4, Zenon
    <3> QED
      BY <2>3, <3>1, SubSeqFull DEF Texts
  <2> QED
    BY <2>7, <2>8 DEF Sound, Serves
<1>2. Spec => [][Next]_vars
  BY PTL DEF Spec
<1>3. Spec => [][Rest]_vars
  BY <1>1, <1>2, AlwaysSound, PTL
<1> QED
  BY <1>3 DEF HangUpRunsTheRest
=============================================================================
