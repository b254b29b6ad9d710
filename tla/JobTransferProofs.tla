------------------------- MODULE JobTransferProofs --------------------------
(***************************************************************************)
(* The walks of the source and of the destination through the blocks and   *)
(* the files of a job stay within it and go through its bytes in their     *)
(* order, for jobs of every layout, every size of a block, any number of   *)
(* threads and whatever fails.  So a request brings what it asked for,     *)
(* unless something fails, and what is written is in its place; it stays   *)
(* there when the process is killed and goes on from its snapshot, and     *)
(* when the job is reported done, its files, directories and links are     *)
(* there, whole and with their modes.                                      *)
(***************************************************************************)
EXTENDS JobTransfer, FiniteSetTheorems, SequenceTheorems, TLAPS

-----------------------------------------------------------------------------
(* The layout of the job at hand                                           *)

S == StreamOf(files)
N == Len(S)

Laid == job \in Cases /\ blocks = CutInBlocks

LEMMA Files ==
  ASSUME Laid
  PROVE  /\ file_count \in Nat \ {0} /\ DOMAIN files = 1 .. file_count
         /\ \A f \in 1 .. file_count : files[f].size \in Int
         /\ S \in Seq((1 .. file_count) \X Nat)
         /\ N \in Nat /\ DOMAIN S = 1 .. N
<1>1. /\ Len(files) \in Nat \ {0} /\ DOMAIN files = 1 .. Len(files)
      /\ \A f \in DOMAIN files : files[f].size \in Int
      /\ S \in Seq((DOMAIN files) \X Nat)
  BY LayoutAssumption DEF Laid, files, S
<1> QED
  BY <1>1 DEF file_count, N

LEMMA StreamAt ==
  ASSUME Laid, NEW p \in 1 .. N
  PROVE  LET f == S[p][1]
             o == S[p][2]
             begin == p - o
             end == begin + files[f].size
         IN /\ S[p] = <<f, o>> /\ f \in 1 .. file_count /\ o \in Nat
            /\ files[f].size \in Int
            /\ begin >= 1 /\ p < end /\ end <= N + 1
            /\ \A q \in begin .. end - 1 : S[q] = <<f, q - begin>>
            /\ end <= N =>
                 /\ S[end][1] > f /\ S[end][2] = 0
                 /\ NoneBetween(files, f, S[end][1])
            /\ end = N + 1 => NoneBetween(files, f, file_count + 1)
<1>1. S[p] \in (1 .. file_count) \X Nat
  BY Files
<1>2. /\ S[p] = <<S[p][1], S[p][2]>>
      /\ S[p][1] \in 1 .. file_count /\ S[p][2] \in Nat
      /\ files[S[p][1]].size \in Int
  BY <1>1, Files
<1>3. p \in DOMAIN S /\ N \in Nat /\ DOMAIN S = 1 .. N
  BY Files
<1>4. LET f == S[p][1]
          begin == p - S[p][2]
          end == begin + files[f].size
      IN /\ begin >= 1 /\ p < end /\ end <= Len(S) + 1
         /\ \A q \in begin .. end - 1 : S[q] = <<f, q - begin>>
         /\ IF end \in DOMAIN S
            THEN /\ S[end][1] > f /\ S[end][2] = 0
                 /\ NoneBetween(files, f, S[end][1])
            ELSE NoneBetween(files, f, Len(files) + 1)
  BY <1>3, LayoutAssumption DEF Laid, files, S
<1> QED
  BY <1>2, <1>3, <1>4, SMTT(40) DEF N, file_count

LEMMA StreamBegins ==
  ASSUME Laid, N > 0
  PROVE  /\ S[1] = <<S[1][1], 0>> /\ S[1][1] \in 1 .. file_count
         /\ NoneBetween(files, 0, S[1][1])
<1>1. S # <<>>
  BY Files DEF N
<1>2. S[1][2] = 0 /\ NoneBetween(files, 0, S[1][1])
  BY <1>1, LayoutAssumption DEF Laid, files, S
<1>3. S[1] \in (1 .. file_count) \X Nat
  BY Files
<1> QED
  BY <1>2, <1>3

LEMMA FileInStream ==
  ASSUME Laid, NEW f \in 1 .. file_count, files[f].size > 0
  PROVE  \E p \in 1 .. N : S[p] = <<f, 0>>
<1>1. \A g \in DOMAIN files :
        files[g].size > 0 => \E p \in DOMAIN S : S[p] = <<g, 0>>
  BY LayoutAssumption DEF Laid, files, S
<1> QED
  BY <1>1, Files

(* next_f is the next file that has bytes                                  *)
LEMMA CyclicIs ==
  ASSUME Laid, NEW x \in 1 .. 2 * file_count
  PROVE  /\ x <= file_count => Cyclic(x) = x
         /\ x > file_count => Cyclic(x) = x - file_count
<1>1. file_count \in Nat \ {0}
  BY Files
<1>2. ASSUME NEW n \in Nat \ {0}, NEW y \in 0 .. n - 1
      PROVE  y % n = y
  OBVIOUS
<1>3. ASSUME NEW n \in Nat \ {0}, NEW y \in n .. 2 * n - 1
      PROVE  y % n = y - n
  OBVIOUS
<1>4. CASE x <= file_count
  <2>1. (x - 1) % file_count = x - 1
    BY <1>1, <1>2, <1>4
  <2> QED
    BY <1>1, <1>4, <2>1 DEF Cyclic
<1>5. CASE x > file_count
  <2>1. (x - 1) % file_count = x - 1 - file_count
    BY <1>1, <1>3, <1>5
  <2> QED
    BY <1>1, <1>5, <2>1 DEF Cyclic
<1> QED
  BY <1>1, <1>4, <1>5

LEMMA CyclicAfter ==
  ASSUME Laid, NEW f \in 1 .. file_count, NEW k \in 1 .. file_count
  PROVE  Cyclic(f + k) = IF f + k <= file_count THEN f + k ELSE f + k - file_count
<1>1. \A x \in 1 .. 2 * file_count :
        Cyclic(x) = IF x <= file_count THEN x ELSE x - file_count
  BY CyclicIs, Files
<1>2. PICK x \in 1 .. 2 * file_count : x = f + k
  BY Files
<1>3. Cyclic(x) = IF x <= file_count THEN x ELSE x - file_count
  BY <1>1
<1>4. Cyclic(f + k) = Cyclic(x)
  BY <1>2
<1>5. file_count \in Nat
  BY Files
<1> QED
  BY <1>2, <1>3, <1>4, <1>5

LEMMA MinIs ==
  ASSUME NEW K \in SUBSET Int, NEW k \in K, \A j \in K : k <= j
  PROVE  Min(K) = k
<1>1. \A j \in K : (\A i \in K : j <= i) => j = k
  OBVIOUS
<1>2. Min(K) \in K /\ \A i \in K : Min(K) <= i
  BY Zenon DEF Min
<1> QED
  BY <1>1, <1>2

LEMMA NextIs ==
  ASSUME Laid, NEW f \in 1 .. file_count, NEW k \in 1 .. file_count,
         files[Cyclic(f + k)].size > 0,
         \A j \in 1 .. k - 1 : files[Cyclic(f + j)].size <= 0
  PROVE  next_f(f) = Cyclic(f + k)
<1> DEFINE K == {j \in 1 .. file_count : files[Cyclic(f + j)].size > 0}
<1>1. file_count \in Nat \ {0}
  BY Files
<1>2. \A j \in 1 .. file_count : files[Cyclic(f + j)].size \in Int
  <2> TAKE j \in 1 .. file_count
  <2>1. f + j \in 1 .. 2 * file_count
    BY <1>1
  <2>2. Cyclic(f + j) \in 1 .. file_count
    BY <1>1, <2>1, CyclicIs
  <2> QED
    BY <2>2, Files
<1>3. k \in K
  OBVIOUS
<1>4. \A j \in K : k <= j
  BY <1>1, <1>2
<1>5. K \subseteq Int
  BY <1>1
<1> HIDE DEF K
<1>6. Min(K) = k
  BY <1>3, <1>4, <1>5, MinIs
<1> QED
  BY <1>6 DEF next_f, K

LEMMA NextInStream ==
  ASSUME Laid, NEW p \in 1 .. N
  PROVE  LET f == S[p][1]
             end == p - S[p][2] + files[f].size
         IN /\ end <= N => next_f(f) = S[end][1] /\ S[end] = <<next_f(f), 0>>
            /\ end = N + 1 => S[1] = <<next_f(f), 0>>
            /\ next_f(f) \in 1 .. file_count /\ files[next_f(f)].size > 0
<1> DEFINE f == S[p][1]
           end == p - S[p][2] + files[f].size
<1>1. /\ f \in 1 .. file_count /\ end \in 1 .. N + 1
      /\ file_count \in Nat \ {0} /\ N \in Nat
  <2>1. /\ S[p][1] \in 1 .. file_count
        /\ p - S[p][2] + files[S[p][1]].size \in 1 .. N + 1
    BY StreamAt
  <2> QED
    BY <2>1, Files
<1>2. ASSUME end <= N
      PROVE  /\ next_f(f) = S[end][1] /\ S[end] = <<next_f(f), 0>>
             /\ next_f(f) \in 1 .. file_count /\ files[next_f(f)].size > 0
  <2> DEFINE g == S[end][1]
  <2>1. /\ g > f /\ S[end][2] = 0 /\ NoneBetween(files, f, g)
    BY <1>2, StreamAt
  <2>2. /\ S[end] = <<g, 0>> /\ g \in 1 .. file_count
        /\ files[g].size > 0
    <3>1. end \in 1 .. N
      BY <1>1, <1>2
    <3>2. /\ S[end] = <<S[end][1], S[end][2]>> /\ S[end][1] \in 1 .. file_count
          /\ files[S[end][1]].size \in Int
          /\ end < end - S[end][2] + files[S[end][1]].size
      BY <3>1, StreamAt
    <3> HIDE DEF end, f
    <3> QED
      BY <1>1, <2>1, <3>1, <3>2
  <2> HIDE DEF end, f, g
  <2>3. g - f \in 1 .. file_count /\ f + (g - f) = g
    BY <1>1, <2>1, <2>2
  <2>4. \A j \in 1 .. (g - f) : Cyclic(f + j) = f + j
    BY <1>1, <2>2, CyclicAfter
  <2>5. \A j \in 1 .. (g - f) - 1 : files[Cyclic(f + j)].size <= 0
    BY <1>1, <2>1, <2>2, <2>4 DEF NoneBetween
  <2>6. Cyclic(f + (g - f)) = g
    BY <2>3, <2>4
  <2>7. next_f(f) = g
    BY <1>1, <2>2, <2>3, <2>5, <2>6, NextIs
  <2> QED
    BY <2>2, <2>7, Zenon DEF g
<1>3. ASSUME end = N + 1
      PROVE  /\ S[1] = <<next_f(f), 0>>
             /\ next_f(f) \in 1 .. file_count /\ files[next_f(f)].size > 0
  <2> DEFINE g == S[1][1]
  <2>1. NoneBetween(files, f, file_count + 1)
    BY <1>3, StreamAt
  <2>2. N > 0
    BY <1>1
  <2>3. /\ S[1] = <<g, 0>> /\ g \in 1 .. file_count
        /\ NoneBetween(files, 0, g) /\ files[g].size > 0
    <3>1. 1 \in 1 .. N
      BY <1>1, <2>2
    <3>2. /\ S[1] = <<S[1][1], 0>> /\ S[1][1] \in 1 .. file_count
          /\ NoneBetween(files, 0, S[1][1])
      BY <2>2, StreamBegins
    <3>3. /\ files[S[1][1]].size \in Int
          /\ 1 < 1 - S[1][2] + files[S[1][1]].size
      BY <3>1, StreamAt
    <3>4. S[1][2] = 0
      BY <3>2
    <3> QED
      BY <3>2, <3>3, <3>4
  <2>4. g <= f
    <3>1. f \in 1 .. file_count /\ files[f].size \in Int /\ files[f].size > 0
      <4>1. /\ S[p][2] \in Nat /\ files[S[p][1]].size \in Int
            /\ p < p - S[p][2] + files[S[p][1]].size
        BY StreamAt
      <4> QED
        BY <1>1, <4>1
    <3> HIDE DEF f, g
    <3> QED
      BY <1>1, <2>3, <3>1 DEF NoneBetween
  <2> HIDE DEF end, f, g
  <2> DEFINE k == file_count - f + g
  <2>5. k \in 1 .. file_count /\ f + k \in 1 .. 2 * file_count /\ f + k > file_count
    BY <1>1, <2>3, <2>4
  <2>6. Cyclic(f + k) = g
    <3>1. Cyclic(f + k) = f + k - file_count
      <4> HIDE DEF k
      <4> QED
        BY <1>1, <2>5, CyclicAfter
    <3> QED
      BY <1>1, <2>3, <3>1
  <2>7. ASSUME NEW j \in 1 .. k - 1
        PROVE  files[Cyclic(f + j)].size <= 0
    <3>1. j \in 1 .. file_count
      BY <1>1, <2>5
    <3>2. CASE f + j <= file_count
      <4>1. Cyclic(f + j) = f + j
        BY <1>1, <3>1, <3>2, CyclicAfter
      <4> QED
        BY <1>1, <2>1, <3>1, <3>2, <4>1 DEF NoneBetween
    <3>3. CASE f + j > file_count
      <4>1. Cyclic(f + j) = f + j - file_count
        BY <1>1, <3>1, <3>3, CyclicAfter
      <4>2. f + j - file_count \in 1 .. g - 1
        BY <1>1, <2>3, <3>3
      <4> QED
        BY <2>3, <4>1, <4>2 DEF NoneBetween
    <3> QED
      BY <1>1, <3>2, <3>3
  <2>8. next_f(f) = g
    <3> HIDE DEF k
    <3> QED
      BY <1>1, <2>3, <2>5, <2>6, <2>7, NextIs
  <2> QED
    BY <2>3, <2>8, Zenon DEF g
<1> QED
  <2>1. end <= N \/ end = N + 1
    <3> HIDE DEF end, f
    <3> QED
      BY <1>1
  <2> QED
    BY <1>2, <1>3, <2>1, Zenon DEF end, f

(* So far on from a byte of the stream, within its file or to its end      *)
LEMMA Onward ==
  ASSUME Laid, NEW f \in 1 .. file_count, NEW o \in Nat, NEW p \in 1 .. N,
         S[p] = <<f, o>>, NEW n \in Nat, n <= files[f].size - o
  PROVE  /\ files[f].size \in Int /\ o < files[f].size /\ p + n <= N + 1
         /\ \A k \in 0 .. n - 1 : S[p + k] = <<f, o + k>>
         /\ n < files[f].size - o => S[p + n] = <<f, o + n>>
         /\ n = files[f].size - o =>
              /\ next_f(f) \in 1 .. file_count
              /\ files[next_f(f)].size > 0
              /\ p + n <= N => S[p + n] = <<next_f(f), 0>>
<1>1. S[p][1] = f /\ S[p][2] = o
  OBVIOUS
<1>2. /\ files[f].size \in Int /\ o < files[f].size /\ N \in Nat
      /\ p - o >= 1 /\ p - o + files[f].size <= N + 1
      /\ \A q \in p - o .. p - o + files[f].size - 1 : S[q] = <<f, q - (p - o)>>
  <2>1. /\ files[S[p][1]].size \in Int
        /\ p - S[p][2] >= 1 /\ p < p - S[p][2] + files[S[p][1]].size
        /\ p - S[p][2] + files[S[p][1]].size <= N + 1
        /\ \A q \in p - S[p][2] .. p - S[p][2] + files[S[p][1]].size - 1 :
             S[q] = <<S[p][1], q - (p - S[p][2])>>
    BY StreamAt
  <2>3. \A q \in p - o .. p - o + files[f].size - 1 : S[q] = <<f, q - (p - o)>>
    BY <1>1, <2>1, Zenon
  <2>4. /\ files[f].size \in Int /\ p - o >= 1 /\ p < p - o + files[f].size
        /\ p - o + files[f].size <= N + 1
    BY <1>1, <2>1, Zenon
  <2>5. N \in Nat
    BY Files
  <2>6. o < files[f].size
    BY <2>4, <2>5
  <2> QED
    BY <2>3, <2>4, <2>5, <2>6
<1>3. \A k \in 0 .. files[f].size - o - 1 : S[p + k] = <<f, o + k>>
  <2> TAKE k \in 0 .. files[f].size - o - 1
  <2>1. PICK q \in p - o .. p - o + files[f].size - 1 : q = p + k
    BY <1>2
  <2>2. S[q] = <<f, q - (p - o)>> /\ q - (p - o) = o + k
    BY <1>2, <2>1
  <2> QED
    BY <2>1, <2>2, Zenon
<1>4. /\ next_f(f) \in 1 .. file_count /\ files[next_f(f)].size > 0
      /\ p - o + files[f].size <= N =>
           S[p - o + files[f].size] = <<next_f(f), 0>>
  BY <1>1, NextInStream
<1>5. n = files[f].size - o => p + n = p - o + files[f].size
  BY <1>2
<1> QED
  BY <1>2, <1>3, <1>4, <1>5

-----------------------------------------------------------------------------
(* The blocks of the job at hand: where one begins and ends in the stream  *)

Lo(b) == BLOCK_SIZE * b
Hi(b) == Lo(b) + blocks[b].size

LEMMA Counted ==
  ASSUME NEW n \in Nat
  PROVE  /\ BLOCK_COUNT(n) \in Nat
         /\ BLOCK_SIZE * (BLOCK_COUNT(n) - 1) < n \/ n = 0
         /\ BLOCK_SIZE * BLOCK_COUNT(n) >= n
BY TransferAssumption DEF BLOCK_COUNT

LEMMA LoFacts ==
  /\ \A b \in Nat : Lo(b) \in Nat /\ Lo(b + 1) = Lo(b) + BLOCK_SIZE
  /\ \A b, c \in Nat : b <= c => Lo(b) <= Lo(c) /\ Lo(c) - Lo(b) = BLOCK_SIZE * (c - b)
BY TransferAssumption DEF Lo

LEMMA MinOf ==
  ASSUME NEW a \in Int, NEW b \in Int
  PROVE  Min({a, b}) = IF a <= b THEN a ELSE b
BY DEF Min

LEMMA PartOf ==
  ASSUME NEW T, NEW s \in Seq(T), NEW m \in Nat, NEW n \in Nat,
         m <= n, n <= Len(s)
  PROVE  /\ SubSeq(s, m + 1, n) \in Seq(T)
         /\ Len(SubSeq(s, m + 1, n)) = n - m
         /\ \A k \in 1 .. n - m : SubSeq(s, m + 1, n)[k] = s[m + k]
<1>1. Len(s) \in Nat /\ n - m \in Nat
  OBVIOUS
<1>2. /\ SubSeq(s, m + 1, n) \in Seq(T)
      /\ Len(SubSeq(s, m + 1, n)) = IF m + 1 <= n THEN n - (m + 1) + 1 ELSE 0
      /\ \A k \in 1 .. n - (m + 1) + 1 : SubSeq(s, m + 1, n)[k] = s[(m + 1) + k - 1]
  BY <1>1, SubSeqProperties
<1> QED
  BY <1>1, <1>2

LEMMA Cut ==
  ASSUME Laid
  PROVE  /\ Blocks = 0 .. block_count - 1 /\ block_count \in Nat
         /\ \A b \in Blocks :
              /\ blocks[b].size \in 1 .. BLOCK_SIZE
              /\ Lo(b) \in Nat /\ Hi(b) \in 1 .. N
              /\ b + 1 \in Blocks => Hi(b) = Lo(b + 1)
              /\ b + 1 \notin Blocks => Hi(b) = N
              /\ blocks[b].bytes = SubSeq(S, Lo(b) + 1, Hi(b))
              /\ S[Lo(b) + 1] = <<blocks[b].start_f, blocks[b].start_off>>
<1> DEFINE n == BLOCK_COUNT(N)
           hi(b) == Min({BLOCK_SIZE * (b + 1), N})
           cut(b) == SubSeq(S, BLOCK_SIZE * b + 1, hi(b))
<1>1. /\ n \in Nat /\ N \in Nat
      /\ BLOCK_SIZE * (n - 1) < N \/ N = 0
      /\ BLOCK_SIZE * n >= N
  BY Counted, Files
<1>2. blocks = [b \in 0 .. n - 1 |->
                 [start_f |-> cut(b)[1][1], start_off |-> cut(b)[1][2],
                  size |-> Len(cut(b)), bytes |-> cut(b)]]
  BY DEF Laid, CutInBlocks, S, N
<1>3. Blocks = 0 .. n - 1
  BY <1>2 DEF Blocks
<1>4. block_count = n
  <2> HIDE DEF n
  <2>1. Cardinality(0 .. n - 1) = IF 0 > n - 1 THEN 0 ELSE (n - 1) - 0 + 1
    <3>1. n - 1 \in Int /\ 0 \in Int
      BY <1>1
    <3> QED
      BY <3>1, FS_Interval, Zenon
  <2> QED
    BY <1>1, <1>3, <2>1 DEF block_count
<1>5. ASSUME NEW b \in Blocks
      PROVE  /\ blocks[b].size \in 1 .. BLOCK_SIZE
             /\ Lo(b) \in Nat /\ Hi(b) \in 1 .. N
             /\ b + 1 \in Blocks => Hi(b) = Lo(b + 1)
             /\ b + 1 \notin Blocks => Hi(b) = N
             /\ blocks[b].bytes = SubSeq(S, Lo(b) + 1, Hi(b))
             /\ S[Lo(b) + 1] = <<blocks[b].start_f, blocks[b].start_off>>
  <2>1. /\ b \in Nat /\ b <= n - 1 /\ Lo(b) \in Nat /\ Lo(b + 1) = Lo(b) + BLOCK_SIZE
        /\ Lo(b) < N
    <3>1. b \in Nat /\ b <= n - 1 /\ n - 1 \in Nat
      BY <1>1, <1>3
    <3>2. Lo(b) \in Nat /\ Lo(b) <= Lo(n - 1) /\ Lo(n - 1) \in Nat
      BY <3>1, LoFacts
    <3>3. Lo(n - 1) < N
      <4>1. CASE N = 0
        BY <1>1, <3>1, <4>1, TransferAssumption DEF BLOCK_COUNT
      <4> QED
        BY <1>1, <4>1 DEF Lo
    <3> QED
      BY <1>1, <3>1, <3>2, <3>3, LoFacts
  <2>2. hi(b) = IF Lo(b) + BLOCK_SIZE <= N THEN Lo(b) + BLOCK_SIZE ELSE N
    BY <1>1, <2>1, MinOf, TransferAssumption DEF Lo
  <2>3. hi(b) \in 1 .. N /\ hi(b) > Lo(b) /\ hi(b) <= Lo(b) + BLOCK_SIZE
    BY <1>1, <2>1, <2>2, TransferAssumption
  <2>4. /\ blocks[b].start_f = cut(b)[1][1]
        /\ blocks[b].start_off = cut(b)[1][2]
        /\ blocks[b].size = Len(cut(b)) /\ blocks[b].bytes = cut(b)
    BY <1>2, <1>3
  <2>5. cut(b) = SubSeq(S, Lo(b) + 1, hi(b))
    BY DEF Lo
  <2> HIDE DEF n, hi, cut
  <2>6. Len(cut(b)) = hi(b) - Lo(b) /\ cut(b)[1] = S[Lo(b) + 1]
    <3>1. Lo(b) + 1 \in 1 .. N + 1 /\ hi(b) \in Lo(b) .. N
      BY <1>1, <2>1, <2>3
    <3>2. S \in Seq((1 .. file_count) \X Nat)
      BY Files
    <3>3. Lo(b) \in Nat /\ hi(b) \in Nat /\ Lo(b) <= hi(b) /\ hi(b) <= Len(S)
      BY <1>1, <2>1, <2>3 DEF N
    <3>4. /\ Len(SubSeq(S, Lo(b) + 1, hi(b))) = hi(b) - Lo(b)
          /\ \A k \in 1 .. hi(b) - Lo(b) :
               SubSeq(S, Lo(b) + 1, hi(b))[k] = S[Lo(b) + k]
      BY <3>2, <3>3, PartOf, ZenonT(40)
    <3>5. 1 \in 1 .. hi(b) - Lo(b)
      BY <2>1, <2>3
    <3> QED
      BY <2>5, <3>4, <3>5
  <2>7. Hi(b) = hi(b)
    BY <2>1, <2>3, <2>4, <2>6 DEF Hi
  <2>8. Lo(b) + 1 \in 1 .. N
    BY <1>1, <2>1
  <2>9. S[Lo(b) + 1] = <<S[Lo(b) + 1][1], S[Lo(b) + 1][2]>>
    BY <2>8, StreamAt
  <2>10. b + 1 \in Blocks => Lo(b) + BLOCK_SIZE < N
    <3> SUFFICES ASSUME b + 1 \in Blocks PROVE Lo(b) + BLOCK_SIZE < N
      OBVIOUS
    <3>1. b + 1 <= n - 1 /\ n - 1 \in Nat /\ b + 1 \in Nat
      BY <1>1, <1>3, <2>1
    <3>2. Lo(b + 1) <= Lo(n - 1) /\ Lo(n - 1) \in Nat
      BY <3>1, LoFacts
    <3>3. Lo(n - 1) < N
      BY <1>1, <3>1, <3>2, <2>1 DEF Lo
    <3> QED
      BY <1>1, <2>1, <3>2, <3>3, TransferAssumption
  <2>11. b + 1 \notin Blocks => Lo(b) + BLOCK_SIZE >= N
    <3> SUFFICES ASSUME b + 1 \notin Blocks PROVE Lo(b) + BLOCK_SIZE >= N
      OBVIOUS
    <3>1. b + 1 = n
      BY <1>1, <1>3, <2>1
    <3> QED
      BY <1>1, <2>1, <3>1 DEF Lo
  <2>12. blocks[b].size \in 1 .. BLOCK_SIZE
    BY <2>1, <2>3, <2>4, <2>6, TransferAssumption
  <2>13. b + 1 \in Blocks => Hi(b) = Lo(b + 1)
    BY <1>1, <2>1, <2>2, <2>7, <2>10, TransferAssumption
  <2>14. b + 1 \notin Blocks => Hi(b) = N
    BY <1>1, <2>1, <2>2, <2>7, <2>11, TransferAssumption
  <2>15. blocks[b].bytes = SubSeq(S, Lo(b) + 1, Hi(b))
    BY <2>4, <2>5, <2>7
  <2>16. S[Lo(b) + 1] = <<blocks[b].start_f, blocks[b].start_off>>
    BY <2>4, <2>6, <2>9
  <2> QED
    BY <2>1, <2>3, <2>7, <2>12, <2>13, <2>14, <2>15, <2>16, Zenon
<1> QED
  BY <1>1, <1>3, <1>4, <1>5

-----------------------------------------------------------------------------
(* The invariant of the walks                                              *)

Word == Seq(Nat \cup {"new"})

Walks == {"open", "send", "sent"}

ThreadRec ==
  [pc : Walks \cup {"idle", "arrived", "write"}, start : Nat, num : Nat, b : Nat,
   f : Nat, off : Nat, block_left : Nat, total : Nat, cnt : Nat, retry : Nat,
   wire : Seq(Word)]

(* How much of the stream is before the byte that a request is at, and     *)
(* before its end                                                          *)
Before(r) == Hi(r.b) - r.block_left
EndOf(r) == Hi(r.start + r.num - 1)

InRequest(r) == r.b \in r.start .. r.start + r.num - 1

Walking(r) ==
  /\ InRequest(r) /\ r.block_left \in 1 .. blocks[r.b].size
  /\ S[Before(r) + 1] = <<r.f, r.off>>
  /\ r.total = EndOf(r) - Before(r)

(* The block being written has passed digest_ok.                           *)
Writing(r) ==
  /\ InRequest(r) /\ r.cnt + r.total = blocks[r.b].size
  /\ Len(r.wire) = Total(r.start, r.num) /\ Buffer(r, r.b) = digest[r.b]
  /\ r.off < files[r.f].size

(* Without a write that was cut short the next byte of the block goes      *)
(* where it belongs.                                                       *)
InPlace(r) ==
  r.pc = "write" /\ r.total > 0 => S[Lo(r.b) + r.cnt + 1] = <<r.f, r.off>>

(* Without a fault what has come is the part of the stream that the walk   *)
(* has been through.                                                       *)
Reached(r) ==
  CASE r.pc = "open" -> Before(r)
    [] r.pc = "send" -> Before(r) + r.cnt
    [] r.pc = "sent" -> Before(r) + Count(r)
    [] OTHER -> EndOf(r)

Whole(r) ==
  /\ r.pc \in Walks => r.retry = 0
  /\ r.pc \in Walks \cup {"arrived"} =>
       r.wire = SubSeq(S, Lo(r.start) + 1, Reached(r))

ThreadOK(r) ==
  /\ r \in ThreadRec
  /\ r.f \in 1 .. file_count /\ r.b \in Blocks \cup {0}
  /\ r.pc # "idle" =>
       r.start \in Blocks /\ r.num >= 1 /\ r.start + r.num <= block_count
  /\ r.pc \in Walks => Walking(r)
  /\ r.pc = "send" => r.cnt <= Count(r)
  /\ r.pc = "write" => Writing(r)

(* The source reads from a file of the job or from none.                   *)
Hashing ==
  /\ sd = [pc |-> sd.pc, b |-> sd.b, f |-> sd.f, fd |-> sd.fd, off |-> sd.off,
           val |-> sd.val, left |-> sd.left]
  /\ sd.pc \in {"read", "ready", "stuck"}
  /\ sd.b \in Nat /\ sd.left \in Nat /\ sd.off \in Nat
  /\ sd.fd = NoFd \/ sd.fd \in 1 .. file_count
  /\ remote \in [1 .. file_count -> Seq(Word)]
  /\ digest = [b \in Blocks |-> digest[b]]

(* A fetch begins when the source has hashed its blocks.                   *)
Process ==
  /\ dl = [pc |-> dl.pc, i |-> dl.i, names |-> dl.names, snap |-> dl.snap,
           cont |-> dl.cont, got |-> dl.got]
  /\ dl.pc \in {"path", "mk", "fetch", "mode", "done", "failed"}
  /\ dl.i \in 1 .. file_count + 1
  /\ dl.got \subseteq Blocks
  /\ \A q \in DOMAIN snaps : snaps[q] \subseteq Blocks
  /\ dl.pc # "path" => sd.pc = "ready"

Fetchers ==
  /\ th = [t \in Threads |-> th[t]]
  /\ \A t \in Threads : ThreadOK(th[t])
  /\ \A t \in Threads : th[t].pc # "idle" => dl.pc = "fetch"

Placing == ~short => \A t \in Threads : InPlace(th[t])

Undisturbed ==
  faults = 0 =>
    /\ \A f \in 1 .. file_count : remote[f] = Source(f)
    /\ \A t \in Threads : Whole(th[t])

Counters == faults \in 0 .. MaxFaults /\ crashes \in 0 .. MaxCrashes

Flags == dl.cont \in BOOLEAN /\ short \in BOOLEAN /\ altered \in BOOLEAN

IInv ==
  /\ Laid /\ Hashing /\ Process /\ Fetchers /\ Placing /\ Undisturbed
  /\ Counters /\ Flags

-----------------------------------------------------------------------------
(* A request and its record                                                *)

(* What is known of a thread depends on the job and its hashes alone.      *)
LEMMA KeptThread ==
  ASSUME NEW t, NEW r, th'[t] = r, UNCHANGED <<job, blocks, digest>>
  PROVE  /\ ThreadOK(th[t])' = ThreadOK(r)
         /\ InPlace(th[t])' = InPlace(r)
         /\ Whole(th[t])' = Whole(r)
<1>1. ThreadOK(th[t])' = ThreadOK(r)
  BY DEF ThreadOK, Walking, Writing, Before, EndOf, Hi, S, InRequest, Blocks,
         block_count, file_count, files, Total, Buffer, Count, file_left
<1>2. InPlace(th[t])' = InPlace(r)
  BY DEF InPlace, S, files
<1>3. Whole(th[t])' = Whole(r)
  BY DEF Whole, Reached, Before, EndOf, Hi, S, Count, file_left, files
<1> QED
  BY <1>1, <1>2, <1>3

LEMMA TotalIs ==
  ASSUME Laid, NEW start \in Blocks, NEW num \in Nat, num >= 1,
         start + num <= block_count
  PROVE  /\ start + num - 1 \in Blocks
         /\ Total(start, num) = Hi(start + num - 1) - Lo(start)
         /\ Total(start, num) \in Nat
<1>1. /\ block_count \in Nat /\ start \in Nat /\ Blocks = 0 .. block_count - 1
  BY Cut
<1>2. PICK last \in Blocks : last = start + num - 1
  BY <1>1
<1>3. last \in Nat /\ start <= last /\ last + 1 = start + num
  BY <1>1, <1>2
<1>4. Lo(last) - Lo(start) = BLOCK_SIZE * (num - 1)
  <2>1. Lo(last) - Lo(start) = BLOCK_SIZE * (last - start)
    BY <1>1, <1>3, LoFacts
  <2>2. last - start = num - 1
    BY <1>1, <1>3
  <2> QED
    BY <2>1, <2>2
<1>5. /\ Lo(last) \in Nat /\ Lo(start) \in Nat /\ Lo(last) >= Lo(start)
      /\ Lo(last + 1) = Lo(last) + BLOCK_SIZE
      /\ blocks[last].size \in 1 .. BLOCK_SIZE
      /\ Hi(last) = Lo(last) + blocks[last].size
      /\ last + 1 \in Blocks => Hi(last) = Lo(last + 1)
  BY <1>1, <1>3, LoFacts, Cut DEF Hi
<1>6. Total(start, num) = Hi(last) - Lo(start)
  <2>1. CASE start + num >= block_count
    <3>1. block_count - 1 = last
      BY <1>1, <1>2, <1>3, <2>1
    <3>2. Total(start, num) = BLOCK_SIZE * (num - 1) + blocks[last].size
      BY <2>1, <3>1 DEF Total
    <3> QED
      BY <1>4, <1>5, <3>2, TransferAssumption
  <2>2. CASE ~(start + num >= block_count)
    <3>1. last + 1 \in Blocks
      BY <1>1, <1>3, <2>2
    <3>2. Total(start, num) = BLOCK_SIZE * (num - 1) + BLOCK_SIZE
      BY <2>2 DEF Total
    <3> QED
      BY <1>4, <1>5, <3>1, <3>2, TransferAssumption
  <2> QED
    BY <2>1, <2>2
<1>7. Total(start, num) \in Nat
  BY <1>5, <1>6, TransferAssumption
<1> QED
  BY <1>2, <1>6, <1>7

LEMMA IdleOK == ASSUME Laid PROVE ThreadOK(Idle) /\ InPlace(Idle)
<1>1. Idle \in ThreadRec
  <2>1. <<>> \in Seq(Word)
    OBVIOUS
  <2> QED
    BY <2>1 DEF Idle, ThreadRec
<1> QED
  BY <1>1, Files DEF Idle, ThreadOK, InPlace, Walks

(* Where a walk is: in its block and in its file                           *)
LEMMA WalkAt ==
  ASSUME Laid, NEW r, ThreadOK(r), r.pc \in Walks
  PROVE  /\ r.b \in Blocks /\ Hi(r.b) \in 1 .. N
         /\ Before(r) \in Nat /\ Before(r) + 1 \in 1 .. N
         /\ r.off < files[r.f].size
         /\ Count(r) \in 1 .. r.block_left /\ Count(r) <= file_left(r)
         /\ Count(r) = r.block_left \/ Count(r) = file_left(r)
         /\ file_left(r) \in Nat /\ r.block_left \in Nat
<1>1. /\ Walking(r) /\ r \in ThreadRec /\ r.f \in 1 .. file_count
      /\ r.start \in Blocks /\ r.num >= 1 /\ r.start + r.num <= block_count
  BY DEF ThreadOK, Walks
<1>2. /\ r.num \in Nat /\ r.off \in Nat /\ r.start \in Nat
      /\ r.block_left \in 1 .. blocks[r.b].size
      /\ r.b \in r.start .. r.start + r.num - 1
      /\ S[Before(r) + 1] = <<r.f, r.off>>
  BY <1>1 DEF Walking, InRequest, ThreadRec
<1>3. r.b \in Blocks
  BY <1>1, <1>2, Cut, SMTT(40)
<1>4. /\ Lo(r.b) \in Nat /\ Hi(r.b) \in 1 .. N /\ blocks[r.b].size \in 1 .. BLOCK_SIZE
      /\ Hi(r.b) = Lo(r.b) + blocks[r.b].size /\ N \in Nat
  BY <1>3, Cut, Files DEF Hi
<1>5. Before(r) \in Nat /\ Before(r) + 1 \in 1 .. N
  BY <1>2, <1>4, TransferAssumption DEF Before
<1>6. files[r.f].size \in Int /\ r.off < files[r.f].size
  <2>1. PICK p \in 1 .. N : p = Before(r) + 1
    BY <1>5
  <2>2. files[r.f].size \in Int
    BY <1>1, Files
  <2>3. S[p] = <<r.f, r.off>>
    BY <1>2, <2>1
  <2>4. S[p][1] = r.f /\ S[p][2] = r.off
    BY <2>3
  <2>5. p < p - S[p][2] + files[S[p][1]].size
    BY StreamAt
  <2> QED
    BY <1>2, <2>2, <2>4, <2>5
<1>7. file_left(r) \in Nat \ {0}
  BY <1>2, <1>6 DEF file_left
<1>8. r.block_left \in Nat \ {0}
  BY <1>2, <1>4, TransferAssumption
<1>9. Count(r) = IF r.block_left <= file_left(r) THEN r.block_left ELSE file_left(r)
  BY <1>7, <1>8, MinOf DEF Count
<1> QED
  BY <1>3, <1>4, <1>5, <1>6, <1>7, <1>8, <1>9

(* A new request begins at the first byte of its first block.              *)
Asked1(start, num) ==
  [Idle EXCEPT !.pc = "open", !.start = start, !.num = num,
     !.b = start, !.f = blocks[start].start_f, !.off = blocks[start].start_off,
     !.block_left = blocks[start].size, !.total = Total(start, num)]

LEMMA RequestOK ==
  ASSUME Laid, NEW start \in Blocks, NEW num \in Nat, num >= 1,
         start + num <= block_count
  PROVE  ThreadOK(Asked1(start, num)) /\ InPlace(Asked1(start, num))
<1> DEFINE r == Asked1(start, num)
<1>1. /\ r.pc = "open" /\ r.start = start /\ r.num = num /\ r.b = start
      /\ r.f = blocks[start].start_f /\ r.off = blocks[start].start_off
      /\ r.block_left = blocks[start].size /\ r.total = Total(start, num)
      /\ r.cnt = 0
  BY DEF Asked1, Idle
<1>2. /\ Blocks = 0 .. block_count - 1 /\ block_count \in Nat
      /\ blocks[start].size \in 1 .. BLOCK_SIZE
      /\ Lo(start) \in Nat /\ Hi(start) \in 1 .. N
      /\ Hi(start) = Lo(start) + blocks[start].size
      /\ S[Lo(start) + 1] = <<blocks[start].start_f, blocks[start].start_off>>
  BY Cut DEF Hi
<1>3. /\ blocks[start].start_f \in 1 .. file_count
      /\ blocks[start].start_off \in Nat
  <2>1. PICK p \in 1 .. N : p = Lo(start) + 1
    <3>1. N \in Nat
      BY Files
    <3>2. blocks[start].size \in Nat /\ blocks[start].size >= 1
      BY <1>2, TransferAssumption
    <3>3. /\ Lo(start) \in Nat /\ Hi(start) \in Nat /\ Hi(start) <= N
          /\ Hi(start) = Lo(start) + blocks[start].size
      BY <1>2, <3>1
    <3>4. Lo(start) + 1 \in 1 .. N
      BY <3>1, <3>2, <3>3
    <3> QED
      BY <3>4, Zenon
  <2>2. S[p][1] \in 1 .. file_count /\ S[p][2] \in Nat
    BY StreamAt
  <2>3. S[p] = <<blocks[start].start_f, blocks[start].start_off>>
    BY <1>2, <2>1, Zenon
  <2> QED
    BY <2>2, <2>3
<1>4. /\ Total(start, num) = Hi(start + num - 1) - Lo(start)
      /\ Total(start, num) \in Nat
  BY TotalIs
<1>5. r \in ThreadRec
  <2>1. Idle \in ThreadRec
    BY IdleOK DEF ThreadOK
  <2>2. blocks[start].size \in Nat /\ start \in Nat /\ "open" \in Walks
    BY <1>2, TransferAssumption DEF Walks
  <2>3. blocks[start].start_f \in Nat
    BY <1>3, Files
  <2> DEFINE r1 == [Idle EXCEPT !.pc = "open", !.start = start, !.num = num, !.b = start]
             r2 == [r1 EXCEPT !.f = blocks[start].start_f, !.off = blocks[start].start_off]
             r3 == [r2 EXCEPT !.block_left = blocks[start].size, !.total = Total(start, num)]
  <2>4. r1 \in ThreadRec
    <3> HIDE DEF r
    <3> QED
      BY <2>1, <2>2 DEF ThreadRec
  <2> HIDE DEF r1
  <2>5. r2 \in ThreadRec
    BY <1>3, <2>3, <2>4 DEF ThreadRec
  <2> HIDE DEF r2
  <2>6. r3 \in ThreadRec
    BY <1>4, <2>2, <2>5 DEF ThreadRec
  <2>7. r = r3
    BY Zenon DEF r3, r2, r1, Asked1
  <2> QED
    BY <2>6, <2>7, Zenon
<1> HIDE DEF r
<1>6. Before(r) = Lo(start)
  <2>1. blocks[start].size \in Nat
    BY <1>2, TransferAssumption, SMTT(40)
  <2> QED
    BY <1>1, <1>2, <2>1 DEF Before
<1>7. Walking(r)
  <2>1. InRequest(r)
    BY <1>1, <1>2 DEF InRequest
  <2>2. r.block_left \in 1 .. blocks[r.b].size
    BY <1>1, <1>2, TransferAssumption
  <2>3. r.total = EndOf(r) - Before(r)
    BY <1>1, <1>4, <1>6 DEF EndOf
  <2> QED
    BY <1>1, <1>2, <1>6, <2>1, <2>2, <2>3 DEF Walking
<1> QED
  BY <1>1, <1>2, <1>3, <1>5, <1>7 DEF ThreadOK, InPlace, r

(* What stays right in a record while it does not move                     *)
LEMMA StayOK ==
  ASSUME Laid, NEW r, ThreadOK(r), r.pc \in Walks,
         NEW pc \in Walks \cup {"arrived"}, NEW cnt \in Nat, NEW retry \in Nat,
         NEW wire \in Seq(Word), pc = "send" => cnt <= Count(r)
  PROVE  LET q == [r EXCEPT !.pc = pc, !.cnt = cnt, !.retry = retry, !.wire = wire]
         IN ThreadOK(q) /\ InPlace(q)
<1> DEFINE q == [r EXCEPT !.pc = pc, !.cnt = cnt, !.retry = retry, !.wire = wire]
<1>1. r \in ThreadRec
  BY DEF ThreadOK
<1>2. /\ q \in ThreadRec
      /\ q.pc = pc /\ q.cnt = cnt /\ q.start = r.start /\ q.num = r.num
      /\ q.b = r.b /\ q.f = r.f /\ q.off = r.off /\ q.block_left = r.block_left
      /\ q.total = r.total
  BY <1>1 DEF ThreadRec, Walks
<1> HIDE DEF q
<1>3. Walking(q) /\ Count(q) = Count(r)
  BY <1>2 DEF ThreadOK, Walking, InRequest, Before, EndOf, Hi, Count, file_left
<1>4. pc # "write" /\ pc # "idle" /\ r.pc # "idle"
  BY DEF Walks
<1> QED
  BY <1>2, <1>3, <1>4 DEF ThreadOK, InPlace, q

(* Blocks are checked in turn.                                             *)
LEMMA CheckOK ==
  ASSUME Laid, NEW r, ThreadOK(r), r.pc # "idle",
         NEW b \in r.start .. r.start + r.num
  PROVE  ThreadOK(Check(r, b)) /\ InPlace(Check(r, b))
<1>1. /\ r \in ThreadRec /\ r.start \in Blocks /\ r.num >= 1
      /\ r.start + r.num <= block_count
  BY DEF ThreadOK
<1> DEFINE q == [r EXCEPT !.pc = "write", !.b = b, !.f = blocks[b].start_f,
                   !.off = blocks[b].start_off, !.total = blocks[b].size, !.cnt = 0]
<1>2. CASE ~(/\ b < r.start + r.num
             /\ Len(r.wire) = Total(r.start, r.num)
             /\ digest_ok(Buffer(r, b), b))
  <2>1. Check(r, b) = Idle
    BY <1>2 DEF Check
  <2> QED
    BY <2>1, IdleOK
<1>3. CASE /\ b < r.start + r.num
           /\ Len(r.wire) = Total(r.start, r.num)
           /\ digest_ok(Buffer(r, b), b)
  <2>1. Check(r, b) = q
    BY <1>3 DEF Check
  <2>2. /\ b \in Blocks /\ b \in Nat /\ r.start \in Nat /\ r.num \in Nat
        /\ b \in r.start .. r.start + r.num - 1
    BY <1>1, <1>3, Cut, SMTT(40) DEF ThreadRec
  <2>3. /\ blocks[b].size \in 1 .. BLOCK_SIZE /\ Lo(b) \in Nat
        /\ Hi(b) \in 1 .. N /\ Hi(b) = Lo(b) + blocks[b].size
        /\ S[Lo(b) + 1] = <<blocks[b].start_f, blocks[b].start_off>>
    BY <2>2, Cut DEF Hi
  <2>4. /\ blocks[b].start_f \in 1 .. file_count
        /\ blocks[b].start_off \in Nat
        /\ blocks[b].start_off < files[blocks[b].start_f].size
    <3>1. PICK p \in 1 .. N : p = Lo(b) + 1
      BY <2>3, Files, TransferAssumption, SMTT(40)
    <3>2. /\ S[p][1] = blocks[b].start_f /\ S[p][2] = blocks[b].start_off
      BY <2>3, <3>1
    <3>3. /\ S[p][1] \in 1 .. file_count /\ S[p][2] \in Nat
          /\ files[S[p][1]].size \in Int
          /\ p < p - S[p][2] + files[S[p][1]].size
      BY StreamAt
    <3> QED
      BY <3>2, <3>3
  <2>5. q \in ThreadRec
    <3>1. blocks[b].size \in Nat /\ 0 \in Nat
      BY <2>3, TransferAssumption
    <3>2. blocks[b].start_f \in Nat
      BY <2>4, Files
    <3> QED
      BY <1>1, <2>2, <2>4, <3>1, <3>2 DEF ThreadRec
  <2>6. /\ q.pc = "write" /\ q.b = b /\ q.f = blocks[b].start_f
        /\ q.off = blocks[b].start_off /\ q.total = blocks[b].size /\ q.cnt = 0
        /\ q.start = r.start /\ q.num = r.num /\ q.wire = r.wire
    BY <1>1 DEF ThreadRec
  <2> HIDE DEF q
  <2>7. Writing(q)
    <3>1. InRequest(q)
      BY <2>2, <2>6 DEF InRequest
    <3>2. q.cnt + q.total = blocks[q.b].size
      BY <2>3, <2>6, TransferAssumption
    <3>3. Buffer(q, q.b) = digest[q.b]
      BY <1>3, <2>6 DEF Buffer, digest_ok
    <3> QED
      BY <1>3, <2>4, <2>6, <3>1, <3>2, <3>3 DEF Writing
  <2>8. InPlace(q)
    <3>1. Lo(q.b) + q.cnt + 1 = Lo(b) + 1
      BY <2>3, <2>6
    <3> QED
      BY <2>3, <2>6, <3>1 DEF InPlace
  <2>9. ThreadOK(q)
    BY <1>1, <2>2, <2>4, <2>5, <2>6, <2>7 DEF ThreadOK, Walks
  <2> QED
    BY <2>1, <2>8, <2>9
<1> QED
  BY <1>2, <1>3

LEMMA BlockIs ==
  ASSUME Laid, NEW b \in Blocks
  PROVE  /\ b \in Nat /\ blocks[b].size \in Nat \ {0} /\ Lo(b) \in Nat /\ Hi(b) \in Nat
         /\ Hi(b) = Lo(b) + blocks[b].size /\ Hi(b) <= N /\ N \in Nat
<1>1. /\ b \in Nat /\ blocks[b].size \in 1 .. BLOCK_SIZE /\ Lo(b) \in Nat
      /\ Hi(b) \in 1 .. N
  BY Cut
<1>2. N \in Nat
  BY Files
<1> QED
  BY <1>1, <1>2, TransferAssumption DEF Hi

LEMMA NextHasBytes ==
  ASSUME Laid, NEW f \in 1 .. file_count, files[f].size > 0
  PROVE  next_f(f) \in 1 .. file_count /\ files[next_f(f)].size > 0
<1>1. PICK p \in 1 .. N : S[p] = <<f, 0>>
  BY FileInStream
<1>2. S[p][1] = f
  BY <1>1
<1> QED
  BY <1>2, NextInStream

LEMMA NextBlock ==
  ASSUME Laid, NEW b \in Blocks
  PROVE  /\ next_b(b) \in Blocks
         /\ b + 1 \in Blocks => next_b(b) = b + 1
<1>1. /\ Blocks = 0 .. block_count - 1 /\ block_count \in Nat \ {0}
      /\ b \in 0 .. block_count - 1
  BY Cut
<1>2. CASE b + 1 \in Blocks
  BY <1>1, <1>2 DEF next_b
<1>3. CASE b + 1 \notin Blocks
  <2>1. b + 1 = block_count
    BY <1>1, <1>3
  <2>2. next_b(b) = 0
    BY <1>1, <2>1 DEF next_b
  <2> QED
    BY <1>1, <1>3, <2>2
<1> QED
  BY <1>2, <1>3

LEMMA HiGrows ==
  ASSUME Laid, NEW b \in Blocks, NEW c \in Blocks, b < c
  PROVE  b + 1 \in Blocks /\ Hi(b) = Lo(b + 1) /\ Hi(b) < Hi(c)
<1>1. /\ b \in Nat /\ c \in Nat /\ b + 1 \in Blocks /\ b + 1 <= c
  BY Cut
<1>2. /\ Hi(b) = Lo(b + 1) /\ Lo(b + 1) <= Lo(c) /\ Lo(b + 1) \in Nat
      /\ Lo(c) \in Nat /\ Hi(c) = Lo(c) + blocks[c].size
      /\ blocks[c].size \in 1 .. BLOCK_SIZE
  BY <1>1, Cut, LoFacts DEF Hi
<1> QED
  BY <1>1, <1>2, TransferAssumption

(* sendblocks goes on after a part of a file: in the next file, the next   *)
(* block or both, until it has sent all blocks that were asked for.        *)
Gone(r) ==
  IF r.block_left > file_left(r) THEN AfterFile(r)
  ELSE IF r.block_left = file_left(r) THEN AfterBoth(r)
  ELSE AfterBlock(r)

SentRec(r) ==
  [Gone(r) EXCEPT !.total = r.total - Count(r),
     !.pc = IF r.total - Count(r) > 0 THEN "open" ELSE "arrived"]

LEMMA SentOK ==
  ASSUME Laid, NEW r, ThreadOK(r), r.pc = "sent"
  PROVE  /\ ThreadOK(SentRec(r)) /\ InPlace(SentRec(r))
         /\ SentRec(r).pc \in {"open", "arrived"}
         /\ SentRec(r).pc = "open" => Before(SentRec(r)) = Before(r) + Count(r)
         /\ SentRec(r).pc = "arrived" => EndOf(r) = Before(r) + Count(r)
         /\ SentRec(r).start = r.start /\ SentRec(r).num = r.num
         /\ SentRec(r).wire = r.wire
<1> DEFINE n == Count(r)
           q == SentRec(r)
           p == Before(r) + 1
<1>1. /\ r.b \in Blocks /\ Hi(r.b) \in 1 .. N
      /\ Before(r) \in Nat /\ p \in 1 .. N
      /\ r.off < files[r.f].size
      /\ n \in 1 .. r.block_left /\ n <= file_left(r)
      /\ n = r.block_left \/ n = file_left(r)
      /\ file_left(r) \in Nat /\ r.block_left \in Nat
  BY WalkAt DEF Walks
<1>2. /\ r \in ThreadRec /\ r.f \in 1 .. file_count /\ Walking(r)
      /\ r.start \in Blocks /\ r.num >= 1 /\ r.start + r.num <= block_count
  BY DEF ThreadOK, Walks
<1>3. /\ r.off \in Nat /\ r.start \in Nat /\ r.num \in Nat /\ r.total \in Nat
      /\ r.b \in Nat /\ N \in Nat /\ file_left(r) = files[r.f].size - r.off
      /\ S[p] = <<r.f, r.off>> /\ r.total = EndOf(r) - Before(r)
      /\ r.block_left <= blocks[r.b].size /\ Before(r) = Hi(r.b) - r.block_left
      /\ r.b \in r.start .. r.start + r.num - 1
  BY <1>1, <1>2, Cut, Files DEF ThreadRec, Walking, InRequest, file_left, Before
<1>4. /\ Gone(r) \in ThreadRec /\ Gone(r).start = r.start /\ Gone(r).num = r.num
      /\ Gone(r).wire = r.wire
      /\ Gone(r).f = IF n = file_left(r) THEN next_f(r.f) ELSE r.f
      /\ Gone(r).off = IF n = file_left(r) THEN 0 ELSE r.off + n
      /\ Gone(r).b = IF n = r.block_left THEN next_b(r.b) ELSE r.b
      /\ Gone(r).block_left =
           IF n = r.block_left THEN blocks[next_b(r.b)].size ELSE r.block_left - n
  <2>1. /\ next_f(r.f) \in 1 .. file_count /\ next_f(r.f) \in Nat
        /\ next_b(r.b) \in Blocks /\ next_b(r.b) \in Nat
        /\ blocks[next_b(r.b)].size \in Nat
    <3>1. files[r.f].size \in Int
      BY <1>2, Files
    <3>2. files[r.f].size > 0
      BY <1>1, <1>3, <3>1
    <3>3. next_f(r.f) \in 1 .. file_count /\ next_b(r.b) \in Blocks
      BY <1>1, <1>2, <3>2, NextHasBytes, NextBlock
    <3>4. file_count \in Nat
      BY Files
    <3> QED
      BY <3>3, <3>4, BlockIs
  <2> HIDE DEF n, q, p
  <2>2. CASE r.block_left > file_left(r)
    <3>1. Gone(r) = [r EXCEPT !.block_left = r.block_left - n, !.f = next_f(r.f), !.off = 0]
      BY <1>2, <2>2 DEF Gone, AfterFile, n, ThreadRec
    <3>2. n = file_left(r) /\ n # r.block_left /\ r.block_left - n \in Nat
      BY <1>1, <2>2
    <3> DEFINE g == [r EXCEPT !.block_left = r.block_left - n]
    <3>3. /\ g \in ThreadRec /\ g.start = r.start /\ g.num = r.num
          /\ g.wire = r.wire /\ g.b = r.b /\ g.block_left = r.block_left - n
      BY <1>2, <3>2 DEF ThreadRec
    <3>4. Gone(r) = [g EXCEPT !.f = next_f(r.f), !.off = 0]
      BY <3>1, Zenon DEF g
    <3> HIDE DEF g
    <3> DEFINE h == [g EXCEPT !.f = next_f(r.f)]
    <3>5. /\ h \in ThreadRec /\ h.start = g.start /\ h.num = g.num
          /\ h.wire = g.wire /\ h.b = g.b /\ h.block_left = g.block_left
          /\ h.f = next_f(r.f)
      BY <2>1, <3>3 DEF ThreadRec
    <3>6. Gone(r) = [h EXCEPT !.off = 0]
      BY <3>4, Zenon DEF h
    <3> HIDE DEF h
    <3>7. /\ Gone(r) \in ThreadRec
          /\ Gone(r).start = h.start /\ Gone(r).num = h.num /\ Gone(r).wire = h.wire
          /\ Gone(r).f = h.f /\ Gone(r).off = 0 /\ Gone(r).b = h.b
          /\ Gone(r).block_left = h.block_left
      BY <3>5, <3>6, SMTT(40) DEF ThreadRec
    <3> QED
      BY <3>2, <3>3, <3>5, <3>7
  <2>3. CASE r.block_left = file_left(r)
    <3>1. Gone(r) = [r EXCEPT !.f = next_f(r.f), !.off = 0, !.b = next_b(r.b),
                       !.block_left = blocks[next_b(r.b)].size]
      BY <1>1, <1>2, <2>3 DEF Gone, AfterBoth, ThreadRec
    <3>2. n = file_left(r) /\ n = r.block_left
      BY <1>1, <2>3
    <3> DEFINE g == [r EXCEPT !.f = next_f(r.f), !.off = 0]
    <3>3. /\ g \in ThreadRec /\ g.start = r.start /\ g.num = r.num
          /\ g.wire = r.wire /\ g.f = next_f(r.f) /\ g.off = 0
      BY <1>2, <2>1 DEF ThreadRec
    <3>4. Gone(r) = [g EXCEPT !.b = next_b(r.b), !.block_left = blocks[next_b(r.b)].size]
      BY <3>1, Zenon DEF g
    <3> HIDE DEF g
    <3>5. /\ Gone(r) \in ThreadRec
          /\ Gone(r).start = g.start /\ Gone(r).num = g.num /\ Gone(r).wire = g.wire
          /\ Gone(r).f = g.f /\ Gone(r).off = g.off /\ Gone(r).b = next_b(r.b)
          /\ Gone(r).block_left = blocks[next_b(r.b)].size
      BY <2>1, <3>3, <3>4 DEF ThreadRec
    <3> QED
      BY <3>2, <3>3, <3>5
  <2>4. CASE r.block_left < file_left(r)
    <3>1. Gone(r) = [r EXCEPT !.off = r.off + n, !.b = next_b(r.b),
                       !.block_left = blocks[next_b(r.b)].size]
      BY <1>1, <1>2, <2>4, SMTT(40) DEF Gone, AfterBlock, n, ThreadRec
    <3>2. n # file_left(r) /\ n = r.block_left /\ r.off + n \in Nat
      BY <1>1, <1>3, <2>4
    <3> QED
      BY <1>2, <2>1, <3>1, <3>2 DEF ThreadRec
  <2> QED
    BY <1>1, <2>2, <2>3, <2>4
<1>5. /\ next_f(r.f) \in 1 .. file_count
      /\ p + n <= N =>
           S[p + n] = IF n = file_left(r) THEN <<next_f(r.f), 0>> ELSE <<r.f, r.off + n>>
  <2> files[r.f].size \in Int
    BY <1>2, Files
  <2>1. files[r.f].size > 0
    BY <1>1, <1>3
  <2>2. next_f(r.f) \in 1 .. file_count
    BY <1>2, <2>1, NextHasBytes
  <2> HIDE DEF n, p
  <2>3. /\ n < files[r.f].size - r.off => S[p + n] = <<r.f, r.off + n>>
        /\ n = files[r.f].size - r.off =>
             (p + n <= N => S[p + n] = <<next_f(r.f), 0>>)
    <3>1. n \in Nat /\ n <= files[r.f].size - r.off
      BY <1>1, <1>3
    <3>2. p \in 1 .. N /\ S[p] = <<r.f, r.off>> /\ r.off \in Nat
          /\ r.f \in 1 .. file_count
      BY <1>1, <1>2, <1>3
    <3>3. PICK f \in 1 .. file_count, o \in Nat : f = r.f /\ o = r.off
      BY <3>2
    <3>4. S[p] = <<f, o>> /\ n <= files[f].size - o
      BY <3>1, <3>2, <3>3
    <3>5. /\ n < files[f].size - o => S[p + n] = <<f, o + n>>
          /\ n = files[f].size - o => (p + n <= N => S[p + n] = <<next_f(f), 0>>)
      BY <3>1, <3>2, <3>4, Onward, SMTT(40)
    <3> QED
      BY <3>3, <3>5
  <2> QED
    BY <1>1, <1>3, <2>2, <2>3
<1>6. /\ EndOf(r) \in Nat /\ Hi(r.b) <= EndOf(r)
      /\ r.b # r.start + r.num - 1 =>
           /\ Hi(r.b) < EndOf(r) /\ r.b + 1 \in Blocks /\ Hi(r.b) = Lo(r.b + 1)
  <2>1. PICK c \in Blocks : c = r.start + r.num - 1
    BY <1>2, <1>3, Cut, SMTT(40)
  <2>2. EndOf(r) = Hi(c) /\ Hi(c) \in Nat
    BY <2>1, Cut DEF EndOf
  <2>3. CASE r.b = c
    BY <1>1, <2>1, <2>2, <2>3
  <2>4. CASE r.b # c
    <3>1. r.b < c
      BY <1>3, <2>1, <2>4
    <3>2. /\ r.b + 1 \in Blocks /\ Hi(r.b) = Lo(r.b + 1) /\ Hi(r.b) < Hi(c)
      BY <1>1, <3>1, HiGrows
    <3>3. Hi(r.b) \in Nat
      BY <1>1, BlockIs
    <3> QED
      BY <2>2, <3>2, <3>3
  <2> QED
    BY <2>3, <2>4
<1>7. r.total - n \in Nat
  BY <1>1, <1>3, <1>6
<1>8. /\ q \in ThreadRec /\ q.start = r.start /\ q.num = r.num /\ q.wire = r.wire
      /\ q.f = Gone(r).f /\ q.off = Gone(r).off /\ q.b = Gone(r).b
      /\ q.block_left = Gone(r).block_left /\ q.total = r.total - n
      /\ q.pc = IF r.total - n > 0 THEN "open" ELSE "arrived"
  <2> HIDE DEF n
  <2>1. q = [Gone(r) EXCEPT !.total = r.total - n,
               !.pc = IF r.total - n > 0 THEN "open" ELSE "arrived"]
    BY DEF SentRec, n
  <2> HIDE DEF q
  <2> QED
    BY <1>4, <1>7, <2>1 DEF ThreadRec, Walks
<1> HIDE DEF q, n, p
<1>9. q.f \in 1 .. file_count /\ q.b \in Blocks
  BY <1>1, <1>2, <1>4, <1>5, <1>8, NextBlock
<1>10. CASE r.total - n > 0
  <2>1. /\ q.b \in r.start .. r.start + r.num - 1
        /\ q.block_left \in 1 .. blocks[q.b].size
        /\ Hi(q.b) - q.block_left = Before(r) + n
    <3>1. CASE n = r.block_left
      <4>1. r.b # r.start + r.num - 1
        <5>1. Before(r) + n = Hi(r.b)
          BY <1>1, <1>3, <3>1
        <5> SUFFICES ASSUME r.b = r.start + r.num - 1 PROVE FALSE
          OBVIOUS
        <5>2. EndOf(r) = Hi(r.b)
          BY DEF EndOf
        <5> QED
          BY <1>1, <1>3, <1>10, <5>1, <5>2
      <4>2. q.b = r.b + 1 /\ q.block_left = blocks[r.b + 1].size
        BY <1>1, <1>4, <1>6, <1>8, <3>1, <4>1, NextBlock
      <4>3. /\ Hi(r.b + 1) = Lo(r.b + 1) + blocks[r.b + 1].size
            /\ blocks[r.b + 1].size \in 1 .. BLOCK_SIZE /\ Lo(r.b + 1) \in Nat
        BY <1>6, <4>1, Cut DEF Hi
      <4> QED
        BY <1>1, <1>3, <1>6, <3>1, <4>1, <4>2, <4>3, TransferAssumption
    <3>2. CASE n # r.block_left
      <4>1. q.b = r.b /\ q.block_left = r.block_left - n
        BY <1>4, <1>8, <3>2
      <4>2. blocks[r.b].size \in Nat
        BY <1>1, BlockIs
      <4> QED
        BY <1>1, <1>3, <3>2, <4>1, <4>2
    <3> QED
      BY <3>1, <3>2
  <2>2. Before(q) = Before(r) + n
    BY <2>1 DEF Before
  <2>3. EndOf(q) = EndOf(r)
    BY <1>8 DEF EndOf
  <2>4. S[Before(q) + 1] = <<q.f, q.off>>
    <3>1. Hi(q.b) \in Nat /\ Hi(q.b) <= N /\ q.block_left \in Nat \ {0}
      <4>1. /\ Hi(q.b) \in Nat /\ Hi(q.b) <= N /\ blocks[q.b].size \in Nat
        BY <1>9, BlockIs
      <4> QED
        BY <2>1, <4>1
    <3>2. p + n = Before(q) + 1 /\ p + n <= N
      BY <1>1, <1>3, <2>1, <2>2, <3>1 DEF p
    <3>3. S[p + n] = <<q.f, q.off>>
      BY <1>4, <1>5, <1>8, <3>2
    <3> QED
      BY <3>2, <3>3
  <2>5. q.total = EndOf(q) - Before(q)
    BY <1>1, <1>3, <1>6, <1>8, <2>2, <2>3
  <2>6. Walking(q) /\ q.pc = "open"
    BY <1>8, <1>10, <2>1, <2>4, <2>5 DEF Walking, InRequest
  <2> QED
    BY <1>2, <1>8, <1>9, <2>2, <2>6 DEF ThreadOK, InPlace, q, n
<1>11. CASE ~(r.total - n > 0)
  <2>1. q.pc = "arrived"
    BY <1>8, <1>11
  <2>2. EndOf(r) = Before(r) + n
    BY <1>1, <1>3, <1>6, <1>7, <1>11
  <2> QED
    BY <1>2, <1>8, <1>9, <2>1, <2>2 DEF ThreadOK, InPlace, Walks, q, n
<1> QED
  BY <1>10, <1>11

(* writeblock goes on in the next file that has bytes, whatever pwrite has *)
(* written; what comes next is where it belongs if that was all it should. *)
PartLen(r) == Min({file_left(r), r.total})

PartRec(r, k) ==
  [r EXCEPT !.total = r.total - k, !.cnt = r.cnt + k, !.f = next_f(r.f), !.off = 0]

(* The part to be written lies in its file and its block.                  *)
LEMMA PartAt ==
  ASSUME Laid, NEW r, ThreadOK(r), r.pc = "write", r.total > 0
  PROVE  /\ r \in ThreadRec /\ r.f \in 1 .. file_count /\ r.b \in Blocks
         /\ r.start \in Blocks /\ r.num \in Nat /\ r.num >= 1
         /\ r.start + r.num <= block_count
         /\ r.off \in Nat /\ r.total \in Nat /\ r.cnt \in Nat
         /\ r.cnt + r.total = blocks[r.b].size
         /\ files[r.f].size \in Int /\ r.off < files[r.f].size
         /\ PartLen(r) \in Nat \ {0} /\ PartLen(r) <= r.total
         /\ PartLen(r) <= files[r.f].size - r.off
         /\ PartLen(r) = r.total \/ PartLen(r) = files[r.f].size - r.off
         /\ Lo(r.b) + r.cnt + 1 \in 1 .. N
<1>1. /\ r \in ThreadRec /\ r.f \in 1 .. file_count /\ Writing(r)
      /\ r.start \in Blocks /\ r.num >= 1 /\ r.start + r.num <= block_count
  BY DEF ThreadOK
<1>2. /\ r.off \in Nat /\ r.total \in Nat /\ r.cnt \in Nat /\ r.num \in Nat
      /\ r.start \in Nat /\ r.off < files[r.f].size
      /\ r.b \in r.start .. r.start + r.num - 1
      /\ r.cnt + r.total = blocks[r.b].size
  BY <1>1, Cut DEF ThreadRec, Writing, InRequest
<1>3. r.b \in Blocks
  BY <1>1, <1>2, Cut, SMTT(40)
<1>4. files[r.f].size \in Int
  BY <1>1, Files
<1>5. file_left(r) \in Nat \ {0} /\ file_left(r) = files[r.f].size - r.off
  BY <1>2, <1>4 DEF file_left
<1>6. PartLen(r) = IF file_left(r) <= r.total THEN file_left(r) ELSE r.total
  BY <1>2, <1>5, MinOf DEF PartLen
<1>7. Lo(r.b) + r.cnt + 1 \in 1 .. N
  BY <1>2, <1>3, BlockIs
<1> QED
  BY <1>1, <1>2, <1>3, <1>4, <1>5, <1>6, <1>7

LEMMA PartOK ==
  ASSUME Laid, NEW r, ThreadOK(r), r.pc = "write", r.total > 0,
         NEW k \in 0 .. PartLen(r)
  PROVE  /\ ThreadOK(PartRec(r, k))
         /\ k = PartLen(r) /\ InPlace(r) => InPlace(PartRec(r, k))
<1> DEFINE q == PartRec(r, k)
<1>1. /\ r \in ThreadRec /\ r.f \in 1 .. file_count /\ r.b \in Blocks
      /\ r.start \in Blocks /\ r.num \in Nat /\ r.num >= 1
      /\ r.start + r.num <= block_count
      /\ r.off \in Nat /\ r.total \in Nat /\ r.cnt \in Nat
      /\ r.cnt + r.total = blocks[r.b].size
      /\ files[r.f].size \in Int /\ r.off < files[r.f].size
  BY PartAt
<1>2. /\ PartLen(r) \in Nat /\ PartLen(r) <= r.total
      /\ PartLen(r) <= files[r.f].size - r.off
      /\ PartLen(r) = r.total \/ PartLen(r) = files[r.f].size - r.off
      /\ Lo(r.b) + r.cnt + 1 \in 1 .. N
  BY PartAt
<1>3. /\ r.total - k \in Nat /\ r.cnt + k \in Nat
  BY <1>1, <1>2
<1>4. /\ next_f(r.f) \in 1 .. file_count /\ next_f(r.f) \in Nat
      /\ files[next_f(r.f)].size > 0
  <2>1. files[r.f].size > 0
    BY <1>1
  <2> QED
    BY <1>1, <2>1, NextHasBytes, Files
<1>5. /\ q \in ThreadRec /\ q.pc = "write" /\ q.b = r.b /\ q.start = r.start
      /\ q.num = r.num /\ q.wire = r.wire /\ q.f = next_f(r.f) /\ q.off = 0
      /\ q.total = r.total - k /\ q.cnt = r.cnt + k
  <2> DEFINE g == [r EXCEPT !.total = r.total - k, !.cnt = r.cnt + k]
             h == [g EXCEPT !.f = next_f(r.f)]
  <2>1. /\ g \in ThreadRec /\ g.pc = "write" /\ g.b = r.b /\ g.start = r.start
        /\ g.num = r.num /\ g.wire = r.wire
        /\ g.total = r.total - k /\ g.cnt = r.cnt + k
    BY <1>1, <1>3 DEF ThreadRec
  <2>2. q = [h EXCEPT !.off = 0]
    BY Zenon DEF PartRec, g, h
  <2> HIDE DEF g, q
  <2>3. /\ h \in ThreadRec /\ h.pc = "write" /\ h.b = r.b /\ h.start = r.start
        /\ h.num = r.num /\ h.wire = r.wire /\ h.f = next_f(r.f)
        /\ h.total = r.total - k /\ h.cnt = r.cnt + k
    BY <1>4, <2>1 DEF ThreadRec
  <2> HIDE DEF h
  <2> QED
    BY <2>2, <2>3 DEF ThreadRec
<1> HIDE DEF q
<1>6. Writing(q)
  <2>1. q.cnt + q.total = blocks[q.b].size
    BY <1>1, <1>2, <1>5
  <2>2. /\ InRequest(q) /\ Len(q.wire) = Total(q.start, q.num)
        /\ Buffer(q, q.b) = digest[q.b]
    BY <1>5 DEF ThreadOK, Writing, InRequest, Buffer
  <2>3. q.off < files[q.f].size
    BY <1>4, <1>5
  <2> QED
    BY <2>1, <2>2, <2>3 DEF Writing
<1>7. ThreadOK(q)
  BY <1>1, <1>4, <1>5, <1>6 DEF ThreadOK, Walks
<1>8. ASSUME k = PartLen(r), InPlace(r), q.total > 0
      PROVE  S[Lo(q.b) + q.cnt + 1] = <<q.f, q.off>>
  <2>1. PICK p \in 1 .. N : p = Lo(r.b) + r.cnt + 1
    BY <1>2
  <2>2. S[p] = <<r.f, r.off>>
    BY <1>8, <2>1 DEF InPlace
  <2>3. k = files[r.f].size - r.off /\ k \in Nat
    BY <1>1, <1>2, <1>5, <1>8
  <2>4. PICK f \in 1 .. file_count, o \in Nat : f = r.f /\ o = r.off
    BY <1>1
  <2>5. S[p] = <<f, o>> /\ k <= files[f].size - o /\ k = files[f].size - o
    BY <1>1, <2>2, <2>3, <2>4
  <2>6. p + k <= N => S[p + k] = <<next_f(f), 0>>
    BY <2>3, <2>5, Onward
  <2>7. Lo(q.b) + q.cnt + 1 = p + k /\ p + k <= N
    <3>1. q.total <= blocks[r.b].size - (r.cnt + k) /\ blocks[r.b].size \in Nat
      BY <1>1, <1>5, BlockIs
    <3>2. Lo(r.b) \in Nat /\ Hi(r.b) = Lo(r.b) + blocks[r.b].size /\ Hi(r.b) <= N
          /\ N \in Nat /\ Hi(r.b) \in Nat
      BY <1>1, BlockIs
    <3> QED
      BY <1>1, <1>5, <1>8, <2>1, <2>3, <3>1, <3>2
  <2> QED
    BY <1>5, <2>4, <2>6, <2>7
<1> QED
  BY <1>7, <1>8 DEF InPlace, q

-----------------------------------------------------------------------------
(* What is on the wire                                                     *)

LEMMA Joined ==
  ASSUME NEW T, NEW s \in Seq(T), NEW i \in Nat, NEW j \in Nat, NEW k \in Nat,
         i <= j, j <= k, k <= Len(s)
  PROVE  SubSeq(s, i + 1, j) \o SubSeq(s, j + 1, k) = SubSeq(s, i + 1, k)
<1> DEFINE a == SubSeq(s, i + 1, j)
           b == SubSeq(s, j + 1, k)
           c == SubSeq(s, i + 1, k)
<1>1. /\ a \in Seq(T) /\ Len(a) = j - i /\ \A x \in 1 .. j - i : a[x] = s[i + x]
      /\ b \in Seq(T) /\ Len(b) = k - j /\ \A x \in 1 .. k - j : b[x] = s[j + x]
      /\ c \in Seq(T) /\ Len(c) = k - i /\ \A x \in 1 .. k - i : c[x] = s[i + x]
  <2>1. j <= Len(s) /\ i <= k
    OBVIOUS
  <2> QED
    BY <2>1, PartOf, ZenonT(40)
<1> HIDE DEF a, b, c
<1>2. /\ a \o b \in Seq(T) /\ Len(a \o b) = k - i
      /\ \A x \in 1 .. k - i : (a \o b)[x] = IF x <= j - i THEN a[x] ELSE b[x - (j - i)]
  <2>1. /\ a \o b \in Seq(T) /\ Len(a \o b) = Len(a) + Len(b)
        /\ \A x \in 1 .. Len(a) + Len(b) :
             (a \o b)[x] = IF x <= Len(a) THEN a[x] ELSE b[x - Len(a)]
    <3>1. a \in Seq(T) /\ b \in Seq(T)
      BY <1>1
    <3> QED
      BY <3>1, ConcatProperties, Zenon
  <2>2. Len(a) + Len(b) = k - i
    BY <1>1
  <2> QED
    BY <1>1, <2>1, <2>2
<1>3. \A x \in 1 .. k - i : (a \o b)[x] = c[x]
  <2> SUFFICES ASSUME NEW x \in 1 .. k - i PROVE (a \o b)[x] = c[x]
    OBVIOUS
  <2>1. CASE x <= j - i
    BY <1>1, <1>2, <2>1
  <2>2. CASE ~(x <= j - i)
    <3>1. x - (j - i) \in 1 .. k - j /\ j + (x - (j - i)) = i + x
      BY <2>2
    <3> QED
      BY <1>1, <1>2, <2>2, <3>1
  <2> QED
    BY <2>1, <2>2
<1>4. a \o b = c
  BY <1>1, <1>2, <1>3, SeqEqual
<1> QED
  BY <1>4 DEF a, b, c

LEMMA PreadIs ==
  ASSUME NEW T, NEW data \in Seq(T), NEW offset \in Nat, NEW n \in Nat
  PROVE  /\ Pread(data, offset, n) \in Seq(T) /\ Len(Pread(data, offset, n)) <= n
         /\ offset + n <= Len(data) =>
              Pread(data, offset, n) = SubSeq(data, offset + 1, offset + n)
<1> DEFINE m == Min({offset + n, Len(data)})
<1>1. Len(data) \in Nat
  OBVIOUS
<1>2. m = IF offset + n <= Len(data) THEN offset + n ELSE Len(data)
  BY <1>1, MinOf
<1>3. m \in Nat /\ m <= Len(data) /\ m <= offset + n
  BY <1>1, <1>2
<1>4. Pread(data, offset, n) = SubSeq(data, offset + 1, m)
  BY DEF Pread
<1> HIDE DEF m
<1>5. CASE offset <= m
  BY <1>2, <1>3, <1>4, <1>5, PartOf
<1>6. CASE m < offset
  <2>1. SubSeq(data, offset + 1, m) = <<>>
    BY <1>3, <1>6, SubSeqEmpty
  <2>2. ~(offset + n <= Len(data))
    BY <1>2, <1>6
  <2>3. Pread(data, offset, n) = <<>>
    BY <1>4, <2>1
  <2>4. Len(<<>>) = 0 /\ <<>> \in Seq(T)
    OBVIOUS
  <2> QED
    BY <2>2, <2>3, <2>4
<1> QED
  BY <1>3, <1>5, <1>6

(* A part of the stream, and of a part of it                               *)
LEMMA StreamPart ==
  ASSUME Laid, NEW c \in Nat, NEW d \in Nat, c <= d, d <= N
  PROVE  /\ SubSeq(S, c + 1, d) \in Seq((1 .. file_count) \X Nat)
         /\ Len(SubSeq(S, c + 1, d)) = d - c
         /\ \A k \in 1 .. d - c : SubSeq(S, c + 1, d)[k] = S[c + k]
<1>1. S \in Seq((1 .. file_count) \X Nat) /\ d <= Len(S)
  BY Files DEF N
<1> QED
  BY <1>1, PartOf

LEMMA StreamPartPart ==
  ASSUME Laid, NEW c \in Nat, NEW d \in Nat, c <= d, d <= N,
         NEW n \in Nat, n <= d - c
  PROVE  SubSeq(SubSeq(S, c + 1, d), 1, n) = SubSeq(S, c + 1, c + n)
<1> DEFINE whole == SubSeq(S, c + 1, d)
           u == SubSeq(whole, 0 + 1, n)
<1>1. PICK T : T = (1 .. file_count) \X Nat
  OBVIOUS
<1>2. PICK k \in Nat : k = c + n
  OBVIOUS
<1> DEFINE v == SubSeq(S, c + 1, k)
<1>3. /\ whole \in Seq(T) /\ Len(whole) = d - c
      /\ \A x \in 1 .. d - c : whole[x] = S[c + x]
  BY <1>1, StreamPart
<1>4. /\ v \in Seq(T) /\ Len(v) = n /\ \A x \in 1 .. n : v[x] = S[c + x]
  <2>1. c <= k /\ k <= N /\ k - c = n
    BY <1>2, Files
  <2> QED
    BY <1>1, <2>1, StreamPart
<1> HIDE DEF whole
<1>5. /\ u \in Seq(T) /\ Len(u) = n /\ \A x \in 1 .. n : u[x] = whole[x]
  <2>1. 0 <= n /\ n <= Len(whole) /\ n - 0 = n /\ whole \in Seq(T) /\ 0 \in Nat
    BY <1>3
  <2>2. /\ u \in Seq(T) /\ Len(u) = n - 0 /\ \A x \in 1 .. n - 0 : u[x] = whole[0 + x]
    BY <2>1, PartOf
  <2> HIDE DEF u
  <2> QED
    BY <2>1, <2>2
<1> HIDE DEF u, v
<1>6. \A x \in 1 .. n : u[x] = v[x]
  <2> SUFFICES ASSUME NEW x \in 1 .. n PROVE u[x] = v[x]
    OBVIOUS
  <2>1. x \in 1 .. d - c
    OBVIOUS
  <2> QED
    BY <1>3, <1>4, <1>5, <2>1
<1>7. u = v
  BY <1>4, <1>5, <1>6, SeqEqual
<1> QED
  BY <1>2, <1>7 DEF u, v, whole

(* A part of a file is a part of the stream.                               *)
LEMMA FilePart ==
  ASSUME Laid, NEW f \in 1 .. file_count, NEW o \in Nat, NEW p \in Nat,
         p + 1 \in 1 .. N, S[p + 1] = <<f, o>>,
         NEW i \in Nat, NEW j \in Nat, i <= j, j <= files[f].size - o
  PROVE  /\ Len(Source(f)) = files[f].size /\ p + j <= N
         /\ SubSeq(Source(f), o + i + 1, o + j) = SubSeq(S, p + i + 1, p + j)
<1>1. PICK q \in 1 .. N : q = p + 1
  OBVIOUS
<1>2. /\ q + j <= N + 1 /\ \A k \in 0 .. j - 1 : S[q + k] = <<f, o + k>>
  <2>1. S[q] = <<f, o>>
    BY <1>1
  <2>2. q + j <= N + 1
    BY <2>1, Onward
  <2>3. ASSUME NEW k \in 0 .. j - 1 PROVE S[q + k] = <<f, o + k>>
    BY <2>1, Onward
  <2> QED
    BY <2>2, <2>3
<1>3. PICK size \in Nat : size = files[f].size
  <2>1. files[f].size \in Int
    BY Files
  <2> QED
    BY <2>1
<1>4. Source(f) = [x \in 1 .. size |-> <<f, x - 1>>]
  <2>1. Max({size, 0}) = size
    BY DEF Max
  <2> QED
    BY <1>3, <2>1 DEF Source, FileBytes
<1>5. PICK T : T = {f} \X Nat
  OBVIOUS
<1>6. Source(f) \in Seq(T) /\ Len(Source(f)) = size
  <2>1. \A x \in 1 .. size : <<f, x - 1>> \in T
    BY <1>5
  <2> QED
    BY <1>4, <2>1
<1>7. \A x \in 1 .. size : Source(f)[x] = <<f, x - 1>>
  BY <1>4
<1>8. PICK a, b, c, d \in Nat : a = o + i /\ b = o + j /\ c = p + i /\ d = p + j
  OBVIOUS
<1>9. /\ a <= b /\ b <= size /\ c <= d /\ d <= N /\ b - a = j - i /\ d - c = j - i
  <2>1. N \in Nat /\ q + j <= N + 1 /\ j <= size - o
    BY <1>2, <1>3, Files
  <2> QED
    BY <1>1, <1>8, <2>1
<1>10. /\ SubSeq(Source(f), a + 1, b) \in Seq(T)
       /\ Len(SubSeq(Source(f), a + 1, b)) = b - a
       /\ \A k \in 1 .. b - a : SubSeq(Source(f), a + 1, b)[k] = Source(f)[a + k]
  BY <1>6, <1>9, PartOf
<1>11. /\ SubSeq(S, c + 1, d) \in Seq((1 .. file_count) \X Nat)
       /\ Len(SubSeq(S, c + 1, d)) = d - c
       /\ \A k \in 1 .. d - c : SubSeq(S, c + 1, d)[k] = S[c + k]
  BY <1>9, StreamPart
<1>12. \A k \in 1 .. j - i : S[c + k] = Source(f)[a + k]
  <2> SUFFICES ASSUME NEW k \in 1 .. j - i PROVE S[c + k] = Source(f)[a + k]
    OBVIOUS
  <2>1. i + k - 1 \in 0 .. j - 1 /\ q + (i + k - 1) = c + k
        /\ o + (i + k - 1) = a + k - 1
    BY <1>1, <1>8
  <2>2. S[c + k] = <<f, a + k - 1>>
    BY <1>2, <2>1
  <2>3. a + k \in 1 .. size
    BY <1>8, <1>9
  <2>4. Source(f)[a + k] = <<f, a + k - 1>>
    BY <1>7, <2>3
  <2> QED
    BY <2>2, <2>4
<1>13. SubSeq(Source(f), a + 1, b) = SubSeq(S, c + 1, d)
  <2> DEFINE u == SubSeq(Source(f), a + 1, b)
             v == SubSeq(S, c + 1, d)
  <2>1. PICK V : V = (1 .. file_count) \X Nat
    OBVIOUS
  <2>2. T \subseteq V
    BY <1>5, <2>1
  <2>3. u \in Seq(V) /\ v \in Seq(V)
    BY <1>10, <1>11, <2>1, <2>2
  <2>4. Len(u) = j - i /\ Len(v) = j - i /\ \A k \in 1 .. j - i : u[k] = v[k]
    BY <1>9, <1>10, <1>11, <1>12
  <2> HIDE DEF u, v
  <2>5. u = v
    BY <2>3, <2>4, SeqEqual
  <2> QED
    BY <2>5 DEF u, v
<1> QED
  BY <1>3, <1>6, <1>8, <1>9, <1>13

(* What sendfile sends is the stream from where the walk is.               *)
PartFrom(f, o, i, j) == Pread(Source(f), o + i, j - i)

IsStream(p, f, o, i, j) ==
  \A n \in 1 .. Len(PartFrom(f, o, i, j)) :
    SubSeq(PartFrom(f, o, i, j), 1, n) = SubSeq(S, p + i + 1, p + i + n)

LiesAt(p, f, o, i, j) ==
  /\ f \in 1 .. file_count /\ o \in Nat /\ p \in Nat /\ i \in Nat /\ j \in Nat
  /\ p + 1 \in 1 .. N /\ S[p + 1] = <<f, o>>
  /\ i <= j /\ j <= files[f].size - o

LEMMA SentPart ==
  ASSUME Laid, NEW f, NEW o, NEW p, NEW i, NEW j, LiesAt(p, f, o, i, j)
  PROVE  IsStream(p, f, o, i, j)
<1>1. /\ f \in 1 .. file_count /\ o \in Nat /\ p \in Nat /\ i \in Nat /\ j \in Nat
      /\ p + 1 \in 1 .. N /\ S[p + 1] = <<f, o>>
      /\ i <= j /\ j <= files[f].size - o
  BY DEF LiesAt
<1>2. /\ Len(Source(f)) = files[f].size /\ p + j <= N
      /\ SubSeq(Source(f), o + i + 1, o + j) = SubSeq(S, p + i + 1, p + j)
  BY <1>1, FilePart, SMTT(40)
<1>3. Pread(Source(f), o + i, j - i) = SubSeq(Source(f), o + i + 1, o + j)
  <2>1. PICK size \in Int : size = files[f].size
    BY <1>1, Files
  <2>2. (o + i) + (j - i) = o + j /\ o + j <= size
    BY <1>1, <2>1
  <2>3. PICK t \in Nat : t = o + j
    BY <1>1
  <2>4. Min({t, size}) = t
    BY <2>2, <2>3, MinOf
  <2>5. Pread(Source(f), o + i, j - i)
          = SubSeq(Source(f), (o + i) + 1, Min({(o + i) + (j - i), Len(Source(f))}))
    BY DEF Pread
  <2>6. (o + i) + (j - i) = t /\ Len(Source(f)) = size
    BY <1>2, <2>1, <2>2, <2>3
  <2> QED
    BY <2>3, <2>4, <2>5, <2>6
<1>4. PICK c \in Nat, d \in Nat : c = p + i /\ d = p + j
  BY <1>1
<1>5. PartFrom(f, o, i, j) = SubSeq(S, c + 1, d)
  BY <1>2, <1>3, <1>4 DEF PartFrom
<1>6. c <= d /\ d <= N
  BY <1>1, <1>2, <1>4
<1>7. Len(SubSeq(S, c + 1, d)) = d - c
  BY <1>6, StreamPart
<1>8. ASSUME NEW n \in 1 .. Len(PartFrom(f, o, i, j))
      PROVE  SubSeq(SubSeq(S, c + 1, d), 1, n)
               = SubSeq(S, p + i + 1, p + i + n)
  <2>1. n \in Nat /\ n <= d - c
    BY <1>5, <1>6, <1>7
  <2>2. SubSeq(SubSeq(S, c + 1, d), 1, n) = SubSeq(S, c + 1, c + n)
    BY <1>6, <2>1, StreamPartPart
  <2>3. c + 1 = p + i + 1 /\ c + n = p + i + n
    BY <1>4, <2>1
  <2> QED
    BY <2>2, <2>3
<1> QED
  BY <1>5, <1>8, Zenon DEF IsStream

LEMMA UnsentIs ==
  ASSUME Laid, NEW r, ThreadOK(r), r.pc = "send",
         NEW data \in Seq(Word), data = remote[r.f]
  PROVE  /\ Unsent(r) \in Seq(Word) /\ Len(Unsent(r)) <= Count(r) - r.cnt
         /\ data = Source(r.f) =>
              \A n \in 1 .. Len(Unsent(r)) :
                SubSeq(Unsent(r), 1, n)
                  = SubSeq(S, Before(r) + r.cnt + 1, Before(r) + r.cnt + n)
<1>1. /\ r \in ThreadRec /\ r.f \in 1 .. file_count /\ Walking(r)
      /\ r.cnt <= Count(r)
  BY DEF ThreadOK, Walks
<1>2. /\ Before(r) \in Nat /\ Before(r) + 1 \in 1 .. N
      /\ Count(r) \in Nat /\ Count(r) <= file_left(r)
  <2>1. /\ Before(r) \in Nat /\ Before(r) + 1 \in 1 .. N
        /\ Count(r) \in 1 .. r.block_left
        /\ Count(r) <= file_left(r) /\ r.block_left \in Nat
    BY WalkAt DEF Walks
  <2> QED
    BY <2>1
<1>3. /\ r.off \in Nat /\ r.cnt \in Nat
      /\ file_left(r) = files[r.f].size - r.off
      /\ S[Before(r) + 1] = <<r.f, r.off>>
  BY <1>1 DEF ThreadRec, file_left, Walking
<1>4. Unsent(r) = Pread(data, r.off + r.cnt, Count(r) - r.cnt)
  BY DEF Unsent
<1>5. /\ Unsent(r) \in Seq(Word) /\ Len(Unsent(r)) <= Count(r) - r.cnt
  <2>1. r.off + r.cnt \in Nat /\ Count(r) - r.cnt \in Nat
    BY <1>1, <1>2, <1>3
  <2>2. data \in Seq(Word)
    OBVIOUS
  <2> QED
    BY <1>4, <2>1, <2>2, PreadIs, Zenon
<1>6. ASSUME data = Source(r.f)
      PROVE  \A n \in 1 .. Len(Unsent(r)) :
               SubSeq(Unsent(r), 1, n)
                 = SubSeq(S, Before(r) + r.cnt + 1, Before(r) + r.cnt + n)
  <2>1. PICK f \in 1 .. file_count, o \in Nat, p \in Nat, i \in Nat, j \in Nat :
          f = r.f /\ o = r.off /\ p = Before(r) /\ i = r.cnt /\ j = Count(r)
    BY <1>1, <1>2, <1>3
  <2>2. LiesAt(p, f, o, i, j)
    BY <1>1, <1>2, <1>3, <2>1 DEF LiesAt
  <2>3. IsStream(p, f, o, i, j)
    BY <2>2, SentPart, Zenon
  <2>4. Unsent(r) = PartFrom(f, o, i, j)
    BY <1>4, <1>6, <2>1 DEF PartFrom
  <2> QED
    BY <2>1, <2>3, <2>4, Zenon DEF IsStream
<1> QED
  BY <1>5, <1>6

(* What an undisturbed request has brought is cut in its blocks again.     *)
LEMMA BufferIs ==
  ASSUME Laid, NEW r, ThreadOK(r), r.pc = "arrived", Whole(r),
         NEW b \in r.start .. r.start + r.num - 1
  PROVE  /\ Len(r.wire) = Total(r.start, r.num)
         /\ b \in Blocks /\ Buffer(r, b) = blocks[b].bytes
<1>1. /\ r \in ThreadRec /\ r.start \in Blocks /\ r.num >= 1
      /\ r.start + r.num <= block_count
  BY DEF ThreadOK
<1>2. r.num \in Nat /\ r.start \in Nat /\ Blocks = 0 .. block_count - 1
      /\ block_count \in Nat
  BY <1>1, Cut DEF ThreadRec
<1>3. PICK c \in Blocks : c = r.start + r.num - 1
  BY <1>1, <1>2
<1>4. b \in Blocks /\ b <= c /\ r.start <= b /\ b \in Nat /\ c \in Nat
  BY <1>2, <1>3
<1>5. Hi(b) <= Hi(c)
  <2>1. CASE b = c
    BY <1>4, <2>1, BlockIs
  <2>2. CASE b < c
    BY <1>4, <2>2, HiGrows, BlockIs
  <2> QED
    BY <1>4, <2>1, <2>2
<1>6. r.wire = SubSeq(S, Lo(r.start) + 1, Hi(c))
  BY <1>3 DEF Whole, Reached, EndOf, Walks
<1>7. /\ Lo(r.start) \in Nat /\ Lo(b) \in Nat /\ Hi(c) \in Nat /\ Hi(c) <= N
      /\ Hi(b) = Lo(b) + blocks[b].size /\ blocks[b].size \in Nat \ {0}
      /\ Lo(b) - Lo(r.start) = BLOCK_SIZE * (b - r.start) /\ Lo(r.start) <= Lo(b)
      /\ N \in Nat /\ BLOCK_SIZE * (b - r.start) \in Nat
  <2>1. /\ Lo(r.start) \in Nat /\ Lo(b) \in Nat /\ Hi(c) \in Nat /\ Hi(c) <= N
        /\ Hi(b) = Lo(b) + blocks[b].size /\ blocks[b].size \in Nat \ {0}
        /\ N \in Nat
    BY <1>1, <1>4, BlockIs
  <2>2. /\ Lo(b) - Lo(r.start) = BLOCK_SIZE * (b - r.start) /\ Lo(r.start) <= Lo(b)
    BY <1>2, <1>4, LoFacts
  <2>3. BLOCK_SIZE * (b - r.start) \in Nat
    BY <2>1, <2>2
  <2> QED
    BY <2>1, <2>2, <2>3
<1>8. Total(r.start, r.num) = Hi(c) - Lo(r.start)
  BY <1>1, <1>2, <1>3, TotalIs
<1>9. S \in Seq((1 .. file_count) \X Nat)
  BY Files
<1>10. Len(r.wire) = Hi(c) - Lo(r.start)
  <2>1. Lo(r.start) <= Hi(c)
    BY <1>5, <1>7
  <2> QED
    BY <1>6, <1>7, <1>9, <2>1, PartOf DEF N
<1>11. PICK i \in 1 .. N, d \in Nat, e \in Nat :
         /\ i = Lo(r.start) + 1 /\ d = BLOCK_SIZE * (b - r.start) + 1
         /\ e = BLOCK_SIZE * (b - r.start) + blocks[b].size
  <2>1. Lo(r.start) + 1 \in 1 .. N
    BY <1>5, <1>7
  <2> QED
    BY <1>7, <2>1
<1>12. /\ d \in 1 .. Hi(c) - i + 1 /\ e \in 1 .. Hi(c) - i + 1 /\ Hi(c) \in 1 .. N
       /\ i + d - 1 = Lo(b) + 1 /\ i + e - 1 = Hi(b)
  BY <1>5, <1>7, <1>11
<1>13. SubSeq(SubSeq(S, i, Hi(c)), d, e) = SubSeq(S, i + d - 1, i + e - 1)
  <2>1. PICK j \in 1 .. Len(S) : j = Hi(c)
    BY <1>12 DEF N
  <2>2. /\ i \in 1 .. Len(S) /\ d \in 1 .. j - i + 1 /\ e \in 1 .. j - i + 1
    BY <1>12, <2>1 DEF N
  <2>3. SubSeq(SubSeq(S, i, j), d, e) = SubSeq(S, i + d - 1, i + e - 1)
    <3>1. PICK T : T = (1 .. file_count) \X Nat
      OBVIOUS
    <3>2. S \in Seq(T)
      BY <1>9, <3>1
    <3> QED
      BY <2>1, <2>2, <3>2, SubSeqOfSubSeq
  <2> QED
    BY <2>1, <2>3
<1>14. Buffer(r, b) = SubSeq(S, Lo(b) + 1, Hi(b))
  BY <1>6, <1>11, <1>12, <1>13 DEF Buffer
<1>15. blocks[b].bytes = SubSeq(S, Lo(b) + 1, Hi(b))
  BY <1>4, Cut
<1> QED
  BY <1>4, <1>8, <1>10, <1>14, <1>15

-----------------------------------------------------------------------------
(* What a step leaves as it is                                             *)

LEMMA LaidStays ==
  ASSUME Laid, UNCHANGED <<job, blocks>>
  PROVE  Laid'
BY DEF Laid, CutInBlocks, files

LEMMA HashingStays ==
  ASSUME Hashing, UNCHANGED <<job, blocks, remote, sd, digest>>
  PROVE  Hashing'
BY DEF Hashing, file_count, files, Blocks

LEMMA ProcessStays ==
  ASSUME Process, UNCHANGED <<job, blocks, sd, dl, snaps>>
  PROVE  Process'
BY DEF Process, file_count, files, Blocks

LEMMA FetchersStay ==
  ASSUME Fetchers, UNCHANGED <<job, blocks, digest, th>>,
         dl'.pc = dl.pc \/ \A t \in Threads : th[t].pc = "idle"
  PROVE  Fetchers'
<1>1. ASSUME NEW t \in Threads PROVE ThreadOK(th[t])'
  <2>1. PICK r : r = th[t]
    OBVIOUS
  <2>2. th'[t] = r /\ ThreadOK(r)
    BY <2>1, Zenon DEF Fetchers
  <2> QED
    BY <2>2, KeptThread, Zenon
<1> QED
  BY <1>1 DEF Fetchers

LEMMA PlacingStays ==
  ASSUME Placing, UNCHANGED <<job, blocks, digest, th, short>>
  PROVE  Placing'
<1>1. ASSUME NEW t \in Threads, InPlace(th[t]) PROVE InPlace(th[t])'
  <2>1. PICK r : r = th[t]
    OBVIOUS
  <2>2. th'[t] = r /\ InPlace(r)
    BY <1>1, <2>1, Zenon
  <2> QED
    BY <2>2, KeptThread, Zenon
<1>2. ~short' => ~short
  OBVIOUS
<1> QED
  BY <1>1, <1>2, Zenon DEF Placing

LEMMA UndisturbedStays ==
  ASSUME Undisturbed, UNCHANGED <<job, blocks, remote, digest, th, faults>>
  PROVE  Undisturbed'
<1>1. ASSUME NEW t \in Threads, Whole(th[t]) PROVE Whole(th[t])'
  <2>1. PICK r : r = th[t]
    OBVIOUS
  <2>2. th'[t] = r /\ Whole(r)
    BY <1>1, <2>1, Zenon
  <2> QED
    BY <2>2, KeptThread, Zenon
<1>2. ASSUME \A f \in 1 .. file_count : remote[f] = Source(f)
      PROVE  (\A f \in 1 .. file_count : remote[f] = Source(f))'
  BY <1>2 DEF Source, files, file_count
<1>3. faults' = faults
  OBVIOUS
<1> QED
  BY <1>1, <1>2, <1>3, Zenon DEF Undisturbed

(* One thread moves.                                                       *)
LEMMA FetchersMove ==
  ASSUME Fetchers, NEW t \in Threads, NEW q, Set(t, q), ThreadOK(q),
         q.pc # "idle" => dl.pc = "fetch",
         UNCHANGED <<job, blocks, digest>>, dl'.pc = dl.pc
  PROVE  Fetchers'
<1>1. /\ th' = [u \in Threads |-> th'[u]]
      /\ \A u \in Threads : th'[u] = IF u = t THEN q ELSE th[u]
  BY DEF Set, Fetchers
<1>2. ASSUME NEW u \in Threads PROVE ThreadOK(th[u])'
  <2>1. PICK r : r = IF u = t THEN q ELSE th[u]
    OBVIOUS
  <2>2. th'[u] = r
    BY <1>1, <2>1
  <2>3. ThreadOK(r)
    BY <2>1, Zenon DEF Fetchers
  <2> QED
    BY <2>2, <2>3, KeptThread, Zenon
<1>3. \A u \in Threads : th'[u].pc # "idle" => dl'.pc = "fetch"
  BY <1>1 DEF Fetchers
<1> QED
  BY <1>1, <1>2, <1>3 DEF Fetchers

LEMMA PlacingMoves ==
  ASSUME Fetchers, Placing, NEW t \in Threads, NEW q, Set(t, q),
         ~short => InPlace(q), UNCHANGED <<job, blocks, digest, short>>
  PROVE  Placing'
<1>1. \A u \in Threads : th'[u] = IF u = t THEN q ELSE th[u]
  BY DEF Set, Fetchers
<1>2. ASSUME NEW u \in Threads, ~short PROVE InPlace(th[u])'
  <2>1. PICK r : r = IF u = t THEN q ELSE th[u]
    OBVIOUS
  <2>2. th'[u] = r
    BY <1>1, <2>1, Zenon
  <2>3. InPlace(r)
    BY <1>2, <2>1, Zenon DEF Placing
  <2> QED
    BY <2>2, <2>3, KeptThread, Zenon
<1>3. ~short' => ~short
  OBVIOUS
<1> QED
  BY <1>2, <1>3, Zenon DEF Placing

LEMMA UndisturbedMoves ==
  ASSUME Fetchers, Undisturbed, NEW t \in Threads, NEW q, Set(t, q),
         faults = 0 => Whole(q), UNCHANGED <<job, blocks, digest, remote, faults>>
  PROVE  Undisturbed'
<1>1. \A u \in Threads : th'[u] = IF u = t THEN q ELSE th[u]
  BY DEF Set, Fetchers
<1>2. ASSUME NEW u \in Threads, faults = 0 PROVE Whole(th[u])'
  <2>1. PICK r : r = IF u = t THEN q ELSE th[u]
    OBVIOUS
  <2>2. th'[u] = r
    BY <1>1, <2>1, Zenon
  <2>3. Whole(r)
    BY <1>2, <2>1, Zenon DEF Undisturbed
  <2> QED
    BY <2>2, <2>3, KeptThread, Zenon
<1>3. ASSUME \A f \in 1 .. file_count : remote[f] = Source(f)
      PROVE  (\A f \in 1 .. file_count : remote[f] = Source(f))'
  BY <1>3 DEF Source, files, file_count
<1>4. faults' = faults
  OBVIOUS
<1> QED
  BY <1>2, <1>3, <1>4, Zenon DEF Undisturbed

(* A fault disturbs.                                                       *)
LEMMA Disturbed ==
  ASSUME Counters, NEW kind, CanFault(kind), crashes' = crashes
  PROVE  Counters' /\ Undisturbed'
<1>1. faults \in Nat /\ faults' = faults + 1 /\ faults < MaxFaults /\ MaxFaults \in Nat
  BY TransferAssumption DEF Counters, CanFault
<1>2. faults' \in 0 .. MaxFaults /\ faults' # 0
  BY <1>1
<1>3. Undisturbed'
  BY <1>2, Zenon DEF Undisturbed
<1> QED
  BY <1>2, <1>3 DEF Counters

-----------------------------------------------------------------------------
(* The steps of a request                                                  *)

Undone == UNCHANGED faults

LEMMA ThreadStep ==
  ASSUME IInv, NEW t \in Threads, NEW q, Set(t, q), ThreadOK(q),
         dl.pc = "fetch", UNCHANGED <<writing, dl>>,
         \/ UNCHANGED short /\ (~short => InPlace(q))
         \/ short' = TRUE,
         \/ Undone /\ (faults = 0 => Whole(q))
         \/ \E kind \in EnvKinds : CanFault(kind)
  PROVE  IInv'
<1>1. /\ UNCHANGED <<job, blocks>> /\ UNCHANGED <<job, blocks, digest>>
      /\ UNCHANGED <<job, blocks, remote, sd, digest>>
      /\ UNCHANGED <<job, blocks, sd, dl, snaps>>
      /\ dl'.pc = dl.pc /\ crashes' = crashes /\ dl' = dl
      /\ altered' = altered /\ remote' = remote
  BY DEF writing
<1>2. Laid' /\ Hashing' /\ Process'
  <2>1. Laid /\ Hashing /\ Process
    BY DEF IInv
  <2> QED
    BY <1>1, <2>1, LaidStays, HashingStays, ProcessStays, Zenon
<1>3. Fetchers'
  <2>1. Fetchers /\ (q.pc # "idle" => dl.pc = "fetch")
    BY DEF IInv
  <2> QED
    BY <1>1, <2>1, FetchersMove, Zenon
<1>4. Placing' /\ short' \in BOOLEAN
  <2>1. Fetchers /\ Placing /\ short \in BOOLEAN
    BY Zenon DEF IInv, Flags
  <2>2. CASE UNCHANGED short /\ (~short => InPlace(q))
    <3>1. UNCHANGED <<job, blocks, digest, short>>
      BY <1>1, <2>2
    <3> QED
      BY <2>1, <2>2, <3>1, PlacingMoves, Zenon
  <2>3. CASE short' = TRUE
    BY <2>3, Zenon DEF Placing
  <2> QED
    BY <2>2, <2>3, Zenon
<1>5. Undisturbed' /\ Counters'
  <2>1. Fetchers /\ Undisturbed /\ Counters
    BY DEF IInv
  <2>2. CASE Undone /\ (faults = 0 => Whole(q))
    <3>1. faults' = faults
      BY <2>2 DEF Undone
    <3>2. Counters'
      BY <1>1, <2>1, <3>1 DEF Counters
    <3>3. UNCHANGED <<job, blocks, digest, remote, faults>>
      BY <1>1, <3>1
    <3>4. Undisturbed'
      BY <2>1, <2>2, <3>3, UndisturbedMoves, Zenon
    <3> QED
      BY <3>2, <3>4
  <2>3. CASE \E kind \in EnvKinds : CanFault(kind)
    <3>1. PICK kind : CanFault(kind)
      BY <2>3, Zenon
    <3> QED
      BY <1>1, <2>1, <3>1, Disturbed, Zenon
  <2> QED
    BY <2>2, <2>3, Zenon
<1>6. Flags'
  BY <1>1, <1>4, Zenon DEF IInv, Flags
<1> QED
  BY <1>2, <1>3, <1>4, <1>5, <1>6, Zenon DEF IInv

LEMMA SendStep ==
  ASSUME IInv, NEW t \in Threads, NEW q, Set(t, q), ThreadOK(q), InPlace(q),
         dl.pc = "fetch", UNCHANGED <<sending, short>>,
         \/ Undone /\ (faults = 0 => Whole(q))
         \/ \E kind \in EnvKinds : CanFault(kind)
  PROVE  IInv'
<1>1. UNCHANGED <<writing, dl>> /\ UNCHANGED short
  BY DEF sending, writing
<1> QED
  BY <1>1, ThreadStep, Zenon

LEMMA RequestStep ==
  ASSUME IInv, NEW t \in Threads, Request(t)
  PROVE  IInv'
<1>1. PICK start \in Blocks, num \in 1 .. MaxNum :
        /\ start + num <= block_count
        /\ Set(t, Asked1(start, num))
  BY Zenon DEF Request, Asked1
<1>2. num \in Nat /\ num >= 1
  BY TransferAssumption
<1>3. PICK q : q = Asked1(start, num)
  OBVIOUS
<1>4. Laid
  BY DEF IInv
<1>5. ThreadOK(q) /\ InPlace(q)
  <2>1. ThreadOK(Asked1(start, num)) /\ InPlace(Asked1(start, num))
    BY <1>1, <1>2, <1>4, RequestOK
  <2> QED
    BY <1>3, <2>1, Zenon
<1>6. Whole(q)
  <2>1. /\ q.pc = "open" /\ q.start = start /\ q.b = start /\ q.wire = <<>>
        /\ q.block_left = blocks[start].size /\ q.retry = 0
    BY <1>3 DEF Asked1, Idle
  <2>2. Lo(start) \in Nat /\ Hi(start) = Lo(start) + blocks[start].size
        /\ blocks[start].size \in Nat
    BY <1>4, BlockIs
  <2>3. Reached(q) = Lo(start)
    BY <2>1, <2>2 DEF Reached, Before
  <2>4. SubSeq(S, Lo(start) + 1, Lo(start)) = <<>>
    BY <2>2, SubSeqEmpty
  <2> QED
    BY <2>1, <2>3, <2>4 DEF Whole
<1>7. /\ Set(t, q) /\ dl.pc = "fetch" /\ UNCHANGED <<sending, short>> /\ Undone
  BY <1>1, <1>3, Zenon DEF Request, Undone
<1> QED
  BY <1>5, <1>6, <1>7, SendStep, Zenon

LEMMA SendOpenStep ==
  ASSUME IInv, NEW t \in Threads, SendOpen(t)
  PROVE  IInv'
<1>1. PICK r : r = th[t]
  OBVIOUS
<1>2. /\ Laid /\ ThreadOK(r) /\ r.pc = "open" /\ dl.pc = "fetch"
      /\ UNCHANGED <<sending, short>> /\ r \in ThreadRec
  BY <1>1 DEF IInv, Fetchers, SendOpen, ThreadOK
<1>3. /\ r.cnt \in Nat /\ r.retry \in Nat /\ r.wire \in Seq(Word) /\ 0 \in Nat
      /\ r.pc \in Walks /\ Count(r) \in Nat
  <2>1. r.pc \in Walks
    BY <1>2 DEF Walks
  <2>2. Count(r) \in 1 .. r.block_left /\ r.block_left \in Nat
    BY <1>2, <2>1, WalkAt
  <2> QED
    BY <1>2, <2>1, <2>2 DEF ThreadRec
<1>4. CASE Set(t, [r EXCEPT !.pc = "send", !.cnt = 0, !.retry = 0]) /\ UNCHANGED faults
  <2>1. PICK q : q = [r EXCEPT !.pc = "send", !.cnt = 0, !.retry = 0, !.wire = r.wire]
    OBVIOUS
  <2>2. q = [r EXCEPT !.pc = "send", !.cnt = 0, !.retry = 0]
    BY <1>2, <2>1 DEF ThreadRec
  <2>3. ThreadOK(q) /\ InPlace(q)
    <3>1. "send" \in Walks \cup {"arrived"} /\ 0 <= Count(r)
      BY <1>3 DEF Walks
    <3> QED
      BY <1>2, <1>3, <2>1, <3>1, StayOK
  <2>4. ASSUME faults = 0 PROVE Whole(q)
    <3>1. Whole(r)
      BY <1>1, <2>4 DEF IInv, Undisturbed
    <3>2. /\ q.pc = "send" /\ q.cnt = 0 /\ q.retry = 0 /\ q.wire = r.wire
          /\ q.start = r.start /\ q.b = r.b /\ q.block_left = r.block_left
      BY <1>2, <2>1 DEF ThreadRec
    <3>3. Before(r) \in Nat
      BY <1>2, <1>3, WalkAt
    <3>4. Reached(q) = Reached(r)
      <4>1. Before(q) = Before(r)
        BY <3>2 DEF Before
      <4> QED
        BY <1>2, <3>2, <3>3, <4>1 DEF Reached
    <3> QED
      BY <1>2, <3>1, <3>2, <3>4 DEF Whole, Walks
  <2> QED
    BY <1>2, <1>4, <2>2, <2>3, <2>4, SendStep, Zenon DEF Undone
<1>5. ASSUME NEW pc \in {"sent", "arrived"}, Set(t, [r EXCEPT !.pc = pc]),
             NEW kind \in EnvKinds, CanFault(kind)
      PROVE  IInv'
  <2>1. PICK q : q = [r EXCEPT !.pc = pc, !.cnt = r.cnt, !.retry = r.retry,
                        !.wire = r.wire]
    OBVIOUS
  <2>2. q = [r EXCEPT !.pc = pc]
    BY <1>2, <2>1 DEF ThreadRec
  <2>3. ThreadOK(q) /\ InPlace(q)
    <3>1. pc \in Walks \cup {"arrived"} /\ pc # "send"
      BY <1>5 DEF Walks
    <3> QED
      BY <1>2, <1>3, <2>1, <3>1, StayOK
  <2> QED
    BY <1>2, <1>5, <2>2, <2>3, SendStep, Zenon
<1>6. "event_error" \in EnvKinds /\ "open_error" \in EnvKinds
  BY DEF EnvKinds
<1> QED
  BY <1>1, <1>4, <1>5, <1>6, Zenon DEF SendOpen

(* What has been sent begins with the request and ends within the stream.  *)
LEMMA SentWithin ==
  ASSUME Laid, NEW r, ThreadOK(r), r.pc = "send", NEW n \in Nat, r.cnt + n <= Count(r)
  PROVE  /\ Lo(r.start) \in Nat /\ Before(r) + r.cnt \in Nat
         /\ Lo(r.start) <= Before(r) + r.cnt
         /\ Before(r) + r.cnt <= Before(r) + r.cnt + n
         /\ Before(r) + r.cnt + n <= N
<1>1. /\ r.start \in Blocks /\ Walking(r) /\ r.num \in Nat /\ r.cnt \in Nat
  BY DEF ThreadOK, Walks, ThreadRec
<1>2. /\ r.b \in Blocks /\ Count(r) \in 1 .. r.block_left /\ r.block_left \in Nat
      /\ Before(r) \in Nat
  BY WalkAt DEF Walks
<1>3. /\ r.start \in Nat /\ r.b \in Nat /\ blocks[r.b].size \in Nat
      /\ Hi(r.b) = Lo(r.b) + blocks[r.b].size /\ Hi(r.b) <= N /\ N \in Nat
      /\ Lo(r.b) \in Nat /\ Lo(r.start) \in Nat
  BY <1>1, <1>2, BlockIs
<1>4. r.start <= r.b /\ r.block_left <= blocks[r.b].size
      /\ Before(r) = Hi(r.b) - r.block_left
  BY <1>1, <1>2, <1>3 DEF Walking, InRequest, Before
<1>5. Lo(r.start) <= Lo(r.b)
  BY <1>3, <1>4, LoFacts
<1>6. PICK p, c, count, size \in Nat :
        p = Before(r) /\ c = r.cnt /\ count = Count(r) /\ size = blocks[r.b].size
  BY <1>1, <1>2, <1>3
<1>7. PICK lo, left, first \in Nat :
        lo = Lo(r.b) /\ left = r.block_left /\ first = Lo(r.start)
  BY <1>2, <1>3
<1>8. /\ c + n <= count /\ count <= left /\ left <= size /\ p = (lo + size) - left
      /\ first <= lo /\ lo + size <= N
  BY <1>2, <1>3, <1>4, <1>5, <1>6, <1>7
<1>9. first <= p /\ p + c \in Nat /\ p + c <= p + c + n /\ p + c + n <= N
  BY <1>3, <1>8
<1>10. first <= p + c
  BY <1>9
<1> QED
  BY <1>3, <1>6, <1>7, <1>9, <1>10

LEMMA SendFileStep ==
  ASSUME IInv, NEW t \in Threads, ev_fn_gsendfile(t)
  PROVE  IInv'
<1>1. PICK r : r = th[t]
  OBVIOUS
<1>2. /\ Laid /\ ThreadOK(r) /\ r.pc = "send" /\ dl.pc = "fetch"
      /\ UNCHANGED <<sending, short>> /\ r \in ThreadRec
  BY <1>1 DEF IInv, Fetchers, ev_fn_gsendfile, ThreadOK
<1>3. /\ r.cnt \in Nat /\ r.retry \in Nat /\ r.wire \in Seq(Word)
      /\ r.pc \in Walks /\ Count(r) \in Nat /\ r.cnt <= Count(r)
      /\ Before(r) \in Nat /\ r.f \in 1 .. file_count
  <2>1. r.pc \in Walks
    BY <1>2 DEF Walks
  <2>2. Count(r) \in 1 .. r.block_left /\ r.block_left \in Nat /\ Before(r) \in Nat
    BY <1>2, <2>1, WalkAt
  <2>3. r.cnt <= Count(r) /\ r.f \in 1 .. file_count
    BY <1>2 DEF ThreadOK
  <2> QED
    BY <1>2, <2>1, <2>2, <2>3 DEF ThreadRec
<1>4. PICK data \in Seq(Word) : data = remote[r.f]
  BY <1>3 DEF IInv, Hashing
<1>5. /\ Unsent(r) \in Seq(Word) /\ Len(Unsent(r)) <= Count(r) - r.cnt
      /\ data = Source(r.f) =>
           \A n \in 1 .. Len(Unsent(r)) :
             SubSeq(Unsent(r), 1, n)
               = SubSeq(S, Before(r) + r.cnt + 1, Before(r) + r.cnt + n)
  BY <1>2, <1>4, UnsentIs
<1>6. ASSUME NEW n \in 1 .. Len(Unsent(r)), UNCHANGED faults,
             Set(t, [r EXCEPT
               !.wire = @ \o SubSeq(Unsent(r), 1, n), !.cnt = @ + n, !.retry = 0,
               !.pc = IF r.cnt + n = Count(r) THEN "sent" ELSE "send"])
      PROVE  IInv'
  <2>1. n \in Nat /\ n >= 1 /\ r.cnt + n <= Count(r) /\ n <= Len(Unsent(r))
    <3>1. Len(Unsent(r)) \in Nat
      BY <1>5
    <3>2. n \in Nat /\ n >= 1 /\ n <= Len(Unsent(r))
      BY <3>1
    <3> QED
      BY <1>3, <1>5, <3>1, <3>2
  <2>2. SubSeq(Unsent(r), 1, n) \in Seq(Word)
    <3>1. 0 \in Nat /\ 0 <= n
      BY <2>1
    <3>2. SubSeq(Unsent(r), 0 + 1, n) \in Seq(Word)
      BY <1>5, <2>1, <3>1, PartOf
    <3> QED
      BY <3>2
  <2>3. PICK part \in Seq(Word) : part = SubSeq(Unsent(r), 1, n)
    BY <2>2
  <2>4. PICK wire \in Seq(Word) : wire = r.wire \o part
    <3>1. r.wire \in Seq(Word) /\ part \in Seq(Word)
      BY <1>3
    <3>2. r.wire \o part \in Seq(Word)
      BY <3>1, ConcatProperties, Zenon
    <3> QED
      BY <3>2
  <2>5. PICK pc \in {"send", "sent"} :
          pc = IF r.cnt + n = Count(r) THEN "sent" ELSE "send"
    OBVIOUS
  <2>6. PICK cnt \in Nat : cnt = r.cnt + n
    BY <1>3, <2>1
  <2>7. PICK q : q = [r EXCEPT !.pc = pc, !.cnt = cnt, !.retry = 0, !.wire = wire]
    OBVIOUS
  <2>8. Set(t, q)
    <3>1. q = [r EXCEPT
                 !.wire = @ \o SubSeq(Unsent(r), 1, n), !.cnt = @ + n, !.retry = 0,
                 !.pc = IF r.cnt + n = Count(r) THEN "sent" ELSE "send"]
      BY <1>2, <2>3, <2>4, <2>5, <2>6, <2>7 DEF ThreadRec
    <3> QED
      BY <1>6, <3>1, Zenon
  <2>9. ThreadOK(q) /\ InPlace(q)
    <3>1. pc \in Walks \cup {"arrived"} /\ cnt <= Count(r)
      BY <2>1, <2>6 DEF Walks
    <3> QED
      BY <1>2, <1>3, <2>7, <3>1, StayOK
  <2>10. ASSUME faults = 0 PROVE Whole(q)
    <3>1. Whole(r) /\ data = Source(r.f)
      BY <1>1, <1>3, <1>4, <2>10 DEF IInv, Undisturbed
    <3>2. /\ q.pc = pc /\ q.cnt = cnt /\ q.retry = 0 /\ q.wire = wire
          /\ q.start = r.start /\ q.b = r.b /\ q.block_left = r.block_left
          /\ q.f = r.f /\ q.off = r.off
      BY <1>2, <2>7 DEF ThreadRec
    <3>3. Before(q) = Before(r) /\ Count(q) = Count(r)
      BY <3>2 DEF Before, Count, file_left
    <3>4. Reached(q) = Before(r) + r.cnt + n
      BY <1>3, <2>1, <2>5, <2>6, <3>2, <3>3, SMTT(40) DEF Reached
    <3>5. PICK i \in Nat, j \in Nat, k \in Nat :
            i = Lo(r.start) /\ j = Before(r) + r.cnt /\ k = Before(r) + r.cnt + n
      <4>1. r.start \in Blocks
        BY <1>2 DEF ThreadOK
      <4>2. Lo(r.start) \in Nat
        BY <1>2, <4>1, BlockIs
      <4>3. PICK p \in Nat, c \in Nat, x \in Nat : p = Before(r) /\ c = r.cnt /\ x = n
        BY <1>3, <2>1
      <4>4. p + c \in Nat /\ p + c + x \in Nat
        OBVIOUS
      <4> QED
        BY <4>2, <4>3, <4>4
    <3>6. r.wire = SubSeq(S, i + 1, j)
      BY <1>2, <3>1, <3>5 DEF Whole, Reached, Walks
    <3>7. part = SubSeq(S, j + 1, k)
      BY <1>5, <2>3, <3>1, <3>5
    <3>8. i <= j /\ j <= k /\ k <= N
      <4>1. /\ Lo(r.start) <= Before(r) + r.cnt
            /\ Before(r) + r.cnt <= Before(r) + r.cnt + n
            /\ Before(r) + r.cnt + n <= N
        BY <1>2, <2>1, SentWithin
      <4> QED
        BY <3>5, <4>1
    <3>9. wire = SubSeq(S, i + 1, k)
      <4>1. PICK T : T = (1 .. file_count) \X Nat
        OBVIOUS
      <4>2. S \in Seq(T) /\ k <= Len(S)
        BY <1>2, <3>8, <4>1, Files DEF N
      <4>3. SubSeq(S, i + 1, j) \o SubSeq(S, j + 1, k) = SubSeq(S, i + 1, k)
        BY <3>8, <4>2, Joined
      <4> QED
        BY <2>4, <3>6, <3>7, <4>3
    <3> QED
      BY <3>2, <3>4, <3>5, <3>9 DEF Whole
  <2> QED
    BY <1>2, <1>6, <2>8, <2>9, <2>10, SendStep, Zenon DEF Undone
<1>7. ASSUME Set(t, [r EXCEPT !.retry = @ + 1,
                       !.pc = IF r.retry > MaxRetry THEN "arrived" ELSE "send"]),
             CanFault("send_error") \/ (r.retry > 0 /\ UNCHANGED faults)
      PROVE  IInv'
  <2>1. PICK pc \in {"send", "arrived"} :
          pc = IF r.retry > MaxRetry THEN "arrived" ELSE "send"
    OBVIOUS
  <2>2. PICK retry \in Nat : retry = r.retry + 1
    BY <1>3
  <2>3. PICK q : q = [r EXCEPT !.pc = pc, !.cnt = r.cnt, !.retry = retry,
                        !.wire = r.wire]
    OBVIOUS
  <2>4. Set(t, q)
    <3>1. q = [r EXCEPT !.retry = @ + 1,
                 !.pc = IF r.retry > MaxRetry THEN "arrived" ELSE "send"]
      BY <1>2, <2>1, <2>2, <2>3 DEF ThreadRec
    <3> QED
      BY <1>7, <3>1, Zenon
  <2>5. ThreadOK(q) /\ InPlace(q)
    <3>1. pc \in Walks \cup {"arrived"}
      BY DEF Walks
    <3> QED
      BY <1>2, <1>3, <2>3, <3>1, StayOK
  <2>6. ASSUME r.retry > 0 PROVE faults # 0
    <3> SUFFICES ASSUME faults = 0 PROVE FALSE
      OBVIOUS
    <3>1. Whole(r)
      BY <1>1 DEF IInv, Undisturbed
    <3> QED
      BY <1>3, <2>6, <3>1 DEF Whole
  <2>7. "send_error" \in EnvKinds
    BY DEF EnvKinds
  <2> QED
    BY <1>2, <1>7, <2>4, <2>5, <2>6, <2>7, SendStep, Zenon DEF Undone
<1> QED
  BY <1>1, <1>6, <1>7, Zenon DEF ev_fn_gsendfile

LEMMA SentStep ==
  ASSUME IInv, NEW t \in Threads, Sent(t)
  PROVE  IInv'
<1>1. PICK r : r = th[t]
  OBVIOUS
<1>2. /\ Laid /\ ThreadOK(r) /\ r.pc = "sent" /\ dl.pc = "fetch"
      /\ UNCHANGED <<sending, short>> /\ Undone /\ r \in ThreadRec
  BY <1>1 DEF IInv, Fetchers, Sent, ThreadOK, Undone
<1>3. PICK q : q = SentRec(r)
  OBVIOUS
<1>4. Set(t, q)
  BY <1>1, <1>3, Zenon DEF Sent, SentRec, Gone
<1>5. /\ ThreadOK(q) /\ InPlace(q) /\ q.pc \in {"open", "arrived"}
      /\ q.pc = "open" => Before(q) = Before(r) + Count(r)
      /\ q.pc = "arrived" => EndOf(r) = Before(r) + Count(r)
      /\ q.start = r.start /\ q.num = r.num /\ q.wire = r.wire
  BY <1>2, <1>3, SentOK
<1>6. ASSUME faults = 0 PROVE Whole(q)
  <2>1. Whole(r)
    BY <1>1, <1>6 DEF IInv, Undisturbed
  <2>2. r.retry = 0 /\ r.wire = SubSeq(S, Lo(r.start) + 1, Before(r) + Count(r))
    BY <1>2, <2>1 DEF Whole, Reached, Walks
  <2>3. q.retry = r.retry
    <3>1. \/ Gone(r) = AfterFile(r) \/ Gone(r) = AfterBoth(r)
          \/ Gone(r) = AfterBlock(r)
      BY DEF Gone
    <3>2. /\ AfterFile(r).retry = r.retry /\ DOMAIN AfterFile(r) = DOMAIN r
          /\ AfterBoth(r).retry = r.retry /\ DOMAIN AfterBoth(r) = DOMAIN r
          /\ AfterBlock(r).retry = r.retry /\ DOMAIN AfterBlock(r) = DOMAIN r
      BY <1>2 DEF AfterFile, AfterBoth, AfterBlock, ThreadRec
    <3>3. Gone(r).retry = r.retry /\ DOMAIN Gone(r) = DOMAIN r
      BY <3>1, <3>2
    <3>4. "retry" \in DOMAIN r
      BY <1>2 DEF ThreadRec
    <3> QED
      BY <1>3, <3>3, <3>4 DEF SentRec
  <2>4. EndOf(q) = EndOf(r)
    BY <1>5 DEF EndOf
  <2>5. Reached(q) = Before(r) + Count(r)
    BY <1>5, <2>4 DEF Reached
  <2> QED
    BY <1>5, <2>2, <2>3, <2>5 DEF Whole
<1> QED
  BY <1>2, <1>4, <1>5, <1>6, SendStep, Zenon

LEMMA CheckWhole ==
  ASSUME NEW r \in ThreadRec, NEW b
  PROVE  Whole(Check(r, b))
<1>1. Whole(Idle)
  BY DEF Whole, Idle, Walks
<1>2. ASSUME NEW f, NEW off, NEW total
      PROVE  Whole([r EXCEPT !.pc = "write", !.b = b, !.f = f, !.off = off,
                      !.total = total, !.cnt = 0])
  <2> DEFINE q == [r EXCEPT !.pc = "write", !.b = b, !.f = f, !.off = off,
                     !.total = total, !.cnt = 0]
  <2>1. q.pc = "write"
    BY DEF ThreadRec
  <2> HIDE DEF q
  <2> QED
    BY <2>1 DEF Whole, Walks, q
<1> QED
  BY <1>1, <1>2 DEF Check

LEMMA ReceiveStep ==
  ASSUME IInv, NEW t \in Threads, Receive(t)
  PROVE  IInv'
<1>1. PICK r : r = th[t]
  OBVIOUS
<1>2. /\ Laid /\ ThreadOK(r) /\ r.pc = "arrived" /\ dl.pc = "fetch"
      /\ UNCHANGED <<sending, short>> /\ Undone /\ r \in ThreadRec
  BY <1>1 DEF IInv, Fetchers, Receive, Undone, ThreadOK
<1>3. PICK q : q = Check(r, r.start)
  OBVIOUS
<1>4. ThreadOK(q) /\ InPlace(q)
  <2>1. r.start \in Nat /\ r.num \in Nat
    BY <1>2 DEF ThreadOK, ThreadRec
  <2>2. r.start \in r.start .. r.start + r.num
    BY <2>1
  <2> QED
    BY <1>2, <1>3, <2>2, CheckOK
<1>5. Set(t, q) /\ Whole(q)
  BY <1>1, <1>2, <1>3, CheckWhole, Zenon DEF Receive
<1> QED
  BY <1>2, <1>4, <1>5, SendStep, Zenon

LEMMA WritePartStep ==
  ASSUME IInv, NEW t \in Threads, WritePart(t)
  PROVE  IInv'
<1>1. PICK r : r = th[t]
  OBVIOUS
<1>2. /\ Laid /\ ThreadOK(r) /\ r.pc = "write" /\ r.total > 0 /\ dl.pc = "fetch"
      /\ UNCHANGED <<writing, dl>> /\ r \in ThreadRec
  BY <1>1 DEF IInv, Fetchers, WritePart, ThreadOK
<1>3. ASSUME NEW k \in 0 .. PartLen(r)
      PROVE  /\ ThreadOK(PartRec(r, k)) /\ Whole(PartRec(r, k))
             /\ k = PartLen(r) /\ InPlace(r) => InPlace(PartRec(r, k))
  <2>1. PartRec(r, k).pc = "write"
    BY <1>2 DEF PartRec, ThreadRec
  <2>2. Whole(PartRec(r, k))
    BY <2>1 DEF Whole, Walks
  <2> QED
    BY <1>2, <2>2, PartOK
<1>4. PartLen(r) \in Nat
  BY <1>2, PartAt
<1>5. CASE Set(t, PartRec(r, PartLen(r))) /\ UNCHANGED <<faults, short>>
  <2>1. PICK q : q = PartRec(r, PartLen(r))
    OBVIOUS
  <2>2. PartLen(r) \in 0 .. PartLen(r)
    BY <1>4
  <2>3. ThreadOK(q) /\ Whole(q) /\ (InPlace(r) => InPlace(q))
    BY <1>3, <2>1, <2>2
  <2>4. ~short => InPlace(q)
    BY <1>1, <2>3, Zenon DEF IInv, Placing
  <2> QED
    BY <1>2, <1>5, <2>1, <2>3, <2>4, ThreadStep, Zenon DEF Undone
<1>6. ASSUME CanFault("short_write"), short' = TRUE, NEW k \in 0 .. PartLen(r) - 1,
             Set(t, PartRec(r, k))
      PROVE  IInv'
  <2>1. PICK q : q = PartRec(r, k)
    OBVIOUS
  <2>2. k \in 0 .. PartLen(r)
    BY <1>4
  <2>3. ThreadOK(q)
    BY <1>3, <2>1, <2>2
  <2>4. "short_write" \in EnvKinds
    BY DEF EnvKinds
  <2> QED
    BY <1>2, <1>6, <2>1, <2>3, <2>4, ThreadStep, Zenon
<1>7. ASSUME NEW kind \in EnvKinds, CanFault(kind), Set(t, Idle), UNCHANGED short
      PROVE  IInv'
  <2>1. ThreadOK(Idle) /\ InPlace(Idle)
    BY <1>2, IdleOK
  <2> QED
    BY <1>2, <1>7, <2>1, ThreadStep, Zenon
<1>8. "open_error" \in EnvKinds /\ "write_error" \in EnvKinds
  BY DEF EnvKinds
<1>9. \/ Set(t, PartRec(r, PartLen(r))) /\ UNCHANGED <<faults, short>>
      \/ /\ CanFault("short_write") /\ short' = TRUE
         /\ \E k \in 0 .. PartLen(r) - 1 : Set(t, PartRec(r, k))
      \/ /\ CanFault("open_error") \/ CanFault("write_error")
         /\ Set(t, Idle) /\ UNCHANGED short
  BY <1>1, Zenon DEF WritePart, PartRec, PartLen
<1> QED
  BY <1>5, <1>6, <1>7, <1>8, <1>9, Zenon

LEMMA WriteDoneStep ==
  ASSUME IInv, NEW t \in Threads, WriteDone(t)
  PROVE  IInv'
<1>1. PICK r : r = th[t]
  OBVIOUS
<1>2. /\ Laid /\ ThreadOK(r) /\ r.pc = "write" /\ dl.pc = "fetch" /\ r \in ThreadRec
      /\ UNCHANGED <<job, blocks, remote, sd, digest, fs, faults, crashes, short, altered>>
  BY <1>1 DEF IInv, Fetchers, WriteDone, ThreadOK
<1>3. PICK q : q = Check(r, r.b + 1)
  OBVIOUS
<1>4. /\ r.b \in Blocks /\ r.b + 1 \in r.start .. r.start + r.num
  <2>1. /\ r.start \in Blocks /\ r.num \in Nat /\ r.start + r.num <= block_count
        /\ r.b \in r.start .. r.start + r.num - 1 /\ r.b \in Nat /\ r.start \in Nat
    BY <1>2 DEF ThreadOK, Writing, InRequest, ThreadRec
  <2>2. r.b + 1 \in r.start .. r.start + r.num
    BY <2>1
  <2>3. Blocks = 0 .. block_count - 1 /\ block_count \in Nat
    BY <1>2, Cut
  <2>4. r.b \in 0 .. block_count - 1
    BY <2>1, <2>3
  <2> QED
    BY <2>2, <2>3, <2>4
<1>5. ThreadOK(q) /\ InPlace(q) /\ Whole(q)
  BY <1>2, <1>3, <1>4, CheckOK, CheckWhole
<1>6. Set(t, q)
  BY <1>1, <1>3, Zenon DEF WriteDone
<1>7. /\ UNCHANGED <<job, blocks>> /\ UNCHANGED <<job, blocks, digest>>
      /\ UNCHANGED <<job, blocks, remote, sd, digest>>
      /\ UNCHANGED <<job, blocks, digest, short>>
      /\ UNCHANGED <<job, blocks, digest, remote, faults>>
      /\ crashes' = crashes /\ faults' = faults /\ sd' = sd
  BY <1>2
<1>8. PICK got : got = dl.got \cup {r.b}
  OBVIOUS
<1>9. dl' = [dl EXCEPT !.got = got] /\ snaps' = [snaps EXCEPT ![dl.snap] = got]
  BY <1>1, <1>8, Zenon DEF WriteDone
<1>10. /\ dl'.pc = dl.pc /\ dl'.cont = dl.cont
       /\ Process'
  <2>1. /\ dl = [pc |-> dl.pc, i |-> dl.i, names |-> dl.names, snap |-> dl.snap,
                 cont |-> dl.cont, got |-> dl.got]
        /\ got \subseteq Blocks
    BY <1>4, <1>8 DEF IInv, Process
  <2>2. /\ dl' = [pc |-> dl.pc, i |-> dl.i, names |-> dl.names, snap |-> dl.snap,
                  cont |-> dl.cont, got |-> got]
        /\ dl'.pc = dl.pc /\ dl'.i = dl.i /\ dl'.names = dl.names
        /\ dl'.snap = dl.snap /\ dl'.cont = dl.cont /\ dl'.got = got
    BY <1>9, <2>1
  <2>3. dl' = [pc |-> dl'.pc, i |-> dl'.i, names |-> dl'.names, snap |-> dl'.snap,
               cont |-> dl'.cont, got |-> dl'.got]
    BY <2>2
  <2>4. Blocks' = Blocks /\ file_count' = file_count
    BY <1>7 DEF Blocks, file_count, files
  <2>5. \A x \in DOMAIN snaps' : snaps'[x] \subseteq Blocks
    BY <1>9, <2>1 DEF IInv, Process
  <2> QED
    BY <1>7, <2>1, <2>2, <2>3, <2>4, <2>5 DEF IInv, Process
<1>11. Laid' /\ Hashing' /\ Fetchers' /\ Placing' /\ Undisturbed'
  <2>1. /\ Laid /\ Hashing /\ Fetchers /\ Placing /\ Undisturbed
        /\ (q.pc # "idle" => dl.pc = "fetch") /\ (~short => InPlace(q))
        /\ (faults = 0 => Whole(q))
    BY <1>2, <1>5 DEF IInv
  <2>2. Laid' /\ Hashing'
    BY <1>7, <2>1, LaidStays, HashingStays, Zenon
  <2>3. Fetchers'
    BY <1>5, <1>6, <1>7, <1>10, <2>1, FetchersMove, Zenon
  <2>4. Placing'
    BY <1>6, <1>7, <2>1, PlacingMoves, Zenon
  <2>5. Undisturbed'
    BY <1>6, <1>7, <2>1, UndisturbedMoves, Zenon
  <2> QED
    BY <2>2, <2>3, <2>4, <2>5
<1>12. Counters' /\ Flags'
  <2>1. Counters'
    BY <1>7 DEF IInv, Counters
  <2>2. Flags'
    BY <1>2, <1>10, Zenon DEF IInv, Flags
  <2> QED
    BY <2>1, <2>2
<1> QED
  BY <1>10, <1>11, <1>12, Zenon DEF IInv

-----------------------------------------------------------------------------
(* The other steps                                                         *)

(* Before the blocks are hashed no thread asks for any.                    *)
LEMMA AllIdle ==
  ASSUME IInv, dl.pc # "fetch"
  PROVE  \A t \in Threads : th[t].pc = "idle"
BY DEF IInv, Fetchers

(* A step that leaves the threads and the source as they are               *)
LEMMA ProcessStep ==
  ASSUME IInv, UNCHANGED unmoved, UNCHANGED th, Process', dl'.cont \in BOOLEAN,
         dl'.pc = dl.pc \/ \A t \in Threads : th[t].pc = "idle"
  PROVE  IInv'
<1>1. /\ UNCHANGED <<job, blocks>>
      /\ UNCHANGED <<job, blocks, remote, sd, digest>>
      /\ UNCHANGED <<job, blocks, digest, th>>
      /\ UNCHANGED <<job, blocks, digest, th, short>>
      /\ UNCHANGED <<job, blocks, remote, digest, th, faults>>
      /\ faults' = faults /\ crashes' = crashes
  BY DEF unmoved
<1>2. Laid /\ Hashing /\ Fetchers /\ Placing /\ Undisturbed
  BY DEF IInv
<1>3. Laid' /\ Hashing' /\ Fetchers' /\ Placing' /\ Undisturbed'
  BY <1>1, <1>2, LaidStays, HashingStays, FetchersStay, PlacingStays,
     UndisturbedStays, Zenon
<1>4. Counters'
  BY <1>1 DEF IInv, Counters
<1>5. Flags'
  <2>1. short \in BOOLEAN /\ altered \in BOOLEAN
    BY Zenon DEF IInv, Flags
  <2>2. short' = short /\ altered' = altered
    BY DEF unmoved
  <2> QED
    BY <2>1, <2>2, Zenon DEF Flags
<1> QED
  BY <1>3, <1>4, <1>5, Zenon DEF IInv

Stages == {"path", "mk", "fetch", "mode", "done", "failed"}

ProcessRec(pc, i, names, snap, cont, got) ==
  [pc |-> pc, i |-> i, names |-> names, snap |-> snap, cont |-> cont, got |-> got]

LEMMA ProcessFacts ==
  ASSUME IInv
  PROVE  /\ dl = ProcessRec(dl.pc, dl.i, dl.names, dl.snap, dl.cont, dl.got)
         /\ dl.pc \in Stages
         /\ file_count \in Nat \ {0}
         /\ dl.i \in 1 .. file_count + 1 /\ dl.got \subseteq Blocks
         /\ \A q \in DOMAIN snaps : snaps[q] \subseteq Blocks
         /\ dl.pc # "path" => sd.pc = "ready"
         /\ dl.cont \in BOOLEAN
<1>1. Laid
  BY DEF IInv
<1>2. file_count \in Nat \ {0}
  BY <1>1, Files
<1>3. dl.cont \in BOOLEAN
  BY DEF IInv, Flags
<1> QED
  BY <1>2, <1>3, Zenon DEF IInv, Process, ProcessRec, Stages

LEMMA ProcessMoves ==
  ASSUME IInv, UNCHANGED unmoved, UNCHANGED th,
         NEW pc \in Stages, NEW i \in 1 .. file_count + 1, NEW names, NEW snap,
         NEW cont, cont \in BOOLEAN, NEW got, got \subseteq Blocks,
         dl' = ProcessRec(pc, i, names, snap, cont, got),
         \A q \in DOMAIN snaps' : snaps'[q] \subseteq Blocks,
         pc # "path" => sd.pc = "ready",
         pc = dl.pc \/ \A t \in Threads : th[t].pc = "idle"
  PROVE  IInv'
<1>1. /\ dl'.pc = pc /\ dl'.i = i /\ dl'.names = names /\ dl'.snap = snap
      /\ dl'.cont = cont /\ dl'.got = got
  BY DEF ProcessRec
<1>2. Blocks' = Blocks /\ file_count' = file_count /\ sd' = sd
  BY DEF unmoved, Blocks, file_count, files
<1>3. dl' = ProcessRec(dl'.pc, dl'.i, dl'.names, dl'.snap, dl'.cont, dl'.got)
  BY <1>1, Zenon
<1>4. Process'
  BY <1>1, <1>2, <1>3, Zenon DEF Process, ProcessRec, Stages
<1>5. dl'.cont \in BOOLEAN
  BY <1>1, Zenon
<1> QED
  BY <1>1, <1>4, <1>5, ProcessStep, Zenon

(* What process_path leaves of the process                                 *)
LEMMA ProcessPathIs ==
  ASSUME ProcessPath
  PROVE  \E names, snap, found :
           /\ found \in BOOLEAN
           /\ found <=> snap \in DOMAIN snaps
           /\ dl' = IF names = Refused
                    THEN [dl EXCEPT !.pc = "failed", !.names = Refused]
                    ELSE [dl EXCEPT !.pc = "mk", !.i = 1, !.names = names,
                            !.snap = snap, !.cont = found,
                            !.got = IF found THEN snaps[snap] ELSE {}]
<1>1. PICK names, snap :
        LET found == snap \in DOMAIN snaps
        IN dl' = IF names = Refused
                 THEN [dl EXCEPT !.pc = "failed", !.names = Refused]
                 ELSE [dl EXCEPT !.pc = "mk", !.i = 1, !.names = names,
                         !.snap = snap, !.cont = found,
                         !.got = IF found THEN snaps[snap] ELSE {}]
  BY Zenon DEF ProcessPath
<1>2. CASE snap \in DOMAIN snaps
  <2>1. (snap \in DOMAIN snaps) = TRUE
    BY <1>2
  <2> QED
    BY <1>1, <1>2, <2>1
<1>3. CASE snap \notin DOMAIN snaps
  <2>1. (snap \in DOMAIN snaps) = FALSE
    BY <1>3
  <2> QED
    BY <1>1, <1>3, <2>1
<1> QED
  BY <1>2, <1>3

LEMMA ProcessPathStep ==
  ASSUME IInv, ProcessPath
  PROVE  IInv'
<1>1. /\ dl.pc = "path" /\ sd.pc = "ready" /\ UNCHANGED unmoved /\ UNCHANGED th
      /\ snaps' = snaps
  BY DEF ProcessPath
<1>2. \A t \in Threads : th[t].pc = "idle"
  BY <1>1, AllIdle
<1>3. PICK names, snap, found :
        /\ found \in BOOLEAN
        /\ found <=> snap \in DOMAIN snaps
        /\ dl' = IF names = Refused
                 THEN [dl EXCEPT !.pc = "failed", !.names = Refused]
                 ELSE [dl EXCEPT !.pc = "mk", !.i = 1, !.names = names,
                         !.snap = snap, !.cont = found,
                         !.got = IF found THEN snaps[snap] ELSE {}]
  BY ProcessPathIs
<1>4. CASE names = Refused
  <2>1. dl' = ProcessRec("failed", dl.i, Refused, dl.snap, dl.cont, dl.got)
    BY <1>3, <1>4, ProcessFacts DEF ProcessRec
  <2>2. "failed" \in Stages
    BY DEF Stages
  <2> QED
    BY <1>1, <1>2, <2>1, <2>2, ProcessFacts, ProcessMoves, Zenon
<1>5. CASE names # Refused
  <2>1. PICK got : got = IF found THEN snaps[snap] ELSE {}
    OBVIOUS
  <2>2. dl' = ProcessRec("mk", 1, names, snap, found, got)
    BY <1>3, <1>5, <2>1, ProcessFacts DEF ProcessRec
  <2>3. got \subseteq Blocks
    BY <1>3, <2>1, ProcessFacts, Zenon
  <2>4. "mk" \in Stages /\ 1 \in 1 .. file_count + 1
    BY ProcessFacts DEF Stages
  <2>5. \A q \in DOMAIN snaps' : snaps'[q] \subseteq Blocks
    BY <1>1, ProcessFacts, Zenon
  <2>6. found \in BOOLEAN
    BY <1>3
  <2> QED
    BY <1>1, <1>2, <2>2, <2>3, <2>4, <2>5, <2>6, ProcessMoves, Zenon
<1> QED
  BY <1>4, <1>5

LEMMA FailStep ==
  ASSUME IInv, Fail, dl.pc \in {"mk", "mode"}, UNCHANGED unmoved, UNCHANGED th,
         UNCHANGED snaps
  PROVE  IInv'
<1>1. dl' = ProcessRec("failed", dl.i, dl.names, dl.snap, dl.cont, dl.got)
  BY ProcessFacts DEF ProcessRec, Fail
<1>2. "failed" \in Stages /\ dl.pc # "fetch" /\ dl.pc # "path"
  BY DEF Stages
<1> QED
  BY <1>1, <1>2, AllIdle, ProcessFacts, ProcessMoves, Zenon

LEMMA MadeStep ==
  ASSUME IInv, NEW cont, cont \in BOOLEAN, Made(dl.i, cont), dl.i <= file_count,
         dl.pc \in {"mk", "mode"}, UNCHANGED unmoved, UNCHANGED th, UNCHANGED snaps
  PROVE  IInv'
<1>1. PICK i \in 1 .. file_count + 1 : i = dl.i + 1
  BY ProcessFacts
<1>2. dl' = ProcessRec(dl.pc, i, dl.names, dl.snap, cont, dl.got)
  BY <1>1, ProcessFacts DEF ProcessRec, Made
<1>3. dl.pc \in Stages /\ dl.pc # "path" /\ UNCHANGED snaps
  BY DEF Stages
<1> QED
  BY <1>2, <1>3, ProcessFacts, ProcessMoves, Zenon

LEMMA MakeStep ==
  ASSUME IInv, mk_dir_symlink_file
  PROVE  IInv'
<1>1. /\ dl.pc \in {"mk", "mode"} /\ dl.i <= file_count /\ UNCHANGED unmoved
      /\ UNCHANGED th /\ UNCHANGED snaps
  BY DEF mk_dir_symlink_file
<1>2. Fail \/ \E cont \in BOOLEAN : Made(dl.i, cont)
  <2>1. dl.cont \in BOOLEAN
    BY ProcessFacts, Zenon
  <2>2. MakeDir(dl.i) => Fail \/ Made(dl.i, dl.cont)
    BY Zenon DEF MakeDir
  <2>3. MakeLink(dl.i) => Fail \/ Made(dl.i, dl.cont)
    BY Zenon DEF MakeLink
  <2>4. MakeFile(dl.i) => Fail \/ \E cont \in BOOLEAN : Made(dl.i, cont)
    BY Zenon DEF MakeFile
  <2>5. MakeDir(dl.i) \/ MakeLink(dl.i) \/ MakeFile(dl.i)
    BY Zenon DEF mk_dir_symlink_file
  <2> QED
    BY <2>1, <2>2, <2>3, <2>4, <2>5, Zenon
<1> QED
  BY <1>1, <1>2, FailStep, MadeStep, Zenon

LEMMA ModeStep ==
  ASSUME IInv, correct_mode
  PROVE  IInv'
<1>1. /\ dl.pc \in {"mk", "mode"} /\ dl.i <= file_count /\ UNCHANGED unmoved
      /\ UNCHANGED th /\ UNCHANGED snaps
  BY DEF correct_mode
<1>2. Fail \/ Made(dl.i, dl.cont)
  BY Zenon DEF correct_mode
<1>3. dl.cont \in BOOLEAN
  BY ProcessFacts, Zenon
<1> QED
  BY <1>1, <1>2, <1>3, FailStep, MadeStep, Zenon

LEMMA StartFetchStep ==
  ASSUME IInv, StartFetch
  PROVE  IInv'
<1>1. dl.pc = "mk" /\ UNCHANGED unmoved /\ UNCHANGED th
  BY DEF StartFetch
<1>2. PICK got : got = IF dl.cont THEN dl.got ELSE {}
  OBVIOUS
<1>3. /\ dl' = [dl EXCEPT !.pc = "fetch", !.got = got]
      /\ snaps' = [q \in DOMAIN snaps \cup {dl.snap} |->
                     IF q = dl.snap THEN got ELSE snaps[q]]
  BY <1>2, Zenon DEF StartFetch
<1>4. dl' = ProcessRec("fetch", dl.i, dl.names, dl.snap, dl.cont, got)
  BY <1>3, ProcessFacts DEF ProcessRec
<1>5. got \subseteq Blocks
  BY <1>2, ProcessFacts, Zenon
<1>6. \A q \in DOMAIN snaps' : snaps'[q] \subseteq Blocks
  <2>1. \A q \in DOMAIN snaps : snaps[q] \subseteq Blocks
    BY ProcessFacts
  <2> QED
    BY <1>3, <1>5, <2>1
<1>7. "fetch" \in Stages /\ dl.pc # "path" /\ dl.pc # "fetch"
  BY <1>1 DEF Stages
<1> QED
  BY <1>1, <1>4, <1>5, <1>6, <1>7, AllIdle, ProcessFacts, ProcessMoves, Zenon

LEMMA EndFetchStep ==
  ASSUME IInv, EndFetch
  PROVE  IInv'
<1>1. /\ dl.pc # "path" /\ UNCHANGED unmoved /\ UNCHANGED th /\ UNCHANGED snaps
      /\ \A t \in Threads : th[t].pc = "idle"
  BY DEF EndFetch
<1>2. dl' = ProcessRec("mode", 1, dl.names, dl.snap, dl.cont, dl.got)
  BY ProcessFacts DEF ProcessRec, EndFetch
<1>3. "mode" \in Stages /\ 1 \in 1 .. file_count + 1
  BY ProcessFacts DEF Stages
<1> QED
  BY <1>1, <1>2, <1>3, ProcessFacts, ProcessMoves, Zenon

LEMMA FinishStep ==
  ASSUME IInv, Finish
  PROVE  IInv'
<1>1. /\ dl.pc # "path" /\ dl.pc # "fetch" /\ UNCHANGED unmoved /\ UNCHANGED th
      /\ UNCHANGED snaps
  BY DEF Finish
<1>2. dl' = ProcessRec("done", dl.i, dl.names, dl.snap, dl.cont, dl.got)
  BY ProcessFacts DEF ProcessRec, Finish
<1>3. "done" \in Stages
  BY DEF Stages
<1> QED
  BY <1>1, <1>2, <1>3, AllIdle, ProcessFacts, ProcessMoves, Zenon

-----------------------------------------------------------------------------
(* The source hashes, is changed; the process is killed                    *)

HashRec(pc, b, f, fd, off, val, left) ==
  [pc |-> pc, b |-> b, f |-> f, fd |-> fd, off |-> off, val |-> val, left |-> left]

LEMMA HashFacts ==
  ASSUME IInv
  PROVE  /\ sd = HashRec(sd.pc, sd.b, sd.f, sd.fd, sd.off, sd.val, sd.left)
         /\ sd.pc \in {"read", "ready", "stuck"}
         /\ sd.b \in Nat /\ sd.left \in Nat /\ sd.off \in Nat
         /\ sd.fd = NoFd \/ sd.fd \in 1 .. file_count
         /\ remote \in [1 .. file_count -> Seq(Word)]
         /\ digest = [b \in Blocks |-> digest[b]]
         /\ sd.pc # "ready" => dl.pc = "path"
<1>1. /\ sd = HashRec(sd.pc, sd.b, sd.f, sd.fd, sd.off, sd.val, sd.left)
      /\ sd.pc \in {"read", "ready", "stuck"}
      /\ sd.b \in Nat /\ sd.left \in Nat /\ sd.off \in Nat
      /\ sd.fd = NoFd \/ sd.fd \in 1 .. file_count
      /\ remote \in [1 .. file_count -> Seq(Word)]
      /\ digest = [b \in Blocks |-> digest[b]]
  BY Zenon DEF IInv, Hashing, HashRec
<1>2. sd.pc # "ready" => dl.pc = "path"
  BY Zenon DEF IInv, Process
<1> QED
  BY <1>1, <1>2

LEMMA OpenToHashIs ==
  ASSUME Laid, NEW f
  PROVE  OpenToHash(f) = NoFd \/ OpenToHash(f) \in 1 .. file_count
<1>1. Regular \subseteq 1 .. file_count
  BY Files DEF Regular
<1> QED
  BY <1>1 DEF OpenToHash

LEMMA HashBlockIs ==
  ASSUME Laid, NEW b \in Nat
  PROVE  \E f, fd, val :
           \E pc \in {"read", "ready"}, i \in Nat, off \in Nat, left \in Nat :
             /\ HashBlock(b) = HashRec(pc, i, f, fd, off, val, left)
             /\ fd = NoFd \/ fd \in 1 .. file_count
<1>1. CASE b \in Blocks
  <2>1. /\ blocks[b].size \in 1 .. BLOCK_SIZE /\ Lo(b) \in Nat /\ Hi(b) \in 1 .. N
        /\ S[Lo(b) + 1] = <<blocks[b].start_f, blocks[b].start_off>>
    BY <1>1, Cut
  <2>2. blocks[b].size \in Nat
    BY <2>1, TransferAssumption
  <2>3. blocks[b].start_off \in Nat
    <3>1. Hi(b) = Lo(b) + blocks[b].size /\ N \in Nat
      BY <2>1, Files DEF Hi
    <3>2. PICK p \in 1 .. N : p = Lo(b) + 1
      BY <2>1, <2>2, <3>1
    <3>3. S[p] = <<blocks[b].start_f, blocks[b].start_off>>
      BY <2>1, <3>2
    <3>4. S[p][2] \in Nat
      BY StreamAt
    <3> QED
      BY <3>3, <3>4
  <2>4. HashBlock(b) =
          HashRec("read", b, blocks[b].start_f, OpenToHash(blocks[b].start_f),
                  blocks[b].start_off, <<>>, blocks[b].size)
    BY <1>1 DEF HashBlock, HashRec
  <2>5. "read" \in {"read", "ready"}
    OBVIOUS
  <2>6. \/ OpenToHash(blocks[b].start_f) = NoFd
        \/ OpenToHash(blocks[b].start_f) \in 1 .. file_count
    BY OpenToHashIs, Zenon
  <2> QED
    BY <2>2, <2>3, <2>4, <2>5, <2>6, Zenon
<1>2. CASE b \notin Blocks
  <2>1. HashBlock(b) = HashRec("ready", 0, 0, NoFd, 0, <<>>, 0)
    BY <1>2 DEF HashBlock, HashRec
  <2>2. 0 \in Nat /\ "ready" \in {"read", "ready"}
    OBVIOUS
  <2> QED
    BY <2>1, <2>2, Zenon
<1> QED
  BY <1>1, <1>2

(* While the source hashes no thread asks for a block, and a thread that   *)
(* is idle is well whatever the hashes.                                    *)
LEMMA IdleStays ==
  ASSUME Fetchers, \A t \in Threads : th[t].pc = "idle",
         UNCHANGED <<job, blocks, th>>
  PROVE  Fetchers' /\ Placing' /\ \A t \in Threads : Whole(th[t])'
<1>1. ASSUME NEW t \in Threads
      PROVE  ThreadOK(th[t])' /\ InPlace(th[t])' /\ Whole(th[t])'
  <2>1. PICK r : r = th[t]
    OBVIOUS
  <2>2. th'[t] = r /\ ThreadOK(r) /\ r.pc = "idle"
    BY <2>1, Zenon DEF Fetchers
  <2>3. file_count' = file_count /\ Blocks' = Blocks
    BY DEF file_count, files, Blocks
  <2>4. ThreadOK(th[t])'
    BY <2>2, <2>3, Zenon DEF ThreadOK, Walks
  <2>5. InPlace(th[t])'
    BY <2>2 DEF InPlace
  <2>6. Whole(th[t])'
    BY <2>2 DEF Whole, Walks
  <2> QED
    BY <2>4, <2>5, <2>6
<1>2. th' = [t \in Threads |-> th'[t]] /\ \A t \in Threads : th'[t].pc = "idle"
  BY DEF Fetchers
<1> QED
  BY <1>1, <1>2, Zenon DEF Fetchers, Placing

LEMMA HashMoves ==
  ASSUME IInv, sd.pc = "read",
         UNCHANGED <<job, blocks, remote, dl, fs, snaps, th, faults, crashes,
                     short, altered>>,
         NEW pc \in {"read", "ready", "stuck"}, NEW b \in Nat, NEW f, NEW fd,
         fd = NoFd \/ fd \in 1 .. file_count, NEW off \in Nat, NEW val,
         NEW left \in Nat, sd' = HashRec(pc, b, f, fd, off, val, left),
         digest' = [c \in Blocks |-> digest'[c]]
  PROVE  IInv'
<1>1. dl.pc = "path" /\ \A t \in Threads : th[t].pc = "idle"
  <2>1. dl.pc = "path"
    BY HashFacts
  <2> QED
    BY <2>1, AllIdle
<1>2. /\ UNCHANGED <<job, blocks>> /\ UNCHANGED <<job, blocks, th>>
      /\ UNCHANGED <<dl, snaps>> /\ remote' = remote /\ faults' = faults
      /\ crashes' = crashes /\ short' = short /\ altered' = altered /\ dl' = dl
      /\ snaps' = snaps
  OBVIOUS
<1>3. Blocks' = Blocks /\ file_count' = file_count
  BY DEF Blocks, file_count, files
<1>4. Laid'
  BY <1>2, LaidStays, Zenon DEF IInv
<1>5. Fetchers' /\ Placing' /\ \A t \in Threads : Whole(th[t])'
  BY <1>1, <1>2, IdleStays, Zenon DEF IInv
<1>6. Hashing'
  <2>1. /\ sd'.pc = pc /\ sd'.b = b /\ sd'.f = f /\ sd'.fd = fd /\ sd'.off = off
        /\ sd'.val = val /\ sd'.left = left
    BY DEF HashRec
  <2>2. sd' = HashRec(sd'.pc, sd'.b, sd'.f, sd'.fd, sd'.off, sd'.val, sd'.left)
    BY <2>1, Zenon
  <2>3. remote' \in [1 .. file_count' -> Seq(Word)]
    BY <1>2, <1>3, HashFacts, Zenon
  <2>4. NoFd' = NoFd
    BY DEF NoFd
  <2> QED
    BY <1>3, <2>1, <2>2, <2>3, <2>4, Zenon DEF Hashing, HashRec
<1>7. Process'
  BY <1>1, <1>2, <1>3, Zenon DEF IInv, Process
<1>8. Undisturbed'
  <2>1. ASSUME \A g \in 1 .. file_count : remote[g] = Source(g)
        PROVE  (\A g \in 1 .. file_count : remote[g] = Source(g))'
    BY <1>2, <1>3, <2>1 DEF Source, files
  <2> QED
    BY <1>2, <1>5, <2>1, Zenon DEF IInv, Undisturbed
<1>9. Counters' /\ Flags'
  <2>1. Counters'
    BY <1>2 DEF IInv, Counters
  <2>2. Flags'
    BY <1>2, Zenon DEF IInv, Flags
  <2> QED
    BY <2>1, <2>2
<1> QED
  BY <1>4, <1>5, <1>6, <1>7, <1>8, <1>9, Zenon DEF IInv

LEMMA HashStep ==
  ASSUME IInv, xor_hash_block
  PROVE  IInv'
<1>1. /\ sd.pc = "read" /\ Laid
      /\ UNCHANGED <<job, blocks, remote, dl, fs, snaps, th, faults, crashes,
                     short, altered>>
  BY DEF xor_hash_block, HashFails, HashRead, HashDone, IInv
<1>2. CASE HashFails
  <2>1. /\ sd' = HashRec("stuck", sd.b, sd.f, sd.fd, sd.off, sd.val, sd.left)
        /\ digest' = digest
    BY <1>2, HashFacts DEF HashFails, HashRec
  <2>2. "stuck" \in {"read", "ready", "stuck"}
    OBVIOUS
  <2>3. digest' = [c \in Blocks |-> digest'[c]]
    BY <2>1, HashFacts
  <2> QED
    BY <1>1, <2>1, <2>2, <2>3, HashFacts, HashMoves, Zenon
<1>3. CASE HashRead
  <2>1. /\ sd.fd \in 1 .. file_count /\ digest' = digest
        /\ sd.off \in Nat /\ sd.left \in Nat
    BY <1>3, HashFacts DEF HashRead
  <2>2. PICK data \in Seq(Word) : data = remote[sd.fd]
    BY <2>1, HashFacts
  <2>3. PICK got : got = Pread(data, sd.off, sd.left)
    OBVIOUS
  <2>4. got \in Seq(Word) /\ Len(got) <= sd.left
    BY <2>1, <2>3, PreadIs
  <2>5. PICK n \in Nat : n = Len(got) /\ n <= sd.left
    BY <2>4
  <2>6. digest' = [c \in Blocks |-> digest'[c]]
    BY <2>1, HashFacts
  <2>7. CASE got # <<>>
    <3>1. PICK left \in Nat, off \in Nat : left = sd.left - n /\ off = sd.off + n
      BY <2>1, <2>5
    <3>2. PICK val : val = sd.val \o got
      OBVIOUS
    <3>3. sd' = [sd EXCEPT !.val = val, !.left = left, !.off = off]
      <4>1. sd' = [sd EXCEPT !.val = @ \o got, !.left = @ - Len(got),
                     !.off = @ + Len(got)]
        BY <1>3, <2>2, <2>3, <2>7, Zenon DEF HashRead
      <4>2. sd = HashRec(sd.pc, sd.b, sd.f, sd.fd, sd.off, sd.val, sd.left)
        BY HashFacts
      <4> QED
        BY <2>5, <3>1, <3>2, <4>1, <4>2 DEF HashRec
    <3>4. sd' = HashRec(sd.pc, sd.b, sd.f, sd.fd, off, val, left)
      BY <3>3, HashFacts DEF HashRec
    <3> QED
      BY <1>1, <2>6, <3>4, HashFacts, HashMoves, Zenon
  <2>8. CASE got = <<>>
    <3>1. PICK f, fd : /\ fd = NoFd \/ fd \in 1 .. file_count
                       /\ sd' = [sd EXCEPT !.f = f, !.off = 0, !.fd = fd]
      <4>1. sd' = LET f == next_f(sd.f)
                  IN [sd EXCEPT !.f = f, !.off = 0,
                        !.fd = OpenToHash(blocks[sd.b].start_f + f - 1)]
        BY <1>3, <2>2, <2>3, <2>8, Zenon DEF HashRead
      <4> QED
        BY <1>1, <4>1, OpenToHashIs, Zenon
    <3>2. sd' = HashRec(sd.pc, sd.b, f, fd, 0, sd.val, sd.left)
      BY <3>1, HashFacts DEF HashRec
    <3>3. 0 \in Nat
      OBVIOUS
    <3>4. fd = NoFd \/ fd \in 1 .. file_count
      BY <3>1, Zenon
    <3>5. sd.pc \in {"read", "ready", "stuck"} /\ sd.b \in Nat /\ sd.left \in Nat
      BY HashFacts
    <3> QED
      BY <1>1, <2>6, <3>2, <3>3, <3>4, <3>5, HashMoves, Zenon
  <2> QED
    BY <2>7, <2>8
<1>4. CASE HashDone
  <2>1. PICK b \in Nat : b = sd.b + 1
    BY HashFacts
  <2>2. sd' = HashBlock(b) /\ digest' = [digest EXCEPT ![sd.b] = sd.val]
    BY <1>4, <2>1 DEF HashDone
  <2>3. PICK f, fd, val :
          \E pc \in {"read", "ready"}, i \in Nat, off \in Nat, left \in Nat :
            /\ sd' = HashRec(pc, i, f, fd, off, val, left)
            /\ fd = NoFd \/ fd \in 1 .. file_count
    BY <1>1, <2>2, HashBlockIs, Zenon
  <2>4. PICK pc \in {"read", "ready"}, i \in Nat, off \in Nat, left \in Nat :
          /\ sd' = HashRec(pc, i, f, fd, off, val, left)
          /\ fd = NoFd \/ fd \in 1 .. file_count
    BY <2>3
  <2>5. digest' = [c \in Blocks |-> digest'[c]]
    BY <2>2, HashFacts
  <2>6. pc \in {"read", "ready", "stuck"}
    BY <2>4
  <2> QED
    BY <1>1, <2>4, <2>5, <2>6, HashMoves, Zenon
<1> QED
  BY <1>2, <1>3, <1>4 DEF xor_hash_block

LEMMA SourceIs ==
  ASSUME Laid, NEW f \in 1 .. file_count
  PROVE  Source(f) \in Seq(Word)
<1>1. files[f].size \in Int /\ f \in Nat
  BY Files
<1>2. PICK n \in Nat : n = Max({files[f].size, 0})
  <2>1. Max({files[f].size, 0}) \in {files[f].size, 0}
        /\ Max({files[f].size, 0}) >= 0
    BY <1>1 DEF Max
  <2> QED
    BY <1>1, <2>1
<1>3. \A o \in 1 .. n : <<f, o - 1>> \in Word
  BY <1>1, <1>2 DEF Word
<1>4. Source(f) = [o \in 1 .. n |-> <<f, o - 1>>]
  BY <1>2 DEF Source, FileBytes
<1> QED
  BY <1>3, <1>4

LEMMA ChangedIs ==
  ASSUME NEW T, NEW data \in Seq(T), data[1] \in T, Len(data) \in Nat \ {0},
         NEW byte \in T
  PROVE  [data EXCEPT ![1] = byte] \in Seq(T)
<1>1. PICK n \in Nat : n = Len(data)
  OBVIOUS
<1>2. data \in [1 .. n -> T]
  BY <1>1
<1>3. [data EXCEPT ![1] = byte] \in [1 .. n -> T]
  BY <1>2
<1> QED
  BY <1>3

LEMMA CrashStep ==
  ASSUME IInv, Crash
  PROVE  IInv'
<1>1. /\ dl.pc # "path"
      /\ UNCHANGED <<job, blocks, remote, sd, digest, fs, snaps, faults, short, altered>>
      /\ crashes < MaxCrashes /\ crashes' = crashes + 1
      /\ th' = [t \in Threads |-> Idle]
  BY DEF Crash
<1>2. dl' = ProcessRec("path", 1, dl.names, dl.snap, FALSE, {})
  BY ProcessFacts DEF Crash, ProcessRec
<1>3. /\ dl'.pc = "path" /\ dl'.i = 1 /\ dl'.cont = FALSE /\ dl'.got = {}
      /\ dl' = ProcessRec(dl'.pc, dl'.i, dl'.names, dl'.snap, dl'.cont, dl'.got)
  BY <1>2 DEF ProcessRec
<1>4. /\ UNCHANGED <<job, blocks>> /\ UNCHANGED <<job, blocks, digest>>
      /\ UNCHANGED <<job, blocks, remote, sd, digest>>
      /\ Blocks' = Blocks /\ file_count' = file_count /\ snaps' = snaps
      /\ remote' = remote /\ faults' = faults
  BY <1>1 DEF Blocks, file_count, files
<1>5. Laid' /\ Hashing'
  BY <1>4, LaidStays, HashingStays, Zenon DEF IInv
<1>6. Process'
  <2>1. \A q \in DOMAIN snaps' : snaps'[q] \subseteq Blocks'
    BY <1>4, ProcessFacts, Zenon
  <2>2. dl'.pc \in Stages /\ dl'.i \in 1 .. file_count' + 1 /\ dl'.got \subseteq Blocks'
    BY <1>3, <1>4, ProcessFacts DEF Stages
  <2> QED
    BY <1>3, <2>1, <2>2, Zenon DEF Process, ProcessRec, Stages
<1>7. ASSUME NEW t \in Threads
      PROVE  ThreadOK(th[t])' /\ InPlace(th[t])' /\ Whole(th[t])' /\ th'[t].pc = "idle"
  <2>1. PICK r : r = Idle
    OBVIOUS
  <2>2. ThreadOK(r) /\ InPlace(r)
    BY <2>1, IdleOK DEF IInv
  <2>3. Whole(r) /\ r.pc = "idle"
    BY <2>1 DEF Whole, Idle, Walks
  <2>4. th'[t] = r
    BY <1>1, <2>1
  <2> QED
    BY <1>4, <2>2, <2>3, <2>4, KeptThread, Zenon
<1>8. Fetchers'
  <2>1. th' = [t \in Threads |-> th'[t]]
    BY <1>1
  <2> QED
    BY <1>7, <2>1, Zenon DEF Fetchers
<1>9. Placing'
  BY <1>7, Zenon DEF Placing
<1>10. Undisturbed'
  <2>1. ASSUME \A f \in 1 .. file_count : remote[f] = Source(f)
        PROVE  (\A f \in 1 .. file_count : remote[f] = Source(f))'
    BY <1>4, <2>1 DEF Source, files
  <2> QED
    BY <1>4, <1>7, <2>1, Zenon DEF IInv, Undisturbed
<1>11. Counters'
  BY <1>1, TransferAssumption DEF IInv, Counters
<1>12. Flags'
  <2>1. FALSE \in BOOLEAN
    OBVIOUS
  <2>2. short' = short /\ altered' = altered
    BY <1>1
  <2> QED
    BY <1>3, <2>1, <2>2, Zenon DEF IInv, Flags
<1> QED
  BY <1>5, <1>6, <1>8, <1>9, <1>10, <1>11, <1>12, Zenon DEF IInv

LEMMA AlterStep ==
  ASSUME IInv, Alter
  PROVE  IInv'
<1>1. /\ UNCHANGED <<job, blocks, sd, digest, dl, fs, snaps, th, crashes, short>>
      /\ altered' = TRUE
  BY DEF Alter
<1>2. PICK f \in Regular :
        /\ remote[f] # <<>>
        /\ \/ /\ CanFault("alter")
              /\ remote' = [remote EXCEPT ![f][1] = Append(@, "new")]
           \/ CanFault("shrink") /\ remote' = [remote EXCEPT ![f] = Front(@)]
  BY Zenon DEF Alter
<1>3. /\ f \in 1 .. file_count /\ remote \in [1 .. file_count -> Seq(Word)]
  <2>1. Regular \subseteq 1 .. file_count
    BY Files DEF Regular, IInv
  <2> QED
    BY <2>1, HashFacts
<1>4. PICK data \in Seq(Word) : data = remote[f]
  BY <1>3
<1>5. data # <<>>
  BY <1>2, <1>4
<1>6. Len(data) \in Nat \ {0} /\ data[1] \in Word
  BY <1>4, <1>5
<1>7. PICK new \in Seq(Word) : remote' = [remote EXCEPT ![f] = new]
  <2>1. CASE remote' = [remote EXCEPT ![f][1] = Append(@, "new")]
    <3>1. PICK byte \in Word : byte = Append(data[1], "new")
      <4>1. data[1] \in Seq(Nat \cup {"new"})
        BY <1>6 DEF Word
      <4>2. Append(data[1], "new") \in Seq(Nat \cup {"new"})
        BY <4>1
      <4> QED
        BY <4>2 DEF Word
    <3>2. PICK new \in Seq(Word) : new = [data EXCEPT ![1] = byte]
      BY <1>4, <1>6, <3>1, ChangedIs, Zenon
    <3>3. remote' = [remote EXCEPT ![f] = new]
      BY <1>3, <1>4, <2>1, <3>1, <3>2
    <3> QED
      BY <3>3
  <2>2. CASE remote' = [remote EXCEPT ![f] = Front(@)]
    <3>1. PICK n \in Nat : n = Len(data) - 1
      BY <1>6
    <3>2. SubSeq(data, 0 + 1, n) \in Seq(Word)
      BY <1>4, <1>6, <3>1, PartOf
    <3>3. SubSeq(data, 1, n) \in Seq(Word)
      BY <3>2
    <3>4. PICK new \in Seq(Word) : new = SubSeq(data, 1, n)
      BY <3>3
    <3>5. remote' = [remote EXCEPT ![f] = new]
      BY <1>4, <2>2, <3>1, <3>4 DEF Front
    <3> QED
      BY <3>5
  <2> QED
    BY <1>2, <2>1, <2>2
<1>8. /\ UNCHANGED <<job, blocks>> /\ UNCHANGED <<job, blocks, digest, th>>
      /\ UNCHANGED <<job, blocks, digest, th, short>>
      /\ UNCHANGED <<job, blocks, sd, dl, snaps>>
      /\ dl'.pc = dl.pc /\ crashes' = crashes /\ sd' = sd /\ digest' = digest
      /\ Blocks' = Blocks /\ file_count' = file_count /\ dl' = dl /\ short' = short
  BY <1>1 DEF Blocks, file_count, files
<1>9. Laid' /\ Process' /\ Fetchers' /\ Placing'
  BY <1>8, LaidStays, ProcessStays, FetchersStay, PlacingStays, Zenon DEF IInv
<1>10. Hashing'
  <2>1. remote' \in [1 .. file_count' -> Seq(Word)]
    BY <1>3, <1>7, <1>8
  <2> QED
    BY <1>8, <2>1, Zenon DEF IInv, Hashing
<1>11. Counters' /\ Undisturbed'
  <2>1. Counters
    BY DEF IInv
  <2> QED
    BY <1>2, <1>8, <2>1, Disturbed, Zenon
<1>12. Flags'
  <2>1. TRUE \in BOOLEAN
    OBVIOUS
  <2> QED
    BY <1>1, <1>8, <2>1, Zenon DEF IInv, Flags
<1> QED
  BY <1>9, <1>10, <1>11, <1>12, Zenon DEF IInv

-----------------------------------------------------------------------------
(* The invariant holds.                                                    *)

LEMMA InitIInv ==
  ASSUME Init
  PROVE  IInv
<1>1. Laid /\ th = [t \in Threads |-> Idle]
  BY DEF Init, Laid
<1>2. dl = ProcessRec("path", 1, Refused, <<>>, FALSE, {})
  BY DEF Init, ProcessRec
<1>3. /\ dl.pc = "path" /\ dl.i = 1 /\ dl.cont = FALSE /\ dl.got = {}
      /\ dl = ProcessRec(dl.pc, dl.i, dl.names, dl.snap, dl.cont, dl.got)
  BY <1>2 DEF ProcessRec
<1>4. remote = [f \in 1 .. file_count |-> Source(f)]
  BY <1>1, Files DEF Init
<1>5. Hashing
  <2>1. PICK b \in Nat : sd = HashBlock(b)
    <3>1. 0 \in Nat /\ block_count \in Nat
      BY <1>1, Cut
    <3> QED
      BY <3>1, Zenon DEF Init
  <2>2. PICK f, fd, val :
          \E pc \in {"read", "ready"}, i \in Nat, off \in Nat, left \in Nat :
            /\ sd = HashRec(pc, i, f, fd, off, val, left)
            /\ fd = NoFd \/ fd \in 1 .. file_count
    BY <1>1, <2>1, HashBlockIs, Zenon
  <2>3. PICK pc \in {"read", "ready"}, i \in Nat, off \in Nat, left \in Nat :
          /\ sd = HashRec(pc, i, f, fd, off, val, left)
          /\ fd = NoFd \/ fd \in 1 .. file_count
    BY <2>2
  <2>4. /\ sd.pc = pc /\ sd.b = i /\ sd.f = f /\ sd.fd = fd /\ sd.off = off
        /\ sd.val = val /\ sd.left = left
    BY <2>3 DEF HashRec
  <2>5. sd = HashRec(sd.pc, sd.b, sd.f, sd.fd, sd.off, sd.val, sd.left)
    BY <2>3, <2>4, Zenon
  <2>6. remote \in [1 .. file_count -> Seq(Word)]
    BY <1>1, <1>4, SourceIs
  <2>7. digest = [b2 \in Blocks |-> digest[b2]]
    BY DEF Init
  <2>8. sd.pc \in {"read", "ready", "stuck"}
    BY <2>4
  <2> QED
    BY <2>3, <2>4, <2>5, <2>6, <2>7, <2>8, Zenon DEF Hashing, HashRec
<1>6. Process
  <2>1. dl.pc \in Stages /\ dl.i \in 1 .. file_count + 1 /\ dl.got \subseteq Blocks
    BY <1>1, <1>3, Files DEF Stages
  <2>2. \A q \in DOMAIN snaps : snaps[q] \subseteq Blocks
    BY DEF Init
  <2> QED
    BY <1>3, <2>1, <2>2, Zenon DEF Process, ProcessRec, Stages
<1>7. ASSUME NEW t \in Threads
      PROVE  ThreadOK(th[t]) /\ InPlace(th[t]) /\ Whole(th[t]) /\ th[t].pc = "idle"
  <2>1. th[t] = Idle
    BY <1>1
  <2>2. ThreadOK(Idle) /\ InPlace(Idle)
    BY <1>1, IdleOK
  <2>3. Whole(Idle) /\ Idle.pc = "idle"
    BY DEF Whole, Idle, Walks
  <2> QED
    BY <2>1, <2>2, <2>3, Zenon
<1>8. Fetchers
  <2>1. th = [t \in Threads |-> th[t]]
    BY <1>1
  <2> QED
    BY <1>7, <2>1, Zenon DEF Fetchers
<1>9. Placing /\ Undisturbed
  BY <1>4, <1>7 DEF Placing, Undisturbed
<1>10. Counters
  BY TransferAssumption DEF Init, Counters
<1>11. Flags
  <2>1. FALSE \in BOOLEAN
    OBVIOUS
  <2>2. short = FALSE /\ altered = FALSE
    BY DEF Init
  <2> QED
    BY <1>3, <2>1, <2>2, Zenon DEF Flags
<1> QED
  BY <1>1, <1>5, <1>6, <1>8, <1>9, <1>10, <1>11 DEF IInv

LEMMA StutterStep ==
  ASSUME IInv, UNCHANGED vars
  PROVE  IInv'
<1>1. UNCHANGED unmoved /\ UNCHANGED th /\ UNCHANGED <<job, blocks, sd, dl, snaps>>
  BY DEF vars, unmoved
<1>2. Process'
  BY <1>1, ProcessStays, Zenon DEF IInv
<1>3. dl' = dl /\ dl.cont \in BOOLEAN
  BY <1>1, ProcessFacts
<1> QED
  BY <1>1, <1>2, <1>3, ProcessStep, Zenon

LEMMA NextIInv ==
  ASSUME IInv, [Next]_vars
  PROVE  IInv'
<1>1. CASE xor_hash_block
  BY <1>1, HashStep
<1>2. CASE ProcessPath
  BY <1>2, ProcessPathStep
<1>3. CASE OnItsWay
  BY <1>3, MakeStep, StartFetchStep, EndFetchStep, ModeStep, FinishStep DEF OnItsWay
<1>4. ASSUME NEW t \in Threads, Fetching(t)
      PROVE  IInv'
  BY <1>4, RequestStep, SendOpenStep, SendFileStep, SentStep, ReceiveStep,
     WritePartStep, WriteDoneStep, Zenon DEF Fetching, sendblocks, writeblock
<1>5. CASE Crash
  BY <1>5, CrashStep
<1>6. CASE Alter
  BY <1>6, AlterStep
<1>7. CASE UNCHANGED vars
  BY <1>7, StutterStep
<1> QED
  BY <1>1, <1>2, <1>3, <1>4, <1>5, <1>6, <1>7, Zenon DEF Next

(* Every walk of a request or a write is where its file, its offset, its   *)
(* block and its counters say in the bytes of the job (sendblocks,         *)
(* writeblock), a block that is written has passed digest_ok, the source   *)
(* reads from files of the job, and blocks that count as done are its own. *)
THEOREM TransferInvariant == Spec => []IInv
<1>1. Init => IInv
  BY InitIInv
<1>2. IInv /\ [Next]_vars => IInv'
  BY NextIInv
<1> QED
  BY <1>1, <1>2, PTL DEF Spec

(* The source hashes blocks of the job and reads from its files only, the  *)
(* process counts blocks of the job as done, and a thread is at a file and *)
(* a block of it, however it has been refused, cut short or killed.        *)
THEOREM TransferTypeOK == Spec => []TypeOK
<1>1. IInv => TypeOK
  <2> SUFFICES ASSUME IInv PROVE TypeOK
    OBVIOUS
  <2>1. job \in Cases /\ faults \in 0 .. MaxFaults /\ crashes \in 0 .. MaxCrashes
    BY DEF IInv, Laid, Counters
  <2>2. /\ sd.pc \in {"read", "ready", "stuck"} /\ sd.b \in Nat /\ sd.left \in Nat
        /\ DOMAIN digest = Blocks
    BY HashFacts
  <2>3. /\ dl.pc \in {"path", "mk", "fetch", "mode", "done", "failed"}
        /\ dl.i \in 1 .. file_count + 1 /\ dl.got \subseteq Blocks
    BY ProcessFacts DEF Stages
  <2>4. ASSUME NEW t \in Threads
        PROVE  /\ th[t].pc \in {"idle", "open", "send", "sent", "arrived", "write"}
               /\ th[t].f \in DOMAIN files /\ th[t].b \in Blocks \cup {0}
               /\ \A x \in {"off", "block_left", "total", "cnt", "retry"} :
                    th[t][x] \in Nat
    <3>1. ThreadOK(th[t]) /\ DOMAIN files = 1 .. file_count
      BY Files DEF IInv, Fetchers
    <3> QED
      BY <3>1 DEF ThreadOK, ThreadRec, Walks
  <2>5. dl.cont \in BOOLEAN /\ short \in BOOLEAN /\ altered \in BOOLEAN
    BY Zenon DEF IInv, Flags
  <2> QED
    BY <2>1, <2>2, <2>3, <2>4, <2>5, Zenon DEF TypeOK
<1> QED
  BY <1>1, TransferInvariant, PTL

(* As long as no call has failed and no file has changed, a request brings *)
(* the blocks it asked for: as many bytes as the destination expects, each *)
(* block where digest_ok looks for it.  sendblocks may thus walk through   *)
(* empty files, directories and links, and through files and blocks that   *)
(* end together, and does not lose or repeat a byte, however little each   *)
(* sendfile takes.                                                         *)
RequestsAnswered ==
  faults = 0 =>
    \A t \in Threads :
      th[t].pc = "arrived" =>
        /\ Len(th[t].wire) = Total(th[t].start, th[t].num)
        /\ \A b \in Asked(t) : Buffer(th[t], b) = blocks[b].bytes

THEOREM TransferRequestsAnswered == Spec => []RequestsAnswered
<1>1. IInv => RequestsAnswered
  <2> SUFFICES ASSUME IInv, faults = 0, NEW t \in Threads, th[t].pc = "arrived"
               PROVE  /\ Len(th[t].wire) = Total(th[t].start, th[t].num)
                      /\ \A b \in Asked(t) : Buffer(th[t], b) = blocks[b].bytes
    BY Zenon DEF RequestsAnswered
  <2>1. PICK r : r = th[t]
    OBVIOUS
  <2>2. Laid /\ ThreadOK(r) /\ Whole(r) /\ r.pc = "arrived"
    BY <2>1, Zenon DEF IInv, Fetchers, Undisturbed
  <2>3. \A b \in r.start .. r.start + r.num - 1 :
          /\ Len(r.wire) = Total(r.start, r.num)
          /\ b \in Blocks /\ Buffer(r, b) = blocks[b].bytes
    BY <2>2, BufferIs
  <2>4. r.start \in r.start .. r.start + r.num - 1
    BY <2>2, Cut DEF ThreadOK, ThreadRec
  <2> QED
    BY <2>1, <2>3, <2>4, Zenon DEF Asked
<1> QED
  BY <1>1, TransferInvariant, PTL

LEMMA BufferLen ==
  ASSUME Laid, NEW r, ThreadOK(r), r.pc = "write"
  PROVE  Len(Buffer(r, r.b)) = blocks[r.b].size /\ blocks[r.b].size > 0
<1>1. /\ r \in ThreadRec /\ r.start \in Blocks /\ r.num >= 1
      /\ r.start + r.num <= block_count /\ Writing(r)
  BY DEF ThreadOK
<1>2. /\ r.num \in Nat /\ r.start \in Nat /\ Blocks = 0 .. block_count - 1
      /\ block_count \in Nat /\ r.wire \in Seq(Word)
      /\ r.b \in r.start .. r.start + r.num - 1
      /\ Len(r.wire) = Total(r.start, r.num)
  BY <1>1, Cut DEF ThreadRec, Writing, InRequest
<1>3. PICK b \in Blocks, c \in Blocks : b = r.b /\ c = r.start + r.num - 1
  BY <1>1, <1>2
<1>4. b <= c /\ r.start <= b /\ b \in Nat /\ c \in Nat
  BY <1>2, <1>3
<1>5. Hi(b) <= Hi(c)
  <2>1. CASE b = c
    BY <1>4, <2>1, BlockIs
  <2>2. CASE b < c
    BY <1>4, <2>2, HiGrows, BlockIs
  <2> QED
    BY <1>4, <2>1, <2>2
<1>6. /\ Lo(r.start) \in Nat /\ Lo(b) \in Nat /\ Hi(c) \in Nat
      /\ Hi(b) = Lo(b) + blocks[b].size /\ blocks[b].size \in Nat \ {0}
  BY <1>1, <1>4, BlockIs
<1>7. /\ Lo(b) - Lo(r.start) = BLOCK_SIZE * (b - r.start) /\ Lo(r.start) <= Lo(b)
  BY <1>2, <1>4, LoFacts
<1>8. Len(r.wire) = Hi(c) - Lo(r.start)
  <2>1. Total(r.start, r.num) = Hi(c) - Lo(r.start)
    BY <1>1, <1>2, <1>3, TotalIs
  <2> QED
    BY <1>2, <2>1, Zenon
<1>9. PICK m \in Nat, n \in Nat :
        m = BLOCK_SIZE * (b - r.start) /\ n = m + blocks[b].size
  <2>1. Lo(b) - Lo(r.start) \in Nat
    BY <1>6, <1>7
  <2>2. PICK m \in Nat : m = BLOCK_SIZE * (b - r.start)
    BY <1>7, <2>1
  <2> QED
    BY <1>6, <2>2
<1>10. m <= n /\ n <= Len(r.wire) /\ n - m = blocks[b].size
  <2>1. Lo(b) - Lo(r.start) = m /\ n = m + blocks[b].size
    BY <1>7, <1>9, Zenon
  <2>2. PICK lo \in Nat, at \in Nat, size \in Nat, hi \in Nat :
          /\ lo = Lo(r.start) /\ at = Lo(b) /\ size = blocks[b].size /\ hi = Hi(c)
    BY <1>6
  <2>3. at - lo = m /\ n = m + size /\ at + size <= hi /\ Len(r.wire) = hi - lo
    BY <1>5, <1>6, <1>8, <2>1, <2>2, Zenon
  <2>4. m <= n /\ n <= hi - lo /\ n - m = size
    BY <2>3
  <2> QED
    BY <2>2, <2>3, <2>4, Zenon
<1>11. Len(SubSeq(r.wire, m + 1, n)) = n - m
  BY <1>2, <1>10, PartOf
<1>12. Buffer(r, b) = SubSeq(r.wire, m + 1, n)
  BY <1>9 DEF Buffer
<1> QED
  BY <1>3, <1>6, <1>10, <1>11, <1>12, SMTT(40)

(* A block that is written is the block: digest_ok has let it pass.        *)
LEMMA Checked ==
  ASSUME Laid, DigestOfBlock, NEW r, ThreadOK(r), r.pc = "write"
  PROVE  Buffer(r, r.b) = blocks[r.b].bytes
<1>0. r.b \in Blocks
  BY Cut DEF ThreadOK, ThreadRec, Writing, InRequest
<1>1. Buffer(r, r.b) = digest[r.b]
  BY DEF ThreadOK, Writing
<1>2. digest[r.b] \in {NoHash, blocks[r.b].bytes}
  BY <1>0 DEF DigestOfBlock
<1>3. Len(Buffer(r, r.b)) > 0
  BY BufferLen
<1>4. Buffer(r, r.b) # NoHash
  <2>1. Len(NoHash) = 0
    BY DEF NoHash
  <2> QED
    BY <1>3, <2>1
<1> QED
  BY <1>1, <1>2, <1>4

(* While the source has hashed its blocks rightly and no pwrite has        *)
(* stopped short, each byte that writeblock writes at an offset of a file  *)
(* is the byte that file has there at the source: the walk through the     *)
(* files passes over the same ones as the walk that cut the job in blocks, *)
(* and digest_ok keeps from it whatever the source sends that is not the   *)
(* block, also when files change there or calls fail.                      *)
WritesInPlace ==
  DigestOfBlock /\ ~short =>
    \A t \in Threads :
      LET r == th[t]
      IN r.pc = "write" /\ r.total > 0 =>
           \A k \in 1 .. PartLen(r) :
             /\ r.off + k <= files[r.f].size
             /\ Buffer(r, r.b)[r.cnt + k] = <<r.f, r.off + k - 1>>

LEMMA InPlaceWrites ==
  ASSUME IInv
  PROVE  WritesInPlace
<1> SUFFICES ASSUME DigestOfBlock, ~short, NEW t \in Threads,
                    th[t].pc = "write", th[t].total > 0,
                    NEW k \in 1 .. PartLen(th[t])
             PROVE  /\ th[t].off + k <= files[th[t].f].size
                    /\ Buffer(th[t], th[t].b)[th[t].cnt + k]
                         = <<th[t].f, th[t].off + k - 1>>
  BY Zenon DEF WritesInPlace
<1>1. PICK r : r = th[t]
  OBVIOUS
<1>2. Laid /\ ThreadOK(r) /\ InPlace(r) /\ r.pc = "write" /\ r.total > 0
  BY <1>1, Zenon DEF IInv, Fetchers, Placing
<1>3. /\ r.f \in 1 .. file_count /\ r.b \in Blocks /\ r.off \in Nat
      /\ r.total \in Nat /\ r.cnt \in Nat /\ r.cnt + r.total = blocks[r.b].size
      /\ files[r.f].size \in Int
      /\ PartLen(r) \in Nat \ {0} /\ PartLen(r) <= r.total
      /\ PartLen(r) <= files[r.f].size - r.off
      /\ Lo(r.b) + r.cnt + 1 \in 1 .. N
  BY <1>2, PartAt
<1>4. PICK n \in Nat : n = PartLen(r) /\ k \in 1 .. n
  BY <1>1, <1>3
<1>5. Buffer(r, r.b) = blocks[r.b].bytes
  BY <1>2, Checked
<1>6. PICK p \in 1 .. N : p = Lo(r.b) + r.cnt + 1
  BY <1>3
<1>7. S[p] = <<r.f, r.off>>
  BY <1>2, <1>6 DEF InPlace
<1>8. PICK j \in 0 .. n - 1 : j = k - 1
  BY <1>4
<1>9. S[p + j] = <<r.f, r.off + j>>
  <2>1. n <= files[r.f].size - r.off
    BY <1>3, <1>4
  <2> QED
    BY <1>2, <1>3, <1>7, <2>1, Onward, SMTT(40)
<1>10. blocks[r.b].bytes[r.cnt + k] = S[Lo(r.b) + (r.cnt + k)]
  <2>1. /\ blocks[r.b].bytes = SubSeq(S, Lo(r.b) + 1, Hi(r.b))
        /\ Lo(r.b) \in Nat /\ Hi(r.b) \in 1 .. N /\ blocks[r.b].size \in 1 .. BLOCK_SIZE
    BY <1>2, <1>3, Cut
  <2>2. Hi(r.b) = Lo(r.b) + blocks[r.b].size
    BY DEF Hi
  <2>3. PICK c \in Nat, size \in Nat, d \in Nat :
          /\ c = Lo(r.b) /\ size = blocks[r.b].size /\ d = Hi(r.b)
          /\ d = c + size /\ d <= N
    BY <1>2, <1>3, <2>1, <2>2, BlockIs
  <2>4. PICK cnt \in Nat, total \in Nat :
          cnt = r.cnt /\ total = r.total /\ cnt + total = size /\ n <= total
    BY <1>3, <1>4, <2>3
  <2>5. PICK x \in Nat : x = cnt + k
    BY <1>4
  <2>6. c <= d /\ d <= N /\ x \in 1 .. d - c
    BY <1>4, <2>3, <2>4, <2>5
  <2>7. SubSeq(S, c + 1, d)[x] = S[c + x]
    BY <1>2, <2>6, StreamPart
  <2> QED
    BY <2>1, <2>3, <2>4, <2>5, <2>7
<1>11. Lo(r.b) + (r.cnt + k) = p + j /\ r.off + j = r.off + k - 1
  <2>1. Lo(r.b) \in Nat
    BY <1>2, <1>3, Cut
  <2> QED
    BY <1>3, <1>4, <1>6, <1>8, <2>1
<1>12. r.off + k <= files[r.f].size
  BY <1>3, <1>4
<1> QED
  BY <1>1, <1>5, <1>9, <1>10, <1>11, <1>12

(* writeblock puts bytes where they belong, in every reachable state.      *)
THEOREM TransferWritesInPlace == Spec => []WritesInPlace
<1>1. IInv => WritesInPlace
  BY InPlaceWrites
<1> QED
  BY <1>1, TransferInvariant, PTL

-----------------------------------------------------------------------------
(* Where a path leads depends on which nodes there are, on their kinds and *)
(* on where the links lead.                                                *)
SameTree(a, b) ==
  /\ DOMAIN a = DOMAIN b
  /\ \A q \in DOMAIN b : a[q].kind = b[q].kind /\ a[q].to = b[q].to

LEMMA SameTarget ==
  ASSUME NEW a, NEW b, SameTree(a, b), NEW p
  PROVE  Target(a, p) = Target(b, p)
<1> DEFINE ns == Names(p)
           LinksOf(c) == {k \in 1 .. Len(ns) - 1 :
                            /\ SubSeq(ns, 1, k) \in DOMAIN c
                            /\ c[SubSeq(ns, 1, k)].kind = "link"}
           Via(c, k) == Names(c[SubSeq(ns, 1, k)].to) \o SubSeq(ns, k + 1, Len(ns))
<1>1. LinksOf(a) = LinksOf(b)
  BY DEF SameTree
<1>2. ASSUME LinksOf(b) = {}
      PROVE  Real(a, p) = Real(b, p)
  BY <1>1, <1>2 DEF Real
<1>3. ASSUME LinksOf(b) # {}
      PROVE  Real(a, p) = Real(b, p)
  <2>1. PICK k : k = CHOOSE x \in LinksOf(b) : TRUE
    OBVIOUS
  <2>2. k \in LinksOf(b)
    BY <1>3, <2>1
  <2>3. a[SubSeq(ns, 1, k)].to = b[SubSeq(ns, 1, k)].to
    BY <2>2 DEF SameTree
  <2>4. Via(a, k) = Via(b, k)
    BY <2>3
  <2>5. Real(a, p) = Via(a, k) /\ Real(b, p) = Via(b, k)
    BY <1>1, <1>3, <2>1 DEF Real
  <2> QED
    BY <2>4, <2>5
<1>4. Real(a, p) = Real(b, p)
  BY <1>2, <1>3, Zenon
<1> QED
  BY <1>4 DEF Target, SameTree

(* A node whose data or mode changes is the node it was for every path.    *)
LEMMA SameTreeData ==
  ASSUME IsTree(fs), NEW q, NEW data, fs' = [fs EXCEPT ![q].data = data]
  PROVE  /\ SameTree(fs', fs) /\ IsTree(fs')
         /\ \A x \in DOMAIN fs :
              fs'[x].data = IF x = q THEN data ELSE fs[x].data
<1>1. \A x \in DOMAIN fs :
        fs'[x] = IF x = q THEN [fs[x] EXCEPT !.data = data] ELSE fs[x]
  OBVIOUS
<1>2. ASSUME NEW x \in DOMAIN fs
      PROVE  [fs[x] EXCEPT !.data = data]
               = Node(fs[x].kind, data, fs[x].to, fs[x].mode)
  BY DEF IsTree, Node
<1>3. DOMAIN fs' = DOMAIN fs
  OBVIOUS
<1>4. fs' = [x \in DOMAIN fs' |-> fs'[x]]
  OBVIOUS
<1>5. SameTree(fs', fs)
  BY <1>1, <1>3 DEF SameTree
<1>6. IsTree(fs')
  <2>1. ASSUME NEW x \in DOMAIN fs
        PROVE  /\ fs'[x] = Node(fs'[x].kind, fs'[x].data, fs'[x].to, fs'[x].mode)
               /\ fs'[x].kind = "file" => fs'[x].to = <<>>
    BY <1>1, <1>2, <2>1 DEF IsTree, Node
  <2> QED
    BY <1>3, <1>4, <2>1, Zenon DEF IsTree
<1> QED
  BY <1>1, <1>2, <1>3, <1>5, <1>6 DEF IsTree, Node

LEMMA SameTreeMode ==
  ASSUME IsTree(fs), NEW q, NEW mode, fs' = [fs EXCEPT ![q].mode = mode]
  PROVE  /\ SameTree(fs', fs) /\ IsTree(fs')
         /\ \A x \in DOMAIN fs : fs'[x].data = fs[x].data
<1>1. \A x \in DOMAIN fs :
        fs'[x] = IF x = q THEN [fs[x] EXCEPT !.mode = mode] ELSE fs[x]
  OBVIOUS
<1>2. ASSUME NEW x \in DOMAIN fs
      PROVE  [fs[x] EXCEPT !.mode = mode]
               = Node(fs[x].kind, fs[x].data, fs[x].to, mode)
  BY DEF IsTree, Node
<1>3. DOMAIN fs' = DOMAIN fs
  OBVIOUS
<1>4. fs' = [x \in DOMAIN fs' |-> fs'[x]]
  OBVIOUS
<1>5. SameTree(fs', fs)
  BY <1>1, <1>3 DEF SameTree
<1>6. IsTree(fs')
  <2>1. ASSUME NEW x \in DOMAIN fs
        PROVE  /\ fs'[x] = Node(fs'[x].kind, fs'[x].data, fs'[x].to, fs'[x].mode)
               /\ fs'[x].kind = "file" => fs'[x].to = <<>>
    BY <1>1, <1>2, <2>1 DEF IsTree, Node
  <2> QED
    BY <1>3, <1>4, <2>1, Zenon DEF IsTree
<1> QED
  BY <1>1, <1>2, <1>3, <1>5, <1>6 DEF IsTree, Node

-----------------------------------------------------------------------------
Tree == IsTree(fs)

LEMMA WithIsTree ==
  ASSUME Tree, NEW q, NEW kind, NEW data, NEW to, NEW mode,
         kind = "file" => to = <<>>
  PROVE  IsTree(With(q, Node(kind, data, to, mode)))
BY DEF Tree, IsTree, With, Node

LEMMA TreeStays ==
  ASSUME Tree, UNCHANGED fs
  PROVE  Tree'
BY DEF Tree, IsTree

LEMMA MakeDirTree == ASSUME Tree, NEW i, MakeDir(i) PROVE Tree'
<1>1. CASE UNCHANGED fs
  BY <1>1, TreeStays
<1>2. CASE \E q : fs' = With(q, Dir("rw"))
  BY <1>2, WithIsTree, Zenon DEF Dir, Tree
<1> QED
  BY <1>1, <1>2, Zenon DEF MakeDir

LEMMA MakeLinkTree == ASSUME Tree, NEW i, MakeLink(i) PROVE Tree'
<1>1. CASE UNCHANGED fs
  BY <1>1, TreeStays
<1>2. CASE \E q, to : fs' = With(q, Link(to))
  BY <1>2, WithIsTree, Zenon DEF Link, Tree
<1> QED
  BY <1>1, <1>2, Zenon DEF MakeLink

LEMMA MakeFileTree == ASSUME Tree, NEW i, MakeFile(i) PROVE Tree'
<1>1. CASE UNCHANGED fs
  BY <1>1, TreeStays
<1>2. CASE \E q, data : fs' = With(q, File(data, "rw"))
  BY <1>2, WithIsTree, Zenon DEF File, Tree
<1>3. CASE \E q, data : fs' = [fs EXCEPT ![q].data = data]
  BY <1>3, SameTreeData, Zenon DEF Tree
<1> QED
  BY <1>1, <1>2, <1>3, Zenon DEF MakeFile

LEMMA ModeTree == ASSUME Tree, correct_mode PROVE Tree'
<1>1. CASE UNCHANGED fs
  BY <1>1, TreeStays
<1>2. CASE \E q, mode : fs' = [fs EXCEPT ![q].mode = mode]
  BY <1>2, SameTreeMode, Zenon DEF Tree
<1> QED
  BY <1>1, <1>2, Zenon DEF correct_mode

LEMMA WritePartTree ==
  ASSUME Tree, NEW t, WritePart(t)
  PROVE  Tree'
<1>1. CASE UNCHANGED fs
  BY <1>1, TreeStays
<1>2. CASE \E q, data : fs' = [fs EXCEPT ![q].data = data]
  BY <1>2, SameTreeData, Zenon DEF Tree
<1> QED
  BY <1>1, <1>2, Zenon DEF WritePart

LEMMA NextTree ==
  ASSUME Tree, [Next]_vars
  PROVE  Tree'
<1>1. CASE OnItsWay
  <2>1. CASE mk_dir_symlink_file
    BY <2>1, MakeDirTree, MakeLinkTree, MakeFileTree, Zenon DEF mk_dir_symlink_file
  <2>2. CASE correct_mode
    BY <2>2, ModeTree
  <2>3. CASE StartFetch \/ EndFetch \/ Finish
    BY <2>3, TreeStays, Zenon DEF StartFetch, EndFetch, Finish
  <2> QED
    BY <1>1, <2>1, <2>2, <2>3 DEF OnItsWay
<1>2. ASSUME NEW t \in Threads, Fetching(t)
      PROVE  Tree'
  <2>1. CASE WritePart(t)
    BY <2>1, WritePartTree
  <2>2. CASE ~WritePart(t)
    BY <1>2, <2>2, TreeStays, Zenon
       DEF Fetching, sendblocks, writeblock, Request, SendOpen, ev_fn_gsendfile,
           Sent, Receive, WriteDone, sending
  <2> QED
    BY <2>1, <2>2
<1>3. CASE xor_hash_block \/ ProcessPath \/ Crash \/ Alter \/ UNCHANGED vars
  BY <1>3, TreeStays, Zenon DEF xor_hash_block, ProcessPath, Crash, Alter, vars
<1> QED
  BY <1>1, <1>2, <1>3, Zenon DEF Next

LEMMA InitTree == Init => Tree
BY TreeAssumption DEF Init, Tree

-----------------------------------------------------------------------------
(* What is in its place                                                    *)

HasOwn(f, o) == o + 1 \in DOMAIN LocalData(f) /\ LocalData(f)[o + 1] = <<f, o>>

LEMMA InPlaced ==
  ASSUME NEW f, NEW o
  PROVE  <<f, o>> \in Placed
           <=> f \in Regular /\ o \in 0 .. files[f].size - 1 /\ HasOwn(f, o)
<1>1. <<f, o>> \in Placed
        <=> \E g \in Regular : \E x \in 0 .. files[g].size - 1 :
              HasOwn(g, x) /\ <<f, o>> = <<g, x>>
  BY DEF Placed, HasOwn
<1> QED
  BY <1>1

LEMMA PlacedGrows ==
  ASSUME UNCHANGED job,
         \A f \in Regular : \A o \in 0 .. files[f].size - 1 : HasOwn(f, o) => HasOwn(f, o)'
  PROVE  Placed \subseteq Placed'
<1>1. Regular' = Regular /\ files' = files
  BY DEF Regular, files
<1>2. Placed = {<<f, o>> : f \in Regular, o \in Nat} \cap Placed
  BY DEF Placed
<1> SUFFICES ASSUME NEW f, NEW o, <<f, o>> \in Placed PROVE <<f, o>> \in Placed'
  BY <1>2
<1>3. f \in Regular /\ o \in 0 .. files[f].size - 1 /\ HasOwn(f, o)
  BY InPlaced
<1>4. <<f, o>> \in Placed'
        <=> \E g \in Regular' : \E x \in 0 .. files'[g].size - 1 :
              HasOwn(g, x)' /\ <<f, o>> = <<g, x>>
  BY DEF Placed, HasOwn
<1> QED
  BY <1>1, <1>3, <1>4

(* A step that changes no node other than in its data or its mode leaves   *)
(* every file where it is.                                                 *)
LEMMA TargetsStay ==
  ASSUME SameTree(fs', fs), dl'.names = dl.names, NEW f
  PROVE  Target(fs', dl'.names[f]) = Target(fs, dl.names[f])
BY SameTarget

(* The first n bytes of a block are in their places.                       *)
Begun(b, n) == \A k \in 1 .. n : blocks[b].bytes[k] \in Placed

GotPlaced == \A b \in dl.got : Begun(b, blocks[b].size)

WrittenPlaced ==
  \A t \in Threads : th[t].pc = "write" => Begun(th[t].b, th[t].cnt)

Started == dl.pc \in {"fetch", "mode", "done"}

(* The files are where they were when the fetch began; the blocks that     *)
(* count as fetched are in their places, and of a block that is written    *)
(* as much as has been written.                                            *)
Ready ==
  Started =>
    /\ LocalFiles
    /\ ~short => GotPlaced /\ WrittenPlaced
    /\ dl.pc # "fetch" => dl.got = Blocks

LEMMA BegunGrows ==
  ASSUME Placed \subseteq Placed', UNCHANGED blocks, NEW b, NEW n, Begun(b, n)
  PROVE  Begun(b, n)'
BY DEF Begun

(* A step that leaves the nodes and the data of files as they are          *)
LEMMA SameFiles ==
  ASSUME SameTree(fs', fs), \A q \in DOMAIN fs : fs'[q].data = fs[q].data,
         UNCHANGED job, dl'.names = dl.names
  PROVE  /\ LocalFiles => LocalFiles'
         /\ Placed \subseteq Placed'
<1>1. Regular' = Regular /\ files' = files
  BY DEF Regular, files
<1>2. \A f : Target(fs', dl'.names[f]) = Target(fs, dl.names[f])
  BY TargetsStay
<1>3. \A f : LocalData(f)' = LocalData(f)
  BY <1>2 DEF LocalData, SameTree
<1>4. LocalFiles => LocalFiles'
  BY <1>1, <1>2, <1>3 DEF LocalFiles, Own, SameTree
<1>5. \A f, o : HasOwn(f, o)' = HasOwn(f, o)
  BY <1>3 DEF HasOwn
<1> QED
  BY <1>4, <1>5, PlacedGrows

LEMMA UnchangedFiles ==
  ASSUME UNCHANGED <<job, fs>>, dl'.names = dl.names
  PROVE  /\ LocalFiles => LocalFiles'
         /\ Placed \subseteq Placed'
BY SameFiles DEF SameTree

(* A thread goes on, and nothing else does.                                *)
LEMMA ThreadReady ==
  ASSUME IInv, Ready, UNCHANGED <<job, blocks, dl, fs, short>>,
         NEW t \in Threads, NEW r, Set(t, r), r.pc = "write" => r.cnt = 0
  PROVE  Ready'
<1>1. /\ LocalFiles => LocalFiles'
      /\ Placed \subseteq Placed'
  BY UnchangedFiles
<1>2. GotPlaced => GotPlaced'
  BY <1>1, BegunGrows DEF GotPlaced
<1>3. WrittenPlaced => WrittenPlaced'
  <2> SUFFICES ASSUME WrittenPlaced, NEW u \in Threads, th'[u].pc = "write"
               PROVE  Begun(th[u].b, th[u].cnt)'
    BY DEF WrittenPlaced
  <2>1. CASE u = t
    <3>1. th'[u] = r
      BY <2>1 DEF Set, IInv, Fetchers
    <3>2. th'[u].cnt = 0
      BY <3>1
    <3> QED
      BY <3>2 DEF Begun
  <2>2. CASE u # t
    <3>1. th'[u] = th[u]
      BY <2>2 DEF Set, IInv, Fetchers
    <3>2. Begun(th[u].b, th[u].cnt)
      BY <3>1 DEF WrittenPlaced
    <3> QED
      BY <1>1, <3>1, <3>2 DEF Begun
  <2> QED
    BY <2>1, <2>2
<1>4. /\ Started' => Started
      /\ Blocks' = Blocks /\ dl'.pc = dl.pc /\ dl'.got = dl.got
      /\ ~short' => ~short
  BY DEF Started, Blocks
<1> QED
  BY <1>1, <1>2, <1>3, <1>4, Zenon DEF Ready

LEMMA CheckBegins ==
  ASSUME NEW r \in ThreadRec, NEW b
  PROVE  Check(r, b).pc = "write" => Check(r, b).cnt = 0
BY DEF Check, Idle, ThreadRec

(* What a request does at the source, and its answer, before it is written *)
LEMMA RequestReady ==
  ASSUME IInv, Ready, NEW t \in Threads,
         Request(t) \/ sendblocks(t) \/ Receive(t)
  PROVE  Ready'
<1>1. th[t] \in ThreadRec
  BY DEF IInv, Fetchers, ThreadOK
<1>2. ASSUME NEW r, Set(t, r), r.pc = "write" => r.cnt = 0,
             UNCHANGED <<sending, short>>
      PROVE  Ready'
  <2>1. UNCHANGED <<job, blocks, dl, fs, short>>
    BY <1>2 DEF sending
  <2> QED
    BY <1>2, <2>1, ThreadReady
<1>3. CASE Request(t)
  <2>1. PICK start, num :
          Set(t, [Idle EXCEPT !.pc = "open", !.start = start, !.num = num,
                    !.b = start, !.f = blocks[start].start_f,
                    !.off = blocks[start].start_off,
                    !.block_left = blocks[start].size,
                    !.total = Total(start, num)])
    BY <1>3, Zenon DEF Request
  <2>2. UNCHANGED <<sending, short>>
    BY <1>3 DEF Request
  <2>3. [Idle EXCEPT !.pc = "open", !.start = start, !.num = num,
           !.b = start, !.f = blocks[start].start_f,
           !.off = blocks[start].start_off,
           !.block_left = blocks[start].size,
           !.total = Total(start, num)].pc = "open"
    BY DEF Idle
  <2> QED
    BY <1>2, <2>1, <2>2, <2>3
<1>4. CASE SendOpen(t)
  <2>1. PICK r :
          /\ Set(t, r)
          /\ \/ r = [th[t] EXCEPT !.pc = "send", !.cnt = 0, !.retry = 0]
             \/ r = [th[t] EXCEPT !.pc = "sent"]
             \/ r = [th[t] EXCEPT !.pc = "arrived"]
    BY <1>4, Zenon DEF SendOpen
  <2>2. r.pc # "write"
    BY <1>1, <2>1 DEF ThreadRec
  <2> QED
    BY <1>2, <1>4, <2>1, <2>2, Zenon DEF SendOpen
<1>5. CASE ev_fn_gsendfile(t)
  <2>1. PICK wire, cnt, retry :
          \/ Set(t, [th[t] EXCEPT !.wire = wire, !.cnt = cnt, !.retry = 0,
                       !.pc = IF cnt = Count(th[t]) THEN "sent" ELSE "send"])
          \/ Set(t, [th[t] EXCEPT !.retry = retry,
                       !.pc = IF th[t].retry > MaxRetry THEN "arrived" ELSE "send"])
    BY <1>5, Zenon DEF ev_fn_gsendfile
  <2>2. PICK r :
          /\ Set(t, r)
          /\ \/ r = [th[t] EXCEPT !.wire = wire, !.cnt = cnt, !.retry = 0,
                       !.pc = IF cnt = Count(th[t]) THEN "sent" ELSE "send"]
             \/ r = [th[t] EXCEPT !.retry = retry,
                       !.pc = IF th[t].retry > MaxRetry THEN "arrived" ELSE "send"]
    BY <2>1
  <2>3. r.pc # "write"
    BY <1>1, <2>2 DEF ThreadRec
  <2> QED
    BY <1>2, <1>5, <2>2, <2>3, Zenon DEF ev_fn_gsendfile
<1>6. CASE Sent(t)
  <2>1. PICK next :
          /\ next \in {AfterFile(th[t]), AfterBoth(th[t]), AfterBlock(th[t])}
          /\ Set(t, [next EXCEPT !.total = th[t].total - Count(th[t]),
                       !.pc = IF th[t].total - Count(th[t]) > 0
                              THEN "open" ELSE "arrived"])
    BY <1>6 DEF Sent
  <2>2. DOMAIN next = DOMAIN th[t] /\ "pc" \in DOMAIN th[t]
    BY <1>1, <2>1 DEF ThreadRec, AfterFile, AfterBoth, AfterBlock
  <2>3. PICK r :
          r = [next EXCEPT !.total = th[t].total - Count(th[t]),
                 !.pc = IF th[t].total - Count(th[t]) > 0
                        THEN "open" ELSE "arrived"]
    OBVIOUS
  <2>4. r.pc # "write"
    BY <2>2, <2>3
  <2>5. Set(t, r) /\ UNCHANGED <<sending, short>>
    BY <1>6, <2>1, <2>3, Zenon DEF Sent
  <2> QED
    BY <1>2, <2>4, <2>5, Zenon
<1>7. CASE Receive(t)
  <2>1. Set(t, Check(th[t], th[t].start)) /\ UNCHANGED <<sending, short>>
    BY <1>7 DEF Receive
  <2> QED
    BY <1>1, <1>2, <2>1, CheckBegins
<1> QED
  BY <1>3, <1>4, <1>5, <1>6, <1>7, Zenon DEF sendblocks

(* A block whose bytes have all been written counts as fetched.            *)
LEMMA WriteDoneReady ==
  ASSUME IInv, Ready, NEW t \in Threads, WriteDone(t)
  PROVE  Ready'
<1>1. PICK r : r = th[t]
  OBVIOUS
<1>2. /\ ThreadOK(r) /\ r \in ThreadRec /\ r.pc = "write" /\ r.total <= 0
      /\ dl.pc = "fetch"
      /\ UNCHANGED <<job, blocks, fs, short>>
  BY <1>1 DEF IInv, Fetchers, WriteDone, ThreadOK
<1>3. r.cnt = blocks[r.b].size
  BY <1>2 DEF ThreadOK, Writing, ThreadRec
<1>4. /\ dl'.names = dl.names /\ dl'.pc = dl.pc /\ dl'.got = dl.got \cup {r.b}
  BY <1>1, ProcessFacts DEF WriteDone, ProcessRec
<1>5. /\ LocalFiles => LocalFiles'
      /\ Placed \subseteq Placed'
  BY <1>2, <1>4, UnchangedFiles
<1>6. ASSUME GotPlaced, WrittenPlaced
      PROVE  GotPlaced' /\ WrittenPlaced'
  <2>1. Begun(r.b, blocks[r.b].size)
    BY <1>1, <1>2, <1>3, <1>6 DEF WrittenPlaced
  <2>2. GotPlaced'
    BY <1>2, <1>4, <1>5, <1>6, <2>1 DEF GotPlaced, Begun
  <2>3. ASSUME NEW u \in Threads, th'[u].pc = "write"
        PROVE  Begun(th[u].b, th[u].cnt)'
    <3>1. CASE u = t
      <4>1. th'[u] = Check(r, r.b + 1)
        BY <1>1, <3>1 DEF WriteDone, Set, IInv, Fetchers
      <4>2. th'[u].cnt = 0
        BY <1>2, <2>3, <4>1, CheckBegins
      <4> QED
        BY <4>2 DEF Begun
    <3>2. CASE u # t
      <4>1. th'[u] = th[u]
        BY <3>2 DEF WriteDone, Set, IInv, Fetchers
      <4>2. Begun(th[u].b, th[u].cnt)
        BY <1>6, <2>3, <4>1 DEF WrittenPlaced
      <4> QED
        BY <1>2, <1>5, <4>1, <4>2 DEF Begun
    <3> QED
      BY <3>1, <3>2
  <2> QED
    BY <2>2, <2>3 DEF WrittenPlaced
<1>7. /\ Started /\ dl'.pc = "fetch" /\ (~short' => ~short)
  BY <1>2, <1>4 DEF Started
<1> QED
  BY <1>5, <1>6, <1>7, Zenon DEF Ready

(* What a turn of writeblock does to the files                             *)
Overwrites(r, s) ==
  fs' = [fs EXCEPT ![Target(fs, dl.names[r.f])].data = Overwritten(@, r.off, s)]

HasBytes(f) == f \in Regular /\ files[f].size > 0

Overlay(f, off, s) ==
  /\ DOMAIN LocalData(f) = 1 .. files[f].size
  /\ LocalData(f)' = Overwritten(LocalData(f), off, s)
  /\ \A g : HasBytes(g) /\ g # f => LocalData(g)' = LocalData(g)

LEMMA FilesOverwritten ==
  ASSUME Tree, LocalFiles, NEW r, HasBytes(r.f), NEW s, Overwrites(r, s),
         UNCHANGED <<job, dl>>
  PROVE  LocalFiles' /\ Overlay(r.f, r.off, s)
<1>1. PICK q, data : /\ q = Target(fs, dl.names[r.f])
                     /\ data = Overwritten(fs[q].data, r.off, s)
  OBVIOUS
<1>2. fs' = [fs EXCEPT ![q].data = data]
  BY <1>1 DEF Overwrites
<1>3. /\ SameTree(fs', fs)
      /\ \A x \in DOMAIN fs : fs'[x].data = IF x = q THEN data ELSE fs[x].data
  BY <1>2, SameTreeData DEF Tree
<1>4. \A f : Target(fs', dl'.names[f]) = Target(fs, dl.names[f])
  BY <1>3, TargetsStay
<1>5. /\ q \in DOMAIN fs /\ fs[q].data = LocalData(r.f)
      /\ DOMAIN fs[q].data = 1 .. files[r.f].size
  BY <1>1 DEF LocalFiles, LocalData, HasBytes
<1>6. \A f : HasBytes(f) =>
        /\ Target(fs, dl.names[f]) \in DOMAIN fs
        /\ LocalData(f) = fs[Target(fs, dl.names[f])].data
        /\ LocalData(f)' = fs'[Target(fs, dl.names[f])].data
        /\ DOMAIN LocalData(f) = 1 .. files[f].size
        /\ f # r.f => Target(fs, dl.names[f]) # q
  BY <1>1, <1>3, <1>4 DEF LocalFiles, LocalData, HasBytes, Own, SameTree
<1>7. LocalData(r.f)' = Overwritten(LocalData(r.f), r.off, s)
  BY <1>1, <1>3, <1>5, <1>6
<1>8. \A f : HasBytes(f) /\ f # r.f => LocalData(f)' = LocalData(f)
  BY <1>3, <1>6
<1>9. DOMAIN LocalData(r.f)' = 1 .. files[r.f].size
  BY <1>5, <1>7 DEF Overwritten
<1>10. \A f : HasBytes(f) => DOMAIN LocalData(f)' = 1 .. files[f].size
  BY <1>6, <1>8, <1>9
<1>11. LocalFiles'
  <2>1. Regular' = Regular /\ files' = files
    BY DEF Regular, files
  <2>2. DOMAIN fs' = DOMAIN fs
    BY <1>3 DEF SameTree
  <2> QED
    BY <1>4, <1>6, <1>10, <2>1, <2>2 DEF LocalFiles, HasBytes, Own
<1> QED
  BY <1>5, <1>7, <1>8, <1>11 DEF Overlay

(* A byte that is right stays right, and those that are written become so. *)
BytesAt(s, f, off, n) ==
  Len(s) = n /\ \A k \in 1 .. n : s[k] = <<f, off + k - 1>>

RightAfter(data, after, size, f, off, n) ==
  /\ DOMAIN after = 1 .. size
  /\ \A o \in 0 .. size - 1 :
       data[o + 1] = <<f, o>> \/ o \in off .. off + n - 1
         => after[o + 1] = <<f, o>>

LEMMA Overlaid ==
  ASSUME NEW size \in Nat, NEW data, DOMAIN data = 1 .. size,
         NEW off \in Nat, NEW n \in Nat, n <= size - off,
         NEW s, NEW f, BytesAt(s, f, off, n)
  PROVE  RightAfter(data, Overwritten(data, off, s), size, f, off, n)
<1>0. Len(s) = n /\ \A k \in 1 .. n : s[k] = <<f, off + k - 1>>
  BY DEF BytesAt
<1>1. DOMAIN Overwritten(data, off, s) = 1 .. size
  BY DEF Overwritten
<1>2. ASSUME NEW o \in 0 .. size - 1, o \in off .. off + n - 1
      PROVE  Overwritten(data, off, s)[o + 1] = <<f, o>>
  <2>1. PICK k \in 1 .. n : k = o + 1 - off
    BY <1>2
  <2>2. o + 1 \in 1 .. size /\ o + 1 \in off + 1 .. off + n
    BY <1>2
  <2>3. Overwritten(data, off, s)[o + 1] = s[k]
    BY <1>0, <2>1, <2>2 DEF Overwritten
  <2>4. off + k - 1 = o
    BY <2>1
  <2> QED
    BY <1>0, <2>3, <2>4
<1>3. ASSUME NEW o \in 0 .. size - 1, o \notin off .. off + n - 1
      PROVE  Overwritten(data, off, s)[o + 1] = data[o + 1]
  <2>1. o + 1 \in 1 .. size /\ o + 1 \notin off + 1 .. off + n
    BY <1>3
  <2> QED
    BY <1>0, <2>1 DEF Overwritten
<1> QED
  BY <1>1, <1>2, <1>3 DEF RightAfter

(* A turn of writeblock that writes all it can                             *)
Turn(r, n, s) ==
  /\ r.pc = "write" /\ r.total > 0 /\ n = PartLen(r)
  /\ s = SubSeq(Buffer(r, r.b), r.cnt + 1, r.cnt + n)

(* The bytes that it writes are the block's, and the file's at that place. *)
RightBytes(r, n, s) ==
  /\ n \in Nat /\ Len(s) = n /\ HasBytes(r.f)
  /\ r.off \in Nat /\ r.cnt \in Nat /\ files[r.f].size \in Nat
  /\ n <= files[r.f].size - r.off
  /\ \A k \in 1 .. n :
       s[k] = <<r.f, r.off + k - 1>> /\ blocks[r.b].bytes[r.cnt + k] = s[k]

LEMMA TurnBytes ==
  ASSUME IInv, DigestOfBlock, ~short, NEW t \in Threads,
         NEW n, NEW s, Turn(th[t], n, s)
  PROVE  RightBytes(th[t], n, s)
<1> DEFINE r == th[t]
<1>0. /\ r.pc = "write" /\ r.total > 0 /\ n = PartLen(r)
      /\ s = SubSeq(Buffer(r, r.b), r.cnt + 1, r.cnt + n)
  BY DEF Turn
<1>1. Laid /\ ThreadOK(r) /\ r \in ThreadRec
  BY DEF IInv, Fetchers, ThreadOK
<1> HIDE DEF r
<1>2. /\ r.f \in 1 .. file_count /\ r.b \in Blocks /\ r.off \in Nat
      /\ r.total \in Nat /\ r.cnt \in Nat /\ r.cnt + r.total = blocks[r.b].size
      /\ files[r.f].size \in Int /\ r.off < files[r.f].size
      /\ n \in Nat /\ n <= r.total /\ n <= files[r.f].size - r.off
  BY <1>0, <1>1, PartAt
<1>3. HasBytes(r.f) /\ files[r.f].size \in Nat
  <2>1. DOMAIN files = 1 .. file_count
    BY <1>1, Files
  <2> QED
    BY <1>2, <2>1 DEF HasBytes, Regular
<1>4. PICK data : data = Buffer(r, r.b)
  OBVIOUS
<1>5. /\ data = blocks[r.b].bytes /\ Len(data) = blocks[r.b].size
      /\ \A k \in 1 .. n : data[r.cnt + k] = <<r.f, r.off + k - 1>>
  <2>1. Buffer(r, r.b) = blocks[r.b].bytes /\ Len(Buffer(r, r.b)) = blocks[r.b].size
    BY <1>0, <1>1, Checked, BufferLen, Zenon
  <2>2. \A k \in 1 .. PartLen(r) : Buffer(r, r.b)[r.cnt + k] = <<r.f, r.off + k - 1>>
    BY <1>0, InPlaceWrites, Zenon DEF WritesInPlace, r
  <2> QED
    BY <1>0, <1>4, <2>1, <2>2, Zenon
<1>6. PICK T : data \in Seq(T)
  <2>1. S \in Seq((1 .. file_count) \X Nat) /\ N = Len(S)
    BY <1>1, Files DEF N
  <2>2. /\ data = SubSeq(S, Lo(r.b) + 1, Hi(r.b)) /\ Lo(r.b) \in Nat /\ Hi(r.b) \in 1 .. N
        /\ blocks[r.b].size \in Nat \ {0}
    BY <1>1, <1>2, <1>5, Cut, BlockIs
  <2>3. Hi(r.b) = Lo(r.b) + blocks[r.b].size
    BY DEF Hi
  <2>4. /\ N \in Nat /\ Lo(r.b) \in Nat /\ Hi(r.b) \in Nat
        /\ Lo(r.b) <= Hi(r.b) /\ Hi(r.b) <= N
    <3>1. N \in Nat
      BY <1>1, Files
    <3> QED
      BY <2>2, <2>3, <3>1
  <2>5. SubSeq(S, Lo(r.b) + 1, Hi(r.b)) \in Seq((1 .. file_count) \X Nat)
    BY <2>1, <2>4, PartOf
  <2> QED
    BY <2>2, <2>5, Zenon
<1>7. PICK c \in Nat, d \in Nat, total \in Nat, size \in Nat :
        /\ c = r.cnt /\ d = r.cnt + n /\ total = r.total /\ size = blocks[r.b].size
  <2>1. r.cnt \in Nat /\ r.cnt + n \in Nat /\ r.total \in Nat
        /\ blocks[r.b].size \in Nat
    BY <1>2
  <2> QED
    BY <2>1, Zenon
<1>8. c <= d /\ d <= Len(data) /\ d - c = n
  <2>1. c + total = size /\ n \in Nat /\ n <= total /\ d = c + n
    BY <1>2, <1>7, Zenon
  <2>2. c <= d /\ d <= size /\ d - c = n
    BY <2>1
  <2>3. Len(data) = size
    BY <1>5, <1>7
  <2> QED
    BY <2>2, <2>3, Zenon
<1>9. /\ Len(SubSeq(data, c + 1, d)) = d - c
      /\ \A k \in 1 .. d - c : SubSeq(data, c + 1, d)[k] = data[c + k]
  BY <1>6, <1>8, PartOf
<1>10. s = SubSeq(data, c + 1, d)
  BY <1>0, <1>4, <1>7
<1>11. Len(s) = n /\ \A k \in 1 .. n : s[k] = data[r.cnt + k]
  BY <1>7, <1>8, <1>9, <1>10, Zenon
<1> QED
  BY <1>2, <1>3, <1>5, <1>11, Zenon DEF r, RightBytes

LEMMA OverlayPlaces ==
  ASSUME Laid, UNCHANGED <<job, blocks>>, NEW r, NEW n, NEW s, RightBytes(r, n, s),
         Overlay(r.f, r.off, s)
  PROVE  /\ Placed \subseteq Placed'
         /\ \A k \in 1 .. n : blocks[r.b].bytes[r.cnt + k] \in Placed'
<1> DEFINE f == r.f  off == r.off  size == files[f].size
<1>0. /\ size \in Nat /\ off \in Nat /\ n \in Nat /\ n <= size - off /\ HasBytes(f)
  BY DEF RightBytes
<1>1. /\ DOMAIN LocalData(f)' = 1 .. size
      /\ \A o \in 0 .. size - 1 :
           LocalData(f)[o + 1] = <<f, o>> \/ o \in off .. off + n - 1
             => LocalData(f)'[o + 1] = <<f, o>>
  <2>1. BytesAt(s, f, off, n)
    BY DEF RightBytes, BytesAt
  <2>2. /\ DOMAIN LocalData(f) = 1 .. size
        /\ LocalData(f)' = Overwritten(LocalData(f), off, s)
    BY DEF Overlay
  <2> HIDE DEF f, off, size
  <2>3. RightAfter(LocalData(f), Overwritten(LocalData(f), off, s), size, f, off, n)
    BY <1>0, <2>1, <2>2, Overlaid
  <2>4. RightAfter(LocalData(f), LocalData(f)', size, f, off, n)
    BY <2>2, <2>3, Zenon
  <2> QED
    BY <2>4 DEF RightAfter
<1>9. \A g : HasBytes(g) /\ g # f => LocalData(g)' = LocalData(g)
  BY DEF Overlay
<1> HIDE DEF f, off
<1>2. ASSUME NEW o \in 0 .. size - 1, HasOwn(f, o) \/ o \in off .. off + n - 1
      PROVE  HasOwn(f, o)'
  <2>1. o + 1 \in 1 .. size
    BY <1>0
  <2> QED
    BY <1>1, <1>2, <2>1, Zenon DEF HasOwn
<1>3. Placed \subseteq Placed'
  <2>1. ASSUME NEW g \in Regular, NEW o \in 0 .. files[g].size - 1, HasOwn(g, o)
        PROVE  HasOwn(g, o)'
    <3>1. CASE g = f
      BY <1>2, <2>1, <3>1
    <3>2. CASE g # f
      <4>1. HasBytes(g)
        BY <2>1, Files DEF HasBytes, Regular
      <4>2. LocalData(g)' = LocalData(g)
        BY <1>9, <3>2, <4>1
      <4> QED
        BY <2>1, <4>2, Zenon DEF HasOwn
    <3> QED
      BY <3>1, <3>2
  <2> QED
    BY <2>1, PlacedGrows
<1>4. ASSUME NEW k \in 1 .. n
      PROVE  blocks[r.b].bytes[r.cnt + k] \in Placed'
  <2>1. PICK o \in 0 .. size - 1 : o = off + k - 1
    BY <1>0
  <2>2. o \in off .. off + n - 1
    BY <1>0, <2>1
  <2>3. HasOwn(f, o)'
    BY <1>2, <2>2
  <2>4. f \in Regular' /\ o \in 0 .. files'[f].size - 1
    BY <1>0, <2>1 DEF HasBytes, Regular, files
  <2>5. <<f, o>> \in Placed'
          <=> \E g \in Regular' : \E x \in 0 .. files'[g].size - 1 :
                HasOwn(g, x)' /\ <<f, o>> = <<g, x>>
    BY DEF Placed, HasOwn
  <2>6. <<f, o>> \in Placed'
    BY <2>3, <2>4, <2>5, Zenon
  <2>7. blocks[r.b].bytes[r.cnt + k] = <<f, off + k - 1>>
    BY DEF RightBytes, f, off
  <2> QED
    BY <2>1, <2>6, <2>7, Zenon
<1> QED
  BY <1>3, <1>4

LEMMA TurnPlaces ==
  ASSUME IInv, Tree, LocalFiles, DigestOfBlock, ~short, NEW t \in Threads,
         NEW n, NEW s, Turn(th[t], n, s), Overwrites(th[t], s),
         UNCHANGED <<job, blocks, dl>>
  PROVE  /\ Placed \subseteq Placed'
         /\ \A k \in 1 .. n : blocks[th[t].b].bytes[th[t].cnt + k] \in Placed'
<1>1. RightBytes(th[t], n, s)
  BY TurnBytes, Zenon
<1>2. UNCHANGED <<job, dl>> /\ UNCHANGED <<job, blocks>> /\ Laid
  BY DEF IInv
<1>3. HasBytes(th[t].f)
  BY <1>1 DEF RightBytes
<1>4. Overlay(th[t].f, th[t].off, s)
  BY <1>2, <1>3, FilesOverwritten, Zenon
<1> QED
  BY <1>1, <1>2, <1>4, OverlayPlaces

(* A turn of writeblock, whole or cut short                                *)
LEMMA WritePartReady ==
  ASSUME IInv, Tree, Ready, DigestOfBlock, NEW t \in Threads, WritePart(t)
  PROVE  Ready'
<1>1. PICK r : r = th[t]
  OBVIOUS
<1>2. /\ ThreadOK(r) /\ r \in ThreadRec /\ r.pc = "write" /\ r.total > 0
      /\ dl.pc = "fetch" /\ Laid /\ r.cnt \in Nat
      /\ UNCHANGED <<job, blocks, dl>>
  BY <1>1 DEF IInv, Fetchers, WritePart, ThreadOK, ThreadRec, writing
<1>3. LocalFiles /\ Started /\ Started' /\ dl'.pc = "fetch"
  BY <1>2 DEF Ready, Started
<1>4. HasBytes(r.f)
  <2>1. DOMAIN files = 1 .. file_count
    BY <1>2, Files
  <2>2. r.f \in 1 .. file_count /\ r.off \in Nat /\ r.off < files[r.f].size
        /\ files[r.f].size \in Int
    BY <1>2, PartAt
  <2> QED
    BY <2>1, <2>2 DEF HasBytes, Regular
<1>5. ASSUME NEW s, Overwrites(r, s)
      PROVE  LocalFiles'
  BY <1>2, <1>3, <1>4, <1>5, FilesOverwritten, Zenon
<1>6. ASSUME NEW s, s = SubSeq(Buffer(r, r.b), r.cnt + 1, r.cnt + PartLen(r)),
             Overwrites(r, s), Set(t, PartRec(r, PartLen(r))), UNCHANGED short
      PROVE  Ready'
  <2>1. LocalFiles'
    BY <1>5, <1>6
  <2>2. ASSUME ~short, GotPlaced, WrittenPlaced
        PROVE  GotPlaced' /\ WrittenPlaced'
    <3>1. PICK n : n = PartLen(r)
      OBVIOUS
    <3>2. Turn(r, n, s)
      BY <1>2, <1>6, <3>1, Zenon DEF Turn
    <3>3. /\ Placed \subseteq Placed'
          /\ \A k \in 1 .. n : blocks[r.b].bytes[r.cnt + k] \in Placed'
      BY <1>1, <1>2, <1>3, <1>6, <2>2, <3>2, TurnPlaces, Zenon
    <3>4. n \in Nat
      BY <1>2, <3>1, PartAt
    <3>5. GotPlaced'
      BY <1>2, <2>2, <3>3, BegunGrows DEF GotPlaced
    <3>6. Begun(r.b, r.cnt)
      BY <1>1, <1>2, <2>2 DEF WrittenPlaced
    <3>7. ASSUME NEW k \in 1 .. r.cnt + n
          PROVE  blocks[r.b].bytes[k] \in Placed'
      <4>1. CASE k <= r.cnt
        <5>1. k \in 1 .. r.cnt
          BY <1>2, <3>4, <3>7, <4>1
        <5> QED
          BY <3>3, <3>6, <5>1 DEF Begun
      <4>2. CASE k > r.cnt
        <5>1. PICK j \in 1 .. n : k = r.cnt + j
          <6>1. k - r.cnt \in 1 .. n /\ k = r.cnt + (k - r.cnt)
            BY <1>2, <3>4, <3>7, <4>2
          <6> QED
            BY <6>1
        <5> QED
          BY <3>3, <5>1
      <4> QED
        BY <1>2, <3>4, <3>7, <4>1, <4>2
    <3>8. ASSUME NEW u \in Threads, th'[u].pc = "write"
          PROVE  Begun(th[u].b, th[u].cnt)'
      <4>1. CASE u = t
        <5>1. th'[u] = PartRec(r, n)
          BY <1>6, <3>1, <4>1 DEF Set, IInv, Fetchers
        <5>2. th'[u].b = r.b /\ th'[u].cnt = r.cnt + n
          BY <1>2, <5>1 DEF PartRec, ThreadRec
        <5> QED
          BY <1>2, <3>7, <5>2 DEF Begun
      <4>2. CASE u # t
        <5>1. th'[u] = th[u]
          BY <1>6, <4>2 DEF Set, IInv, Fetchers
        <5>2. Begun(th[u].b, th[u].cnt)
          BY <2>2, <3>8, <5>1 DEF WrittenPlaced
        <5> QED
          BY <1>2, <3>3, <5>1, <5>2 DEF Begun
      <4> QED
        BY <4>1, <4>2
    <3> QED
      BY <3>5, <3>8 DEF WrittenPlaced
  <2> QED
    BY <1>3, <1>6, <2>1, <2>2, Zenon DEF Ready
<1>7. ASSUME NEW s, Overwrites(r, s), short' = TRUE
      PROVE  Ready'
  BY <1>3, <1>5, <1>7, Zenon DEF Ready
<1>8. ASSUME Set(t, Idle), UNCHANGED <<fs, short>>
      PROVE  Ready'
  <2>1. Idle.pc # "write"
    BY DEF Idle
  <2> QED
    BY <1>2, <1>8, <2>1, ThreadReady, Zenon
<1>9. \/ /\ \E s : /\ s = SubSeq(Buffer(r, r.b), r.cnt + 1, r.cnt + PartLen(r))
                   /\ Overwrites(r, s)
         /\ Set(t, PartRec(r, PartLen(r))) /\ UNCHANGED short
      \/ /\ \E s : Overwrites(r, s)
         /\ short' = TRUE
      \/ Set(t, Idle) /\ UNCHANGED <<fs, short>>
  BY <1>1, Zenon DEF WritePart, PartRec, PartLen, Overwrites
<1> QED
  BY <1>6, <1>7, <1>8, <1>9, Zenon

(* correct_mode changes modes alone; Fail ends what has been started.      *)
LEMMA ModeReady ==
  ASSUME IInv, Tree, Ready, correct_mode
  PROVE  Ready'
<1>1. /\ dl.pc = "mode" /\ UNCHANGED <<job, blocks, th, short>>
      /\ Started /\ Blocks' = Blocks
  BY DEF correct_mode, unmoved, Started, Blocks
<1>2. CASE Fail
  <2>1. dl'.pc = "failed"
    BY <1>2, ProcessFacts DEF Fail, IInv, Process, ProcessRec
  <2> QED
    BY <2>1 DEF Ready, Started
<1>3. CASE ~Fail
  <2>1. Made(dl.i, dl.cont)
    BY <1>3, Zenon DEF correct_mode
  <2>2. dl'.names = dl.names /\ dl'.pc = dl.pc /\ dl'.got = dl.got
    BY <2>1, ProcessFacts DEF Made, ProcessRec
  <2>3. \/ UNCHANGED fs
        \/ \E q, mode : fs' = [fs EXCEPT ![q].mode = mode]
    BY <1>3, Zenon DEF correct_mode
  <2>4. SameTree(fs', fs) /\ \A x \in DOMAIN fs : fs'[x].data = fs[x].data
    <3>1. CASE UNCHANGED fs
      BY <3>1 DEF SameTree
    <3>2. CASE \E q, mode : fs' = [fs EXCEPT ![q].mode = mode]
      BY <3>2, SameTreeMode, Zenon DEF Tree
    <3> QED
      BY <2>3, <3>1, <3>2
  <2>5. /\ LocalFiles => LocalFiles'
        /\ Placed \subseteq Placed'
    BY <1>1, <2>2, <2>4, SameFiles
  <2>6. GotPlaced => GotPlaced'
    BY <1>1, <2>2, <2>5, BegunGrows DEF GotPlaced
  <2>7. WrittenPlaced => WrittenPlaced'
    BY <1>1, <2>5, BegunGrows DEF WrittenPlaced
  <2> QED
    BY <1>1, <2>2, <2>5, <2>6, <2>7, Zenon DEF Ready
<1> QED
  BY <1>2, <1>3

(* Nothing but the process moves, and it leaves names and blocks alone.    *)
LEMMA EndReady ==
  ASSUME IInv, Ready, EndFetch \/ Finish
  PROVE  Ready'
<1>1. /\ UNCHANGED <<job, blocks, fs, th, short>>
      /\ dl'.names = dl.names /\ dl'.got = dl.got
      /\ Started /\ Blocks' = Blocks
      /\ EndFetch => dl.got = Blocks
      /\ Finish => dl.pc = "mode"
  BY ProcessFacts DEF EndFetch, Finish, unmoved, Started, Blocks, ProcessRec
<1>2. /\ LocalFiles => LocalFiles'
      /\ Placed \subseteq Placed'
  BY <1>1, UnchangedFiles
<1>3. GotPlaced => GotPlaced'
  BY <1>1, <1>2, BegunGrows DEF GotPlaced
<1>4. WrittenPlaced => WrittenPlaced'
  BY <1>1, <1>2, BegunGrows DEF WrittenPlaced
<1>5. dl.got = Blocks
  BY <1>1 DEF Ready
<1> QED
  BY <1>1, <1>2, <1>3, <1>4, <1>5, Zenon DEF Ready

(* The source's steps, and a stuttering one                                *)
LEMMA AsideReady ==
  ASSUME IInv, Ready, UNCHANGED <<job, blocks, fs, th, dl, short>>
  PROVE  Ready'
<1>1. /\ LocalFiles => LocalFiles'
      /\ Placed \subseteq Placed'
  BY UnchangedFiles
<1>2. GotPlaced => GotPlaced'
  BY <1>1, BegunGrows DEF GotPlaced
<1>3. WrittenPlaced => WrittenPlaced'
  BY <1>1, BegunGrows DEF WrittenPlaced
<1>4. Blocks' = Blocks /\ Started' = Started
  BY DEF Blocks, Started
<1> QED
  BY <1>1, <1>2, <1>3, <1>4, Zenon DEF Ready

(* Before the fetch begins, and when it is killed                          *)
LEMMA NotStarted ==
  ASSUME IInv, ProcessPath \/ mk_dir_symlink_file \/ Crash
  PROVE  ~Started'
<1>1. CASE ProcessPath
  <2>1. PICK names, snap, found :
          /\ found \in BOOLEAN
          /\ found <=> snap \in DOMAIN snaps
          /\ dl' = IF names = Refused
                   THEN [dl EXCEPT !.pc = "failed", !.names = Refused]
                   ELSE [dl EXCEPT !.pc = "mk", !.i = 1, !.names = names,
                           !.snap = snap, !.cont = found,
                           !.got = IF found THEN snaps[snap] ELSE {}]
    BY <1>1, ProcessPathIs
  <2>2. PICK got : got = IF found THEN snaps[snap] ELSE {}
    OBVIOUS
  <2>3. \/ dl' = ProcessRec("failed", dl.i, names, dl.snap, dl.cont, dl.got)
        \/ dl' = ProcessRec("mk", 1, names, snap, found, got)
    BY <2>1, <2>2, ProcessFacts DEF ProcessRec
  <2> QED
    BY <2>3 DEF ProcessRec, Started
<1>2. CASE mk_dir_symlink_file
  <2>1. \/ Fail
        \/ \E i, cont : Made(i, cont)
    BY <1>2, Zenon DEF mk_dir_symlink_file, MakeDir, MakeLink, MakeFile
  <2>2. dl.pc = "mk"
    BY <1>2 DEF mk_dir_symlink_file
  <2>3. dl'.pc \in {"failed", "mk"}
    BY <2>1, <2>2, ProcessFacts DEF ProcessRec, Fail, Made
  <2> QED
    BY <2>3 DEF Started
<1>3. CASE Crash
  <2>1. dl'.pc = "path"
    BY <1>3, ProcessFacts DEF ProcessRec, Crash
  <2> QED
    BY <2>1 DEF Started
<1> QED
  BY <1>1, <1>2, <1>3

-----------------------------------------------------------------------------
(* Making the files of a job.  A path leads where it did when links are as *)
(* they were, and when the one that is new is not on its way.              *)
IsLinkIn(a, q) == q \in DOMAIN a /\ a[q].kind = "link"

SameLinks(a, b) ==
  \A q : /\ IsLinkIn(a, q) <=> IsLinkIn(b, q)
         /\ IsLinkIn(b, q) => a[q].to = b[q].to

LEMMA SameOnTheWay ==
  ASSUME NEW a, NEW b, NEW p,
         \A k \in 1 .. Len(Names(p)) - 1 :
           LET q == SubSeq(Names(p), 1, k)
           IN /\ IsLinkIn(a, q) <=> IsLinkIn(b, q)
              /\ IsLinkIn(b, q) => a[q].to = b[q].to
  PROVE  Real(a, p) = Real(b, p)
<1> DEFINE ns == Names(p)
           LinksOf(c) == {k \in 1 .. Len(ns) - 1 :
                            /\ SubSeq(ns, 1, k) \in DOMAIN c
                            /\ c[SubSeq(ns, 1, k)].kind = "link"}
           Via(c, k) == Names(c[SubSeq(ns, 1, k)].to) \o SubSeq(ns, k + 1, Len(ns))
<1>1. LinksOf(a) = LinksOf(b)
  BY DEF IsLinkIn
<1>2. ASSUME LinksOf(b) = {}
      PROVE  Real(a, p) = Real(b, p)
  BY <1>1, <1>2 DEF Real
<1>3. ASSUME LinksOf(b) # {}
      PROVE  Real(a, p) = Real(b, p)
  <2>1. PICK k : k = CHOOSE x \in LinksOf(b) : TRUE
    OBVIOUS
  <2>2. k \in LinksOf(b)
    BY <1>3, <2>1
  <2>3. a[SubSeq(ns, 1, k)].to = b[SubSeq(ns, 1, k)].to
    BY <2>2 DEF IsLinkIn
  <2>4. Via(a, k) = Via(b, k)
    BY <2>3
  <2>5. Real(a, p) = Via(a, k) /\ Real(b, p) = Via(b, k)
    BY <1>1, <1>3, <2>1 DEF Real
  <2> QED
    BY <2>4, <2>5
<1> QED
  BY <1>2, <1>3, Zenon

LEMMA SameLinksReal ==
  ASSUME NEW a, NEW b, SameLinks(a, b), NEW p
  PROVE  Real(a, p) = Real(b, p) /\ Target(a, p) = Target(b, p)
<1>1. Real(a, p) = Real(b, p)
  BY SameOnTheWay DEF SameLinks
<1>2. PICK q : q = Real(a, p)
  OBVIOUS
<1>3. /\ IsLinkIn(a, q) <=> IsLinkIn(b, q)
      /\ IsLinkIn(b, q) => a[q].to = b[q].to
  BY DEF SameLinks
<1> QED
  BY <1>1, <1>2, <1>3 DEF Target, IsLinkIn

LEMMA SameTreeLinks ==
  ASSUME NEW a, NEW b, SameTree(a, b)
  PROVE  SameLinks(a, b)
BY DEF SameTree, SameLinks, IsLinkIn

(* One node is new or another than it was.                                 *)
Touches(q) ==
  /\ DOMAIN fs' = DOMAIN fs \cup {q}
  /\ \A x \in DOMAIN fs : x # q => fs'[x] = fs[x]

LEMMA AsideReal ==
  ASSUME NEW q, Touches(q), NEW p, ~OnTheWay(q, p)
  PROVE  /\ Real(fs', p) = Real(fs, p)
         /\ Real(fs, p) # q => Target(fs', p) = Target(fs, p)
<1>1. \A x : x # q => /\ IsLinkIn(fs', x) <=> IsLinkIn(fs, x)
                      /\ IsLinkIn(fs, x) => fs'[x].to = fs[x].to
  BY DEF Touches, IsLinkIn
<1>2. \A k \in 1 .. Len(Names(p)) - 1 : SubSeq(Names(p), 1, k) # q
  BY DEF OnTheWay
<1>3. Real(fs', p) = Real(fs, p)
  BY <1>1, <1>2, SameOnTheWay
<1>4. PICK x : x = Real(fs, p)
  OBVIOUS
<1> QED
  BY <1>1, <1>3, <1>4 DEF Target, IsLinkIn

LinkOf(i) == Link(symlink_dest_to_abs_path(files[i].name, files[i].to))

LEMMA WithTouches ==
  ASSUME NEW q, NEW node, fs' = With(q, node)
  PROVE  Touches(q) /\ fs'[q] = node
BY DEF With, Touches

LEMMA ProcessPc ==
  ASSUME IInv, Fail
  PROVE  dl'.pc = "failed"
BY ProcessFacts DEF Fail, ProcessRec

LEMMA MadeFacts ==
  ASSUME IInv, NEW i, NEW cont, Made(i, cont)
  PROVE  /\ dl'.pc = dl.pc /\ dl'.names = dl.names /\ dl'.snap = dl.snap
         /\ dl'.got = dl.got /\ dl'.i = i + 1 /\ dl'.cont = cont
BY ProcessFacts DEF Made, ProcessRec

(* What each entry does to the file system, if it does not fail            *)
LEMMA MakeDirDoes ==
  ASSUME NEW i, MakeDir(i), ~Fail, NEW q, q = Real(fs, dl.names[i])
  PROVE  /\ Made(i, dl.cont)
         /\ \/ q \in DOMAIN fs /\ fs' = fs
            \/ q \notin DOMAIN fs /\ Touches(q) /\ fs'[q] = Dir("rw")
BY WithTouches, Zenon DEF MakeDir

LEMMA MakeLinkDoes ==
  ASSUME NEW i, MakeLink(i), ~Fail, NEW q, q = Real(fs, dl.names[i])
  PROVE  /\ Made(i, dl.cont)
         /\ \/ /\ q \in DOMAIN fs /\ fs' = fs
               /\ fs[q].kind = "dir" \/ ~MayCreate(q)
            \/ /\ q \in DOMAIN fs => fs[q].kind # "dir"
               /\ Touches(q) /\ fs'[q] = LinkOf(i) /\ fs' = With(q, LinkOf(i))
BY WithTouches, Zenon DEF MakeLink, LinkOf

MadeSome(i) == \E cont : Made(i, cont) /\ (cont => dl.cont)

Opened(i, q) ==
  \E data : /\ fs'[q] = File(Resized(data, files[i].size), "rw")
            /\ q \in DOMAIN fs => data = fs[q].data

LEMMA MakeFileDoes ==
  ASSUME Tree, NEW i, MakeFile(i), ~Fail, NEW q, q = Target(fs, dl.names[i])
  PROVE  /\ MadeSome(i) /\ Touches(q) /\ Opened(i, q)
         /\ q \in DOMAIN fs => fs[q].kind = "file" /\ fs[q].mode = "rw"
<1>1. CASE /\ q \in DOMAIN fs /\ fs[q].kind = "file" /\ fs[q].mode = "rw"
           /\ fs' = [fs EXCEPT ![q].data = Resized(@, files[i].size)]
           /\ Made(i, dl.cont /\ Len(fs[q].data) = files[i].size)
  <2>1. PICK data : data = Resized(fs[q].data, files[i].size)
    OBVIOUS
  <2>2. fs' = [fs EXCEPT ![q].data = data]
    BY <1>1, <2>1
  <2>3. fs[q] = Node("file", fs[q].data, <<>>, "rw")
    BY <1>1 DEF Tree, IsTree
  <2>4. Touches(q)
    BY <1>1, <2>2 DEF Touches
  <2>5. fs'[q] = [fs[q] EXCEPT !.data = data]
    BY <1>1, <2>2
  <2>6. fs'[q] = File(data, "rw")
    BY <2>3, <2>5 DEF Node, File
  <2> QED
    BY <1>1, <2>1, <2>4, <2>6, Zenon DEF Opened, MadeSome
<1>2. CASE /\ q \notin DOMAIN fs
           /\ fs' = With(q, File(Resized(<<>>, files[i].size), "rw"))
           /\ Made(i, dl.cont /\ files[i].size = 0)
  BY <1>2, WithTouches, Zenon DEF Opened, MadeSome
<1> QED
  BY <1>1, <1>2, Zenon DEF MakeFile

-----------------------------------------------------------------------------
(* A step for one entry leaves the places of the others as they are.       *)
PlaceOf(i) ==
  IF IsLink(i) THEN Real(fs, dl.names[i]) ELSE Target(fs, dl.names[i])

Stays(i) ==
  /\ Real(fs', dl'.names[i]) = Real(fs, dl.names[i])
  /\ ~IsLink(i) => Target(fs', dl'.names[i]) = Target(fs, dl.names[i])

SameNode(q) ==
  /\ q \in DOMAIN fs' <=> q \in DOMAIN fs
  /\ q \in DOMAIN fs => fs'[q] = fs[q]

StepFor(i) ==
  /\ UNCHANGED job /\ dl'.names = dl.names /\ DOMAIN fs \subseteq DOMAIN fs'
  /\ \A j \in DOMAIN files : Stays(j) /\ (j # i => SameNode(PlaceOf(j)))

LEMMA ApartIs ==
  ASSUME Apart, NEW i \in DOMAIN files, NEW j \in DOMAIN files
  PROVE  /\ IsLink(i) =>
              /\ ~OnTheWay(Real(fs, dl.names[i]), dl.names[j])
              /\ i # j => Real(fs, dl.names[i]) # Real(fs, dl.names[j])
              /\ i # j /\ ~IsLink(j) => Real(fs, dl.names[i]) # Target(fs, dl.names[j])
         /\ i # j => PlaceOf(i) # PlaceOf(j)
<1>1. /\ IsLink(i) =>
           /\ ~OnTheWay(Real(fs, dl.names[i]), dl.names[j])
           /\ i # j => Real(fs, dl.names[i]) # Real(fs, dl.names[j])
           /\ i # j /\ ~IsLink(j) => Real(fs, dl.names[i]) # Target(fs, dl.names[j])
      /\ ~IsLink(i) /\ ~IsLink(j) => Own(i, j)
  BY Zenon DEF Apart
<1>2. IsLink(j) /\ ~IsLink(i) /\ i # j
        => Real(fs, dl.names[j]) # Target(fs, dl.names[i])
  BY Zenon DEF Apart
<1> QED
  BY <1>1, <1>2, Zenon DEF PlaceOf, Own

LEMMA TouchesFor ==
  ASSUME Apart, NEW i \in DOMAIN files, Touches(PlaceOf(i)),
         UNCHANGED job, dl'.names = dl.names,
         ~IsLink(i) => ~IsLinkIn(fs, PlaceOf(i)) /\ ~IsLinkIn(fs', PlaceOf(i))
  PROVE  StepFor(i)
<1>1. PICK q : q = PlaceOf(i)
  OBVIOUS
<1>2. DOMAIN fs \subseteq DOMAIN fs'
  BY DEF Touches
<1>3. \A x : x # q => SameNode(x)
  BY <1>1 DEF Touches, SameNode
<1>4. ASSUME NEW j \in DOMAIN files
      PROVE  Stays(j)
  <2>1. CASE IsLink(i)
    <3>1. q = Real(fs, dl.names[i]) /\ Touches(q)
      BY <1>1, <2>1 DEF PlaceOf
    <3>2. /\ ~OnTheWay(q, dl.names[j])
          /\ i # j /\ ~IsLink(j) => q # Real(fs, dl.names[j])
      BY <2>1, <3>1, ApartIs, Zenon
    <3>3. /\ Real(fs', dl.names[j]) = Real(fs, dl.names[j])
          /\ Real(fs, dl.names[j]) # q => Target(fs', dl.names[j]) = Target(fs, dl.names[j])
      BY <3>1, <3>2, AsideReal
    <3> QED
      BY <2>1, <3>2, <3>3 DEF Stays
  <2>2. CASE ~IsLink(i)
    <3>1. SameLinks(fs', fs)
      BY <1>1, <2>2 DEF SameLinks, IsLinkIn, Touches
    <3>2. /\ Real(fs', dl.names[j]) = Real(fs, dl.names[j])
          /\ Target(fs', dl.names[j]) = Target(fs, dl.names[j])
      BY <3>1, SameLinksReal
    <3> QED
      BY <3>2 DEF Stays
  <2> QED
    BY <2>1, <2>2
<1>5. ASSUME NEW j \in DOMAIN files, j # i
      PROVE  SameNode(PlaceOf(j))
  BY <1>1, <1>3, <1>5, ApartIs, Zenon
<1> QED
  BY <1>2, <1>4, <1>5, Zenon DEF StepFor

LEMMA UnchangedFor ==
  ASSUME UNCHANGED <<job, fs>>, dl'.names = dl.names, NEW i
  PROVE  StepFor(i)
BY DEF StepFor, Stays, SameNode

(* So does a step that changes the data or the mode of one file.           *)
LEMMA SameTreeFor ==
  ASSUME Apart, NEW i \in DOMAIN files, SameTree(fs', fs), UNCHANGED job,
         dl'.names = dl.names,
         \A x \in DOMAIN fs : x # PlaceOf(i) => fs'[x] = fs[x]
  PROVE  StepFor(i)
<1>1. SameLinks(fs', fs)
  BY SameTreeLinks
<1>2. ASSUME NEW j \in DOMAIN files, j # i
      PROVE  SameNode(PlaceOf(j))
  <2>1. PlaceOf(j) # PlaceOf(i)
    BY <1>2, ApartIs, Zenon
  <2> QED
    BY <2>1 DEF SameNode, SameTree
<1>3. ASSUME NEW j \in DOMAIN files
      PROVE  Stays(j)
  BY <1>1, SameLinksReal DEF Stays
<1>4. DOMAIN fs \subseteq DOMAIN fs'
  BY DEF SameTree
<1> QED
  BY <1>2, <1>3, <1>4, Zenon DEF StepFor

LEMMA ApartStays ==
  ASSUME Apart, NEW i, StepFor(i)
  PROVE  Apart'
<1>1. files' = files /\ dl'.names = dl.names
  BY DEF StepFor, files
<1>2. \A j \in DOMAIN files : IsLink(j)' <=> IsLink(j)
  BY <1>1 DEF IsLink
<1> SUFFICES ASSUME NEW j \in DOMAIN files, NEW k \in DOMAIN files
             PROVE  IF IsLink(j)
                    THEN /\ ~OnTheWay(Real(fs', dl'.names[j]), dl'.names[k])
                         /\ j # k => /\ Real(fs', dl'.names[j]) # Real(fs', dl'.names[k])
                                     /\ ~IsLink(k) => Real(fs', dl'.names[j]) # Target(fs', dl'.names[k])
                    ELSE ~IsLink(k) => (j # k => Target(fs', dl'.names[j]) # Target(fs', dl'.names[k]))
  BY <1>1, <1>2, Zenon DEF Apart, Own
<1>3. Stays(j) /\ Stays(k)
  BY DEF StepFor
<1>4. IF IsLink(j)
      THEN /\ ~OnTheWay(Real(fs, dl.names[j]), dl.names[k])
           /\ j # k => /\ Real(fs, dl.names[j]) # Real(fs, dl.names[k])
                       /\ ~IsLink(k) => Real(fs, dl.names[j]) # Target(fs, dl.names[k])
      ELSE ~IsLink(k) => (j # k => Target(fs, dl.names[j]) # Target(fs, dl.names[k]))
  BY Zenon DEF Apart, Own
<1> QED
  BY <1>1, <1>3, <1>4, Zenon DEF Stays

-----------------------------------------------------------------------------
(* What the entries of a job are in the file system                        *)
FileThere(i) ==
  LET q == Target(fs, dl.names[i])
  IN /\ q \in DOMAIN fs /\ fs[q].kind = "file"
     /\ fs[q].data = [o \in 1 .. files[i].size |-> fs[q].data[o]]

EntryThere(i) ==
  /\ files[i].size >= 0 => FileThere(i)
  /\ files[i].size = -1 =>
       Real(fs, dl.names[i]) \in DOMAIN fs /\ DirThere(i)
  /\ IsLink(i) => Real(fs, dl.names[i]) \in DOMAIN fs /\ LinkThere(i)

Writable(i) == files[i].size >= 0 => fs[Target(fs, dl.names[i])].mode = "rw"

HasMode(i) ==
  LET q == Target(fs, dl.names[i])
  IN ~IsLink(i) => q \in DOMAIN fs /\ fs[q].mode = files[i].mode

LEMMA EntryIs ==
  ASSUME Laid, NEW i \in DOMAIN files
  PROVE  /\ files[i].size \in Int /\ files[i].size >= -2
         /\ files[i].mode \in {"ro", "rw"}
         /\ IsLink(i) => /\ files[i].mode = "rw"
                         /\ \/ Names(LinkOf(i).to) = Leads(files[i])
                            \/ Len(Names(files[i].name)) = 1
<1>1. files[i].size \in Int
  BY Files
<1>2. LinkOf(i).to = symlink_dest_to_abs_path(files[i].name, files[i].to)
  BY DEF LinkOf, Link, Node
<1> QED
  BY <1>1, <1>2, EntryAssumption, Zenon DEF Laid, files, IsLink

LEMMA EntryStays ==
  ASSUME Laid, NEW i, StepFor(i), NEW j \in DOMAIN files, j # i
  PROVE  EntryThere(j) => EntryThere(j)'
<1>1. /\ files' = files /\ UNCHANGED job /\ dl'.names = dl.names
      /\ DOMAIN fs \subseteq DOMAIN fs' /\ Stays(j) /\ SameNode(PlaceOf(j))
  BY DEF StepFor, files
<1>2. (IsLink(j)' <=> IsLink(j)) /\ files'[j] = files[j]
  BY <1>1 DEF IsLink
<1>3. PICK size : size = files[j].size
  OBVIOUS
<1>4. size \in Int /\ (IsLink(j) <=> size = -2)
  BY <1>3, EntryIs DEF IsLink
<1>5. ASSUME size >= 0, FileThere(j)
      PROVE  FileThere(j)'
  <2>1. PICK q : q = Target(fs, dl.names[j])
    OBVIOUS
  <2>2. ~IsLink(j)
    BY <1>4, <1>5
  <2>3. Target(fs', dl'.names[j]) = q /\ PlaceOf(j) = q
    BY <1>1, <2>1, <2>2, Zenon DEF Stays, PlaceOf
  <2>4. q \in DOMAIN fs
    BY <1>5, <2>1 DEF FileThere
  <2>5. q \in DOMAIN fs' /\ fs'[q] = fs[q]
    BY <1>1, <2>3, <2>4 DEF SameNode
  <2> QED
    BY <1>2, <1>5, <2>1, <2>3, <2>5 DEF FileThere
<1>6. ASSUME size = -1, Real(fs, dl.names[j]) \in DOMAIN fs, DirThere(j)
      PROVE  Real(fs', dl'.names[j]) \in DOMAIN fs' /\ DirThere(j)'
  <2>1. PICK q : q = Target(fs, dl.names[j])
    OBVIOUS
  <2>2. ~IsLink(j)
    BY <1>4, <1>6
  <2>3. /\ Target(fs', dl'.names[j]) = q /\ PlaceOf(j) = q
        /\ Real(fs', dl'.names[j]) = Real(fs, dl.names[j])
    BY <1>1, <2>1, <2>2, Zenon DEF Stays, PlaceOf
  <2>4. q \in DOMAIN fs => q \in DOMAIN fs' /\ fs'[q] = fs[q]
    BY <1>1, <2>3 DEF SameNode
  <2> QED
    BY <1>1, <1>6, <2>1, <2>3, <2>4 DEF DirThere
<1>7. ASSUME IsLink(j), Real(fs, dl.names[j]) \in DOMAIN fs, LinkThere(j)
      PROVE  Real(fs', dl'.names[j]) \in DOMAIN fs' /\ LinkThere(j)'
  <2>1. PICK q : q = Real(fs, dl.names[j])
    OBVIOUS
  <2>2. Real(fs', dl'.names[j]) = q /\ PlaceOf(j) = q
    BY <1>1, <1>7, <2>1, Zenon DEF Stays, PlaceOf
  <2>3. q \in DOMAIN fs' /\ fs'[q] = fs[q]
    BY <1>1, <1>7, <2>1, <2>2 DEF SameNode
  <2> QED
    BY <1>1, <1>2, <1>7, <2>1, <2>2, <2>3 DEF LinkThere, LeftAsItWas
<1> QED
  BY <1>2, <1>3, <1>5, <1>6, <1>7, Zenon DEF EntryThere

LEMMA ModeStays ==
  ASSUME Laid, NEW i, StepFor(i), NEW j \in DOMAIN files, j # i, EntryThere(j)
  PROVE  /\ Writable(j) => Writable(j)'
         /\ HasMode(j) => HasMode(j)'
<1>1. /\ files' = files /\ UNCHANGED job /\ dl'.names = dl.names
      /\ DOMAIN fs \subseteq DOMAIN fs' /\ Stays(j) /\ SameNode(PlaceOf(j))
  BY DEF StepFor, files
<1>2. (IsLink(j)' <=> IsLink(j)) /\ files'[j] = files[j]
  BY <1>1 DEF IsLink
<1>3. files[j].size \in Int /\ (IsLink(j) <=> files[j].size = -2)
  BY EntryIs DEF IsLink
<1>4. PICK q : q = Target(fs, dl.names[j])
  OBVIOUS
<1>5. ASSUME ~IsLink(j), q \in DOMAIN fs
      PROVE  Target(fs', dl'.names[j]) = q /\ q \in DOMAIN fs' /\ fs'[q] = fs[q]
  BY <1>1, <1>4, <1>5, Zenon DEF Stays, PlaceOf, SameNode
<1>6. files[j].size >= 0 => ~IsLink(j) /\ q \in DOMAIN fs
  BY <1>3, <1>4 DEF EntryThere, FileThere
<1> QED
  BY <1>2, <1>4, <1>5, <1>6, Zenon DEF Writable, HasMode

MayStillCreate == \A q : MayCreate(q) => MayCreate(q)'

(* What is not made yet is not in the way after the others are made.       *)
LEMMA WayStays ==
  ASSUME Laid, NEW i, StepFor(i), NEW j \in DOMAIN files, j # i, NotInTheWay(j),
         MayStillCreate
  PROVE  NotInTheWay(j)'
<1>1. /\ files' = files /\ UNCHANGED job /\ dl'.names = dl.names
      /\ Stays(j) /\ SameNode(PlaceOf(j))
  BY DEF StepFor, files
<1>2. (IsLink(j)' <=> IsLink(j)) /\ files'[j] = files[j]
  BY <1>1 DEF IsLink
<1>3. IsLink(j) <=> files[j].size = -2
  BY DEF IsLink
<1>4. PICK q : q = Real(fs, dl.names[j])
  OBVIOUS
<1>5. Real(fs', dl'.names[j]) = q
  BY <1>1, <1>4 DEF Stays
<1>6. ASSUME files[j].size = -1, q \in DOMAIN fs'
      PROVE  DirThere(j)'
  <2>1. PICK to : to = Target(fs, dl.names[j])
    OBVIOUS
  <2>2. ~IsLink(j)
    BY <1>3, <1>6
  <2>3. Target(fs', dl'.names[j]) = to /\ PlaceOf(j) = to
    BY <1>1, <2>1, <2>2, Zenon DEF Stays, PlaceOf
  <2>4. q \in DOMAIN fs
    <3>1. CASE q \notin DOMAIN fs
      <4>1. to = q
        BY <1>4, <2>1, <3>1 DEF Target
      <4> QED
        BY <1>1, <1>6, <2>3, <4>1 DEF SameNode
    <3> QED
      BY <3>1
  <2>5. DirThere(j)
    BY <1>4, <1>6, <2>4 DEF NotInTheWay
  <2>6. to \in DOMAIN fs => to \in DOMAIN fs' /\ fs'[to] = fs[to]
    BY <1>1, <2>3 DEF SameNode
  <2> QED
    BY <1>1, <1>4, <1>5, <2>1, <2>3, <2>5, <2>6 DEF DirThere
<1>7. ASSUME IsLink(j), q \in DOMAIN fs'
      PROVE  LinkThere(j)' \/ (fs'[q].kind # "dir" /\ MayCreate(q)')
  <2>1. PlaceOf(j) = q
    BY <1>4, <1>7 DEF PlaceOf
  <2>2. q \in DOMAIN fs /\ fs'[q] = fs[q]
    BY <1>1, <1>7, <2>1 DEF SameNode
  <2>3. LinkThere(j) \/ (fs[q].kind # "dir" /\ MayCreate(q))
    BY <1>4, <1>7, <2>2 DEF NotInTheWay
  <2>4. LinkThere(j) => LinkThere(j)'
    BY <1>1, <1>2, <1>4, <1>5, <2>2 DEF LinkThere, LeftAsItWas
  <2> QED
    BY <2>2, <2>3, <2>4, Zenon DEF MayStillCreate
<1> QED
  BY <1>2, <1>5, <1>6, <1>7, Zenon DEF NotInTheWay

-----------------------------------------------------------------------------
(* mk_dir_symlink_file makes an entry and leaves the others.               *)
LEMMA MakeIs ==
  ASSUME IInv, mk_dir_symlink_file, NEW i, i = dl.i
  PROVE  /\ i \in DOMAIN files /\ dl.pc = "mk" /\ Laid
         /\ UNCHANGED <<job, blocks, snaps, short>>
         /\ \/ files[i].size = -1 /\ MakeDir(i)
            \/ IsLink(i) /\ MakeLink(i)
            \/ files[i].size >= 0 /\ ~IsLink(i) /\ MakeFile(i)
<1>1. /\ dl.pc = "mk" /\ i \in 1 .. file_count /\ Laid
      /\ UNCHANGED <<job, blocks, snaps, short>>
  BY ProcessFacts DEF mk_dir_symlink_file, unmoved, IInv
<1>2. i \in DOMAIN files
  BY <1>1, Files
<1>3. files[i].size \in Int /\ files[i].size >= -2
  BY <1>1, <1>2, EntryIs
<1>4. \/ files[i].size = -1 /\ MakeDir(i)
      \/ files[i].size = -2 /\ MakeLink(i)
      \/ files[i].size # -1 /\ files[i].size # -2 /\ MakeFile(i)
  BY DEF mk_dir_symlink_file
<1> QED
  BY <1>1, <1>2, <1>3, <1>4 DEF IsLink

LEMMA MayCreateStays ==
  ASSUME NEW q, Touches(q), q \in DOMAIN fs => fs[q].kind # "dir"
  PROVE  MayStillCreate
<1> SUFFICES ASSUME NEW x, MayCreate(x) PROVE MayCreate(x)'
  BY DEF MayStillCreate
<1>1. /\ x # <<>> /\ Front(x) \in DOMAIN fs /\ fs[Front(x)].kind = "dir"
      /\ fs[Front(x)].mode = "rw"
  BY DEF MayCreate, ParentIs
<1>2. fs'[Front(x)] = fs[Front(x)] /\ Front(x) \in DOMAIN fs'
  BY <1>1 DEF Touches
<1> QED
  BY <1>1, <1>2 DEF MayCreate, ParentIs

LEMMA MadeOne ==
  ASSUME NEW i, Made(i, dl.cont)
  PROVE  MadeSome(i)
<1> SUFFICES \E cont : Made(i, cont) /\ (cont => dl.cont)
  BY DEF MadeSome
<1> WITNESS dl.cont
<1> QED
  OBVIOUS

LEMMA MakeFor ==
  ASSUME IInv, Tree, Apart, mk_dir_symlink_file, ~Fail, NEW i, i = dl.i
  PROVE  MadeSome(i) /\ StepFor(i) /\ MayStillCreate
<1>1. /\ i \in DOMAIN files /\ UNCHANGED job
      /\ \/ files[i].size = -1 /\ MakeDir(i)
         \/ IsLink(i) /\ MakeLink(i)
         \/ files[i].size >= 0 /\ ~IsLink(i) /\ MakeFile(i)
  BY MakeIs
<1>2. ASSUME NEW cont, Made(i, cont)
      PROVE  dl'.names = dl.names
  BY <1>2, MadeFacts
<1>3. ASSUME fs' = fs, Made(i, dl.cont)
      PROVE  MadeSome(i) /\ StepFor(i) /\ MayStillCreate
  <2>1. StepFor(i)
    BY <1>1, <1>2, <1>3, UnchangedFor
  <2> QED
    <3>1. MayStillCreate
      BY <1>3 DEF MayStillCreate, MayCreate, ParentIs
    <3> QED
      BY <1>3, <2>1, <3>1, MadeOne
<1>4. CASE files[i].size = -1 /\ MakeDir(i)
  <2>1. PICK q : q = Real(fs, dl.names[i])
    OBVIOUS
  <2>2. /\ Made(i, dl.cont)
        /\ \/ q \in DOMAIN fs /\ fs' = fs
           \/ q \notin DOMAIN fs /\ Touches(q) /\ fs'[q] = Dir("rw")
    BY <1>4, <2>1, MakeDirDoes
  <2>3. CASE q \notin DOMAIN fs /\ Touches(q) /\ fs'[q] = Dir("rw")
    <3>1. q = PlaceOf(i) /\ ~IsLink(i)
      BY <1>4, <2>1, <2>3 DEF PlaceOf, Target, IsLink
    <3>2. ~IsLinkIn(fs, q) /\ ~IsLinkIn(fs', q)
      BY <2>3 DEF IsLinkIn, Dir, Node
    <3>3. StepFor(i)
      BY <1>1, <1>2, <2>2, <2>3, <3>1, <3>2, TouchesFor, Zenon
    <3> QED
      BY <2>2, <2>3, <3>3, MadeOne, MayCreateStays, Zenon
  <2> QED
    BY <1>3, <2>2, <2>3, Zenon
<1>5. CASE IsLink(i) /\ MakeLink(i)
  <2>1. PICK q : q = Real(fs, dl.names[i])
    OBVIOUS
  <2>2. /\ Made(i, dl.cont)
        /\ \/ fs' = fs
           \/ (q \in DOMAIN fs => fs[q].kind # "dir") /\ Touches(q)
    BY <1>5, <2>1, MakeLinkDoes, Zenon
  <2>3. CASE (q \in DOMAIN fs => fs[q].kind # "dir") /\ Touches(q)
    <3>1. q = PlaceOf(i)
      BY <1>5, <2>1 DEF PlaceOf
    <3>2. StepFor(i)
      BY <1>1, <1>2, <1>5, <2>2, <2>3, <3>1, TouchesFor, Zenon
    <3> QED
      BY <2>2, <2>3, <3>2, MadeOne, MayCreateStays, Zenon
  <2> QED
    BY <1>3, <2>2, <2>3, Zenon
<1>6. CASE ~IsLink(i) /\ MakeFile(i)
  <2>1. PICK q : q = Target(fs, dl.names[i])
    OBVIOUS
  <2>2. /\ MadeSome(i) /\ Touches(q) /\ Opened(i, q)
        /\ q \in DOMAIN fs => fs[q].kind = "file" /\ fs[q].mode = "rw"
    BY <1>6, <2>1, MakeFileDoes, Zenon
  <2>3. q = PlaceOf(i)
    BY <1>6, <2>1 DEF PlaceOf
  <2>4. ~IsLinkIn(fs, q) /\ ~IsLinkIn(fs', q)
    BY <2>2 DEF Opened, IsLinkIn, File, Node
  <2>5. StepFor(i)
    <3>1. dl'.names = dl.names
      BY <1>2, <2>2, Zenon DEF MadeSome
    <3> QED
      BY <1>1, <1>6, <2>2, <2>3, <2>4, <3>1, TouchesFor, Zenon
  <2>6. q \in DOMAIN fs => fs[q].kind # "dir"
    BY <2>2
  <2> QED
    BY <2>2, <2>5, <2>6, MayCreateStays, Zenon
<1> QED
  BY <1>1, <1>4, <1>5, <1>6, Zenon

LEMMA MakeThere ==
  ASSUME IInv, Tree, Apart, mk_dir_symlink_file, ~Fail, NEW i, i = dl.i, NotInTheWay(i)
  PROVE  EntryThere(i)' /\ Writable(i)'
<1>1. /\ i \in DOMAIN files /\ Laid
      /\ \/ files[i].size = -1 /\ MakeDir(i)
         \/ IsLink(i) /\ MakeLink(i)
         \/ files[i].size >= 0 /\ ~IsLink(i) /\ MakeFile(i)
  BY MakeIs
<1>2. StepFor(i)
  BY MakeFor, Zenon
<1>3. /\ files' = files /\ UNCHANGED job /\ dl'.names = dl.names
      /\ DOMAIN fs \subseteq DOMAIN fs' /\ Stays(i)
  BY <1>1, <1>2 DEF StepFor, files
<1>4. /\ files'[i].size = files[i].size /\ (IsLink(i)' <=> IsLink(i))
      /\ (IsLink(i) <=> files[i].size = -2)
  BY <1>3 DEF IsLink
<1>5. CASE files[i].size = -1 /\ MakeDir(i)
  <2>1. PICK q : q = Real(fs, dl.names[i])
    OBVIOUS
  <2>2. \/ q \in DOMAIN fs /\ fs' = fs
        \/ q \notin DOMAIN fs /\ Touches(q) /\ fs'[q] = Dir("rw")
    BY <1>5, <2>1, MakeDirDoes
  <2>3. Real(fs', dl'.names[i]) = q
    BY <1>3, <2>1 DEF Stays
  <2>4. Target(fs', dl'.names[i]) = Target(fs, dl.names[i])
    BY <1>3, <1>4, <1>5 DEF Stays
  <2>5. q \in DOMAIN fs'
    BY <1>3, <2>2 DEF Touches
  <2>6. DirThere(i)'
    <3>1. CASE q \in DOMAIN fs /\ fs' = fs
      <4>1. DirThere(i)
        BY <1>5, <2>1, <3>1 DEF NotInTheWay
      <4> QED
        BY <1>3, <2>1, <2>3, <2>4, <3>1, <4>1 DEF DirThere
    <3>2. CASE q \notin DOMAIN fs /\ Touches(q) /\ fs'[q] = Dir("rw")
      <4>1. Target(fs, dl.names[i]) = q
        BY <2>1, <3>2 DEF Target
      <4> QED
        BY <2>4, <2>5, <3>2, <4>1 DEF DirThere, Dir, Node
    <3> QED
      BY <2>2, <3>1, <3>2
  <2> QED
    BY <1>4, <1>5, <2>3, <2>5, <2>6 DEF EntryThere, Writable
<1>6. CASE IsLink(i) /\ MakeLink(i)
  <2>1. PICK q : q = Real(fs, dl.names[i])
    OBVIOUS
  <2>2. \/ /\ q \in DOMAIN fs /\ fs' = fs
           /\ fs[q].kind = "dir" \/ ~MayCreate(q)
        \/ Touches(q) /\ fs'[q] = LinkOf(i)
    BY <1>6, <2>1, MakeLinkDoes, Zenon
  <2>3. Real(fs', dl'.names[i]) = q
    BY <1>3, <2>1 DEF Stays
  <2>4. q \in DOMAIN fs'
    BY <1>3, <2>2 DEF Touches
  <2>5. LinkThere(i)'
    <3>1. CASE /\ q \in DOMAIN fs /\ fs' = fs
               /\ fs[q].kind = "dir" \/ ~MayCreate(q)
      <4>1. LinkThere(i)
        BY <1>6, <2>1, <3>1, Zenon DEF NotInTheWay
      <4> QED
        BY <1>3, <2>1, <2>3, <3>1, <4>1 DEF LinkThere, LeftAsItWas
    <3>2. CASE Touches(q) /\ fs'[q] = LinkOf(i)
      BY <1>3, <2>3, <3>2 DEF LinkThere, LinkOf
    <3> QED
      BY <2>2, <3>1, <3>2
  <2> QED
    BY <1>4, <1>6, <2>3, <2>4, <2>5 DEF EntryThere, Writable
<1>7. CASE files[i].size >= 0 /\ ~IsLink(i) /\ MakeFile(i)
  <2>1. PICK q : q = Target(fs, dl.names[i])
    OBVIOUS
  <2>2. Touches(q) /\ Opened(i, q)
    BY <1>7, <2>1, MakeFileDoes, Zenon
  <2>3. PICK data : fs'[q] = File(Resized(data, files[i].size), "rw")
    BY <2>2 DEF Opened
  <2>4. Target(fs', dl'.names[i]) = q
    BY <1>3, <1>7, <2>1 DEF Stays
  <2>5. q \in DOMAIN fs'
    BY <2>2 DEF Touches
  <2>6. /\ fs'[q].kind = "file" /\ fs'[q].mode = "rw"
        /\ fs'[q].data = Resized(data, files[i].size)
    BY <2>3 DEF File, Node
  <2>7. fs'[q].data = [o \in 1 .. files[i].size |-> fs'[q].data[o]]
    BY <2>6 DEF Resized
  <2>8. FileThere(i)' /\ Writable(i)'
    BY <1>3, <2>4, <2>5, <2>6, <2>7 DEF FileThere, Writable
  <2> QED
    BY <1>3, <1>7, <2>8, EntryIs DEF EntryThere, IsLink
<1> QED
  BY <1>1, <1>5, <1>6, <1>7, Zenon

-----------------------------------------------------------------------------
(* The snapshot                                                            *)

Found == dl.snap \in DOMAIN snaps

SnapPlaced == \A b \in snaps[dl.snap] : Begun(b, blocks[b].size)

Resumable == Found /\ ~short => SnapPlaced

Taken == Found /\ dl.got = snaps[dl.snap]

(* What the snapshot says is in its place, also while the process is being *)
(* started again; what it goes on with is what the snapshot says.          *)
Saved ==
  /\ dl.pc \in {"path", "mk"} => Resumable
  /\ Started => Taken
  /\ dl.pc = "mk" /\ dl.cont => Taken
  /\ dl.pc # "failed" /\ dl.names = Refused => dl.pc = "path" /\ DOMAIN snaps = {}

(* The entries of the job are there as far as they have been made, and     *)
(* what is still to be made can be made; all are there when the fetch      *)
(* begins, and stay while the process is killed and started again.  Files  *)
(* can be written to until their modes are set right.                      *)
EntriesThere == \A i \in DOMAIN files : EntryThere(i)

Making ==
  dl.pc = "mk" =>
    /\ Apart
    /\ \A i \in DOMAIN files :
         IF i < dl.i THEN EntryThere(i) /\ Writable(i) ELSE NotInTheWay(i)

Moded ==
  \A i \in DOMAIN files :
    IF dl.pc = "fetch" \/ (dl.pc = "mode" /\ i >= dl.i)
    THEN Writable(i) ELSE HasMode(i)

Standing == Started => Apart /\ EntriesThere /\ Moded

Left == dl.pc \in {"path", "mk"} /\ Found => EntriesThere

InOrder == Making /\ Standing /\ Left

(* A step after which every entry is there if it was                       *)
LEMMA EntriesStay ==
  ASSUME Laid, NEW i, StepFor(i), EntriesThere,
         i \in DOMAIN files => EntryThere(i)'
  PROVE  EntriesThere'
<1>1. files' = files
  BY DEF StepFor, files
<1>2. ASSUME NEW j \in DOMAIN files
      PROVE  EntryThere(j)'
  <2>1. CASE j = i
    BY <2>1
  <2>2. CASE j # i
    BY <2>2, EntryStays DEF EntriesThere
  <2> QED
    BY <2>1, <2>2
<1> QED
  BY <1>1, <1>2, Zenon DEF EntriesThere

LEMMA EntriesUnchanged ==
  ASSUME UNCHANGED <<job, fs>>, dl'.names = dl.names, Laid
  PROVE  /\ EntriesThere => EntriesThere'
         /\ Apart => Apart'
         /\ \A i \in DOMAIN files :
              /\ EntryThere(i) => EntryThere(i)'
              /\ Writable(i) => Writable(i)'
              /\ HasMode(i) => HasMode(i)'
              /\ NotInTheWay(i) => NotInTheWay(i)'
<1>1. files' = files
  BY DEF files
<1>2. \A i \in DOMAIN files : IsLink(i)' <=> IsLink(i)
  BY <1>1 DEF IsLink
<1>3. StepFor(0)
  BY UnchangedFor
<1>4. 0 \notin DOMAIN files
  BY Files
<1>5. \A i \in DOMAIN files : EntryThere(i) => EntryThere(i)'
  BY <1>3, <1>4, EntryStays
<1>6. EntriesThere => EntriesThere'
  BY <1>3, <1>4, EntriesStay
<1>7. Apart => Apart'
  BY <1>3, ApartStays
<1>8. MayStillCreate
  BY DEF MayStillCreate, MayCreate, ParentIs
<1>9. \A i \in DOMAIN files : NotInTheWay(i) => NotInTheWay(i)'
  BY <1>3, <1>4, <1>8, WayStays
<1>10. \A i \in DOMAIN files :
         /\ Writable(i) => Writable(i)'
         /\ HasMode(i) => HasMode(i)'
  BY <1>1, <1>2, Zenon DEF Writable, HasMode
<1> QED
  BY <1>5, <1>6, <1>7, <1>9, <1>10, Zenon

NewProcess(names, snap, found) ==
  dl' = IF names = Refused
        THEN [dl EXCEPT !.pc = "failed", !.names = Refused]
        ELSE [dl EXCEPT !.pc = "mk", !.i = 1, !.names = names,
                !.snap = snap, !.cont = found,
                !.got = IF found THEN snaps[snap] ELSE {}]

(* The names are given again: those of the snapshot, where there is one    *)
LEMMA PathIs ==
  ASSUME IInv, Saved, ProcessPath, SameNames
  PROVE  /\ dl.pc = "path" /\ UNCHANGED <<job, blocks, fs, snaps, short>>
         /\ \/ dl'.pc = "failed"
            \/ /\ dl'.pc = "mk" /\ dl'.i = 1 /\ dl'.names # Refused
               /\ Found' => /\ dl'.names = dl.names /\ dl'.snap = dl.snap
                            /\ Found /\ Taken'
               /\ ~Found' => ~dl'.cont
<1>1. dl.pc = "path" /\ UNCHANGED <<job, blocks, fs, snaps, short>>
  BY DEF ProcessPath, unmoved
<1>2. PICK names, snap, found :
        /\ found \in BOOLEAN
        /\ found <=> snap \in DOMAIN snaps
        /\ NewProcess(names, snap, found)
  BY ProcessPathIs DEF NewProcess
<1>3. PICK got : got = IF found THEN snaps[snap] ELSE {}
  OBVIOUS
<1>4. CASE names = Refused
  <2>1. dl' = ProcessRec("failed", dl.i, Refused, dl.snap, dl.cont, dl.got)
    BY <1>2, <1>4, ProcessFacts DEF ProcessRec, NewProcess
  <2>2. dl'.pc = "failed"
    BY <2>1 DEF ProcessRec
  <2> QED
    BY <1>1, <2>2
<1>5. CASE names # Refused
  <2>1. dl' = ProcessRec("mk", 1, names, snap, found, got)
    BY <1>2, <1>3, <1>5, ProcessFacts DEF ProcessRec, NewProcess
  <2>2. /\ dl'.pc = "mk" /\ dl'.names # Refused /\ dl'.snap = snap
        /\ dl'.cont = found /\ dl'.got = got /\ dl'.i = 1
    BY <1>5, <2>1 DEF ProcessRec
  <2>3. CASE found
    <3>1. snap \in DOMAIN snaps /\ got = snaps[snap]
      BY <1>2, <1>3, <2>3
    <3>2. Taken'
      BY <1>1, <2>2, <3>1 DEF Taken, Found
    <3>3. dl.names # Refused
      BY <1>1, <3>1 DEF Saved
    <3>4. dl'.names = dl.names /\ dl'.snap = dl.snap
      BY <1>1, <2>2, <2>3, <3>3, Zenon DEF SameNames
    <3>5. Found /\ Found'
      BY <1>1, <2>2, <3>1, <3>4 DEF Found
    <3> QED
      BY <1>1, <2>2, <3>2, <3>4, <3>5
  <2>4. CASE ~found
    <3>1. snap \notin DOMAIN snaps
      BY <1>2, <2>4
    <3>2. ~Found'
      BY <1>1, <2>2, <3>1 DEF Found
    <3>3. ~dl'.cont
      BY <2>2, <2>4, Zenon
    <3> QED
      BY <1>1, <2>2, <3>2, <3>3
  <2> QED
    BY <2>3, <2>4
<1> QED
  BY <1>4, <1>5

LEMMA PathInOrder ==
  ASSUME IInv, Saved, InOrder, ProcessPath, SameNames, NamedAsAsked'
  PROVE  InOrder'
<1>1. /\ dl.pc = "path" /\ UNCHANGED <<job, blocks, fs, snaps, short>> /\ Laid
      /\ \/ dl'.pc = "failed"
         \/ /\ dl'.pc = "mk" /\ dl'.i = 1
            /\ Found' => dl'.names = dl.names /\ Found
  BY PathIs DEF IInv
<1>2. CASE dl'.pc = "failed"
  BY <1>2 DEF InOrder, Making, Standing, Left, Started
<1>3. CASE /\ dl'.pc = "mk" /\ dl'.i = 1
           /\ Found' => dl'.names = dl.names /\ Found
  <2>1. Apart' /\ \A i \in DOMAIN files' : NotInTheWay(i)'
    BY <1>3, Zenon DEF NamedAsAsked
  <2>2. files' = files /\ \A i \in DOMAIN files : ~(i < 1)
    BY <1>1, Files DEF files
  <2>3. Making'
    BY <1>3, <2>1, <2>2 DEF Making
  <2>4. Found' => EntriesThere'
    BY <1>1, <1>3, EntriesUnchanged, Zenon DEF InOrder, Left
  <2> QED
    BY <1>3, <2>3, <2>4 DEF InOrder, Standing, Left, Started
<1> QED
  BY <1>1, <1>2, <1>3

LEMMA MakeInOrder ==
  ASSUME IInv, Tree, InOrder, mk_dir_symlink_file
  PROVE  InOrder'
<1>1. PICK i : i = dl.i
  OBVIOUS
<1>2. /\ i \in DOMAIN files /\ dl.pc = "mk" /\ Laid
      /\ UNCHANGED <<job, blocks, snaps, short>>
  BY <1>1, MakeIs
<1>3. CASE Fail
  <2>1. dl'.pc = "failed"
    BY <1>3, ProcessPc
  <2> QED
    BY <2>1 DEF InOrder, Making, Standing, Left, Started
<1>4. CASE ~Fail
  <2>1. /\ Apart
        /\ \A j \in DOMAIN files :
             IF j < i THEN EntryThere(j) /\ Writable(j) ELSE NotInTheWay(j)
    BY <1>1, <1>2 DEF InOrder, Making
  <2>2. DOMAIN files \subseteq Nat
    BY <1>2, Files
  <2>3. NotInTheWay(i)
    BY <1>2, <2>1, <2>2
  <2>4. MadeSome(i) /\ StepFor(i) /\ MayStillCreate
    BY <1>1, <1>4, <2>1, MakeFor, Zenon
  <2>5. EntryThere(i)' /\ Writable(i)'
    BY <1>1, <1>4, <2>1, <2>3, MakeThere, Zenon
  <2>6. /\ dl'.pc = "mk" /\ dl'.i = i + 1 /\ dl'.snap = dl.snap
    BY <1>2, <2>4, MadeFacts, Zenon DEF MadeSome
  <2>7. files' = files
    BY <1>2 DEF files
  <2>8. Apart'
    BY <2>1, <2>4, ApartStays
  <2>9. ASSUME NEW j \in DOMAIN files
        PROVE  IF j < i + 1 THEN EntryThere(j)' /\ Writable(j)' ELSE NotInTheWay(j)'
    <3>1. i \in Nat /\ j \in Nat
      BY <1>2, <2>2
    <3>2. CASE j = i
      BY <2>5, <3>1, <3>2
    <3>3. CASE j < i
      <4>1. EntryThere(j) /\ Writable(j) /\ j # i
        BY <2>1, <3>1, <3>3
      <4>2. EntryThere(j)' /\ Writable(j)'
        BY <1>2, <2>4, <4>1, EntryStays, ModeStays, Zenon
      <4> QED
        BY <3>1, <3>3, <4>2
    <3>4. CASE j > i
      <4>1. NotInTheWay(j) /\ j # i
        BY <2>1, <3>1, <3>4
      <4>2. NotInTheWay(j)'
        BY <1>2, <2>4, <4>1, WayStays, Zenon
      <4> QED
        BY <3>1, <3>4, <4>2
    <3> QED
      BY <3>1, <3>2, <3>3, <3>4
  <2>10. Making'
    BY <2>6, <2>7, <2>8, <2>9, Zenon DEF Making
  <2>11. Left'
    <3>1. Found' = Found
      BY <1>2, <2>6 DEF Found
    <3>2. Found => EntriesThere
      BY <1>2 DEF InOrder, Left
    <3>3. EntriesThere => EntriesThere'
      BY <1>2, <2>4, <2>5, EntriesStay, Zenon
    <3> QED
      BY <3>1, <3>2, <3>3, Zenon DEF Left
  <2> QED
    BY <2>6, <2>10, <2>11 DEF InOrder, Standing, Started
<1> QED
  BY <1>3, <1>4

(* A step that leaves the files and the place in the list as they are      *)
LEMMA ModedUnchanged ==
  ASSUME IInv, UNCHANGED <<job, fs>>, dl'.names = dl.names,
         dl'.pc = dl.pc, dl'.i = dl.i
  PROVE  Moded => Moded'
<1>1. files' = files /\ Laid
  BY DEF files, IInv
<1> SUFFICES ASSUME Moded, NEW i \in DOMAIN files
             PROVE  IF dl'.pc = "fetch" \/ (dl'.pc = "mode" /\ i >= dl'.i)
                    THEN Writable(i)' ELSE HasMode(i)'
  BY <1>1, Zenon DEF Moded
<1>2. /\ Writable(i) => Writable(i)'
      /\ HasMode(i) => HasMode(i)'
  BY <1>1, EntriesUnchanged, Zenon
<1>3. IF dl.pc = "fetch" \/ (dl.pc = "mode" /\ i >= dl.i)
      THEN Writable(i) ELSE HasMode(i)
  BY Zenon DEF Moded
<1> QED
  BY <1>2, <1>3, Zenon

LEMMA AsideInOrder ==
  ASSUME IInv, InOrder, UNCHANGED <<job, fs, snaps, dl>>
  PROVE  InOrder'
<1>1. /\ files' = files /\ Laid /\ Found' = Found /\ Started' = Started
      /\ dl'.names = dl.names
  BY DEF files, IInv, Found, Started
<1>2. /\ EntriesThere => EntriesThere'
      /\ Apart => Apart'
      /\ Moded => Moded'
  BY <1>1, EntriesUnchanged, ModedUnchanged, Zenon
<1>3. ASSUME dl.pc = "mk"
      PROVE  Making'
  <2>1. ASSUME NEW i \in DOMAIN files
        PROVE  IF i < dl.i THEN EntryThere(i)' /\ Writable(i)' ELSE NotInTheWay(i)'
    <3>1. IF i < dl.i THEN EntryThere(i) /\ Writable(i) ELSE NotInTheWay(i)
      BY <1>3, Zenon DEF InOrder, Making
    <3> QED
      BY <1>1, <3>1, EntriesUnchanged, Zenon
  <2> QED
    BY <1>1, <1>2, <1>3, <2>1, Zenon DEF InOrder, Making
<1> QED
  BY <1>1, <1>2, <1>3, Zenon DEF InOrder, Making, Standing, Left

(* While blocks are fetched the files take data, and nothing else changes. *)
LEMMA WriteFor ==
  ASSUME Laid, Tree, Apart, NEW i \in DOMAIN files, files[i].size >= 0,
         NEW s, NEW off, NEW q, q = Target(fs, dl.names[i]),
         fs' = [fs EXCEPT ![q].data = Overwritten(@, off, s)],
         UNCHANGED <<job, dl>>, EntryThere(i)
  PROVE  StepFor(i) /\ EntryThere(i)' /\ (Writable(i) => Writable(i)')
<1>1. PICK data : data = Overwritten(fs[q].data, off, s)
  OBVIOUS
<1>2. fs' = [fs EXCEPT ![q].data = data]
  BY <1>1
<1>3. files[i].size \in Int /\ ~IsLink(i) /\ q = PlaceOf(i)
  BY EntryIs DEF IsLink, PlaceOf
<1>4. SameTree(fs', fs)
  BY <1>2, SameTreeData, Zenon DEF Tree
<1>5. StepFor(i)
  BY <1>2, <1>3, <1>4, SameTreeFor
<1>6. /\ q \in DOMAIN fs /\ fs[q].kind = "file"
      /\ fs[q].data = [o \in 1 .. files[i].size |-> fs[q].data[o]]
  BY <1>3 DEF EntryThere, FileThere
<1>7. fs[q] = Node("file", fs[q].data, fs[q].to, fs[q].mode)
  BY <1>6 DEF Tree, IsTree
<1>8. fs'[q] = [fs[q] EXCEPT !.data = data] /\ q \in DOMAIN fs'
  BY <1>2, <1>6
<1>9. fs'[q].kind = "file" /\ fs'[q].data = data /\ fs'[q].mode = fs[q].mode
  BY <1>7, <1>8 DEF Node
<1>10. DOMAIN fs[q].data = 1 .. files[i].size
  BY <1>6
<1>11. data = [o \in 1 .. files[i].size |-> data[o]]
  BY <1>1, <1>10 DEF Overwritten
<1>12. files' = files /\ Target(fs', dl'.names[i]) = q
  BY <1>3, <1>5, Zenon DEF files, StepFor, Stays
<1>13. FileThere(i)'
  <2>1. fs'[q].data = [o \in 1 .. files[i].size |-> fs'[q].data[o]]
    BY ONLY <1>9, <1>11
  <2>2. q \in DOMAIN fs' /\ fs'[q].kind = "file"
    BY <1>8, <1>9, Zenon
  <2> QED
    BY ONLY <1>12, <2>1, <2>2 DEF FileThere
<1>14. EntryThere(i)'
  BY <1>3, <1>12, <1>13 DEF EntryThere, IsLink
<1>15. Writable(i) => Writable(i)'
  BY <1>9, <1>12 DEF Writable
<1> QED
  BY <1>5, <1>14, <1>15

LEMMA WriteInOrder ==
  ASSUME IInv, Tree, InOrder, NEW t \in Threads, WritePart(t)
  PROVE  InOrder'
<1>1. PICK r : r = th[t]
  OBVIOUS
<1>2. /\ ThreadOK(r) /\ r.pc = "write" /\ r.total > 0 /\ dl.pc = "fetch" /\ Laid
      /\ UNCHANGED <<job, dl, snaps>>
  BY <1>1 DEF IInv, Fetchers, WritePart, ThreadOK, writing
<1>3. PICK f \in DOMAIN files : f = r.f /\ files[f].size >= 0
  <2>1. DOMAIN files = 1 .. file_count
    BY <1>2, Files
  <2>2. r.f \in 1 .. file_count /\ r.off \in Nat /\ r.off < files[r.f].size
        /\ files[r.f].size \in Int
    BY <1>2, PartAt
  <2> QED
    BY <2>1, <2>2
<1>4. \/ UNCHANGED fs
      \/ \E s : Overwrites(r, s)
  BY <1>1, Zenon DEF WritePart, Overwrites
<1>5. CASE UNCHANGED fs
  BY <1>2, <1>5, AsideInOrder
<1>6. ASSUME NEW s, Overwrites(r, s)
      PROVE  InOrder'
  <2>1. Apart /\ EntriesThere /\ \A i \in DOMAIN files : Writable(i)
    BY <1>2 DEF InOrder, Standing, Started, Moded
  <2>2. EntryThere(f)
    BY <2>1 DEF EntriesThere
  <2>3. PICK q, off : q = Target(fs, dl.names[f]) /\ off = r.off
    OBVIOUS
  <2>4. fs' = [fs EXCEPT ![q].data = Overwritten(@, off, s)]
    BY <1>3, <1>6, <2>3 DEF Overwrites
  <2>5. StepFor(f) /\ EntryThere(f)' /\ (Writable(f) => Writable(f)')
    BY <1>2, <1>3, <2>1, <2>2, <2>3, <2>4, WriteFor, Zenon
  <2>6. Apart'
    BY <2>1, <2>5, ApartStays
  <2>7. EntriesThere'
    BY <1>2, <2>1, <2>5, EntriesStay, Zenon
  <2>8. ASSUME NEW j \in DOMAIN files
        PROVE  Writable(j)'
    <3>1. CASE j = f
      BY <2>1, <2>5, <3>1
    <3>2. CASE j # f
      <4>1. EntryThere(j)
        BY <2>1 DEF EntriesThere
      <4> QED
        BY <1>2, <2>1, <2>5, <3>2, <4>1, ModeStays, Zenon
    <3> QED
      BY <3>1, <3>2
  <2>9. files' = files /\ dl'.pc = "fetch"
    BY <1>2 DEF files
  <2>10. Moded'
    BY <2>8, <2>9 DEF Moded
  <2> QED
    BY <2>6, <2>7, <2>9, <2>10 DEF InOrder, Making, Standing, Left, Started
<1> QED
  BY <1>4, <1>5, <1>6

LEMMA FetchInOrder ==
  ASSUME IInv, Tree, InOrder, NEW t \in Threads, Fetching(t)
  PROVE  InOrder'
<1>1. CASE WritePart(t)
  BY <1>1, WriteInOrder
<1>2. CASE ~WritePart(t)
  <2>1. dl.pc = "fetch" /\ Laid
    BY DEF IInv, Fetchers, Fetching, Request, sendblocks, writeblock, SendOpen,
           ev_fn_gsendfile, Sent, Receive, WritePart, WriteDone
  <2>2. UNCHANGED <<job, fs>>
    BY <1>2, Zenon
       DEF Fetching, sendblocks, writeblock, Request, SendOpen, ev_fn_gsendfile,
           Sent, Receive, WriteDone, sending
  <2>3. UNCHANGED dl \/ dl' = [dl EXCEPT !.got = dl.got \cup {th[t].b}]
    BY <1>2, Zenon
       DEF Fetching, sendblocks, writeblock, Request, SendOpen, ev_fn_gsendfile,
           Sent, Receive, WriteDone, sending
  <2>4. dl'.pc = dl.pc /\ dl'.names = dl.names /\ dl'.i = dl.i
    BY <2>3, ProcessFacts DEF ProcessRec
  <2>5. /\ EntriesThere => EntriesThere'
        /\ Apart => Apart'
        /\ Moded => Moded'
    BY <2>1, <2>2, <2>4, EntriesUnchanged, ModedUnchanged, Zenon
  <2>6. Started /\ Started'
    BY <2>1, <2>4 DEF Started
  <2>7. Standing'
    BY <2>5, <2>6, Zenon DEF InOrder, Standing
  <2> QED
    BY <2>1, <2>4, <2>7 DEF InOrder, Making, Left
<1> QED
  BY <1>1, <1>2

(* All has been made when the fetch begins, and can be written to.         *)
LEMMA StartInOrder ==
  ASSUME IInv, InOrder, StartFetch
  PROVE  InOrder' /\ Apart /\ EntriesThere
<1>1. dl.pc = "mk" /\ dl.i > file_count /\ UNCHANGED <<job, fs>> /\ Laid
  BY DEF StartFetch, unmoved, IInv
<1>2. dl'.pc = "fetch" /\ dl'.names = dl.names
  BY ProcessFacts DEF StartFetch, ProcessRec
<1>3. ASSUME NEW i \in DOMAIN files
      PROVE  EntryThere(i) /\ Writable(i)
  <2>1. i < dl.i
    BY <1>1, ProcessFacts, Files
  <2> QED
    BY <1>1, <2>1 DEF InOrder, Making
<1>4. Apart /\ EntriesThere
  BY <1>1, <1>3, Zenon DEF InOrder, Making, EntriesThere
<1>5. files' = files
  BY <1>1 DEF files
<1>6. Apart' /\ EntriesThere' /\ \A i \in DOMAIN files : Writable(i)'
  BY <1>1, <1>2, <1>3, <1>4, EntriesUnchanged, Zenon
<1>7. Moded'
  BY <1>2, <1>5, <1>6 DEF Moded
<1>8. Standing'
  BY <1>6, <1>7 DEF Standing
<1>9. Making' /\ Left'
  BY <1>2 DEF Making, Left
<1> QED
  BY <1>4, <1>8, <1>9 DEF InOrder

LEMMA EndInOrder ==
  ASSUME IInv, InOrder, EndFetch \/ Finish
  PROVE  InOrder'
<1>1. /\ UNCHANGED <<job, fs>> /\ Laid /\ dl'.names = dl.names
      /\ EndFetch => dl.pc = "fetch" /\ dl'.pc = "mode" /\ dl'.i = 1
      /\ Finish => dl.pc = "mode" /\ dl'.pc = "done" /\ dl.i > file_count
  BY ProcessFacts DEF EndFetch, Finish, unmoved, ProcessRec, IInv
<1>2. Started /\ Started' /\ dl'.pc \notin {"path", "mk"} /\ files' = files
  BY <1>1 DEF Started, files
<1>3. Apart' /\ EntriesThere'
  BY <1>1, <1>2, EntriesUnchanged, Zenon DEF InOrder, Standing
<1>4. Moded
  BY <1>2, Zenon DEF InOrder, Standing
<1>5. ASSUME NEW i \in DOMAIN files
      PROVE  IF dl'.pc = "fetch" \/ (dl'.pc = "mode" /\ i >= dl'.i)
             THEN Writable(i)' ELSE HasMode(i)'
  <2>1. i \in 1 .. file_count /\ dl.i \in Nat /\ file_count \in Nat
    BY <1>1, Files, ProcessFacts
  <2>2. CASE EndFetch
    <3>1. Writable(i)
      BY <1>1, <1>4, <2>2 DEF Moded
    <3>2. i >= dl'.i
      BY <1>1, <2>1, <2>2
    <3> QED
      BY <1>1, <2>2, <3>1, <3>2, EntriesUnchanged, Zenon
  <2>3. CASE Finish
    <3>1. ~(i >= dl.i)
      BY <1>1, <2>1, <2>3
    <3>2. HasMode(i)
      BY <1>1, <1>4, <2>3, <3>1 DEF Moded
    <3>3. HasMode(i)'
      BY <1>1, <3>2, EntriesUnchanged, Zenon
    <3> QED
      BY <1>1, <2>3, <3>3
  <2> QED
    BY <2>2, <2>3
<1>6. Moded'
  BY <1>2, <1>5, Zenon DEF Moded
<1> QED
  BY <1>2, <1>3, <1>6 DEF InOrder, Making, Standing, Left

LEMMA CrashInOrder ==
  ASSUME IInv, Saved, InOrder, Crash
  PROVE  InOrder'
<1>1. /\ UNCHANGED <<job, fs, snaps>> /\ Laid
      /\ dl.pc \in {"mk", "fetch", "mode"}
      /\ dl'.pc = "path" /\ dl'.names = dl.names /\ dl'.snap = dl.snap
  BY ProcessFacts DEF Crash, ProcessRec, IInv
<1>2. Found => EntriesThere
  <2>1. CASE dl.pc = "mk"
    BY <2>1 DEF InOrder, Left
  <2>2. CASE dl.pc # "mk"
    BY <1>1, <2>2 DEF InOrder, Standing, Started
  <2> QED
    BY <2>1, <2>2
<1>3. Found' => EntriesThere'
  <2>1. Found' = Found
    BY <1>1 DEF Found
  <2> QED
    BY <1>1, <1>2, <2>1, EntriesUnchanged, Zenon
<1> QED
  BY <1>1, <1>3 DEF InOrder, Making, Standing, Left, Started

(* A file has its mode when it has been set right, or need not be.         *)
LEMMA ModeInOrder ==
  ASSUME IInv, Tree, InOrder, correct_mode
  PROVE  InOrder'
<1>1. PICK i : i = dl.i
  OBVIOUS
<1>2. /\ dl.pc = "mode" /\ i \in 1 .. file_count /\ UNCHANGED job /\ Laid
      /\ Started /\ DOMAIN files = 1 .. file_count /\ file_count \in Nat
  BY <1>1, Files, ProcessFacts DEF correct_mode, unmoved, Started, IInv
<1>3. PICK q : q = Target(fs, dl.names[i])
  OBVIOUS
<1>4. \/ Fail
      \/ /\ Made(i, dl.cont) /\ ~NeedsMode(i) /\ UNCHANGED fs
      \/ /\ Made(i, dl.cont) /\ NeedsMode(i) /\ q \in DOMAIN fs
         /\ fs' = [fs EXCEPT ![q].mode = files[i].mode]
  BY <1>1, <1>3, Zenon DEF correct_mode
<1>5. CASE Fail
  <2>1. dl'.pc = "failed"
    BY <1>5, ProcessPc
  <2> QED
    BY <2>1 DEF InOrder, Making, Standing, Left, Started
<1>6. /\ Apart /\ EntriesThere /\ Moded
      /\ EntryThere(i) /\ Writable(i)
      /\ files[i].size \in Int /\ files[i].size >= -2
      /\ files[i].mode \in {"ro", "rw"}
      /\ IsLink(i) => files[i].mode = "rw"
  <2>1. Apart /\ EntriesThere /\ Moded
    BY <1>2 DEF InOrder, Standing
  <2>2. i >= dl.i
    BY <1>1, <1>2
  <2> QED
    BY <1>2, <2>1, <2>2, EntryIs DEF EntriesThere, Moded
<1>7. ASSUME Made(i, dl.cont), StepFor(i), EntryThere(i)', HasMode(i)'
      PROVE  InOrder'
  <2>1. dl'.pc = "mode" /\ dl'.i = i + 1 /\ dl'.names = dl.names
    BY <1>2, <1>7, MadeFacts
  <2>2. Apart' /\ EntriesThere'
    BY <1>2, <1>6, <1>7, ApartStays, EntriesStay, Zenon
  <2>3. ASSUME NEW j \in DOMAIN files
        PROVE  IF j >= i + 1 THEN Writable(j)' ELSE HasMode(j)'
    <3>1. EntryThere(j) /\ j \in Nat /\ i \in Nat
      BY <1>2, <1>6 DEF EntriesThere
    <3>2. IF j >= i THEN Writable(j) ELSE HasMode(j)
      BY <1>1, <1>2, <1>6 DEF Moded
    <3>3. j # i => /\ Writable(j) => Writable(j)'
                   /\ HasMode(j) => HasMode(j)'
      BY <1>2, <1>7, <3>1, ModeStays, Zenon
    <3>4. CASE j = i
      BY <1>7, <3>1, <3>4
    <3>5. CASE j > i
      BY <3>1, <3>2, <3>3, <3>5
    <3>6. CASE j < i
      BY <3>1, <3>2, <3>3, <3>6
    <3> QED
      BY <3>1, <3>4, <3>5, <3>6
  <2>4. files' = files
    BY <1>2 DEF files
  <2>5. Moded'
    BY <2>1, <2>3, <2>4, Zenon DEF Moded
  <2> QED
    BY <2>1, <2>2, <2>5 DEF InOrder, Making, Standing, Left
<1>8. CASE Made(i, dl.cont) /\ ~NeedsMode(i) /\ UNCHANGED fs
  <2>1. dl'.names = dl.names /\ files' = files
    BY <1>2, <1>8, MadeFacts DEF files
  <2>2. StepFor(i)
    BY <1>2, <1>8, <2>1, UnchangedFor
  <2>3. EntryThere(i)'
    BY <1>2, <1>6, <1>8, <2>1, EntriesUnchanged, Zenon
  <2>4. HasMode(i)
    <3>1. ~IsLink(i) => files[i].size >= 0 /\ files[i].mode = "rw"
      BY <1>6, <1>8 DEF NeedsMode, IsLink
    <3> QED
      BY <1>6, <3>1 DEF HasMode, Writable, EntryThere, FileThere
  <2>5. HasMode(i)'
    BY <1>2, <1>8, <2>1, <2>4, EntriesUnchanged, Zenon
  <2> QED
    BY <1>7, <1>8, <2>2, <2>3, <2>5
<1>9. CASE /\ Made(i, dl.cont) /\ NeedsMode(i) /\ q \in DOMAIN fs
           /\ fs' = [fs EXCEPT ![q].mode = files[i].mode]
  <2>1. dl'.names = dl.names /\ files' = files
    BY <1>2, <1>9, MadeFacts DEF files
  <2>2. ~IsLink(i)
    BY <1>6, <1>9 DEF NeedsMode, IsLink
  <2>3. q = PlaceOf(i)
    BY <1>3, <2>2 DEF PlaceOf
  <2>4. SameTree(fs', fs)
    BY <1>9, SameTreeMode, Zenon DEF Tree
  <2>5. StepFor(i)
    BY <1>2, <1>6, <1>9, <2>1, <2>3, <2>4, SameTreeFor
  <2>6. Target(fs', dl'.names[i]) = q /\ Real(fs', dl'.names[i]) = Real(fs, dl.names[i])
    BY <1>2, <1>3, <2>2, <2>5 DEF StepFor, Stays
  <2>7. fs[q] = Node(fs[q].kind, fs[q].data, fs[q].to, fs[q].mode)
    BY <1>9 DEF Tree, IsTree
  <2>8. fs'[q] = [fs[q] EXCEPT !.mode = files[i].mode] /\ q \in DOMAIN fs'
    BY <1>9
  <2>9. /\ fs'[q].kind = fs[q].kind /\ fs'[q].data = fs[q].data
        /\ fs'[q].mode = files[i].mode
    BY <2>7, <2>8 DEF Node
  <2>10. HasMode(i)'
    BY <2>1, <2>6, <2>8, <2>9 DEF HasMode
  <2>11. EntryThere(i)'
    <3>1. IsLink(i)' <=> IsLink(i)
      BY <2>1 DEF IsLink
    <3>2. files[i].size >= 0 => FileThere(i)'
      BY <1>3, <1>6, <2>1, <2>6, <2>8, <2>9 DEF EntryThere, FileThere
    <3>3. files[i].size = -1 => Real(fs', dl'.names[i]) \in DOMAIN fs' /\ DirThere(i)'
      BY <1>2, <1>3, <1>6, <1>9, <2>6, <2>8, <2>9 DEF EntryThere, DirThere
    <3> QED
      BY <2>1, <2>2, <3>1, <3>2, <3>3, Zenon DEF EntryThere
  <2> QED
    BY <1>7, <1>9, <2>5, <2>10, <2>11
<1> QED
  BY <1>4, <1>5, <1>8, <1>9

-----------------------------------------------------------------------------
(* What is in its place                                                    *)
LEMMA ResumableStays ==
  ASSUME UNCHANGED <<job, blocks, fs, snaps, short>>,
         dl'.names = dl.names, dl'.snap = dl.snap
  PROVE  Resumable => Resumable'
<1>1. Placed \subseteq Placed'
  BY UnchangedFiles
<1>2. Found' = Found
  BY DEF Found
<1>3. SnapPlaced => SnapPlaced'
  BY <1>1, BegunGrows DEF SnapPlaced
<1> QED
  BY <1>2, <1>3, Zenon DEF Resumable

LEMMA AsideSaved ==
  ASSUME Saved, UNCHANGED <<job, blocks, fs, snaps, dl, short>>
  PROVE  Saved'
<1>1. Resumable => Resumable'
  BY ResumableStays
<1>2. Started' = Started /\ Taken' = Taken
  BY DEF Started, Taken, Found
<1> QED
  BY <1>1, <1>2, Zenon DEF Saved

(* While blocks are fetched the snapshot is kept at what is fetched.       *)
LEMMA FetchSaved ==
  ASSUME IInv, Saved, NEW t \in Threads, Fetching(t)
  PROVE  Saved'
<1>1. dl.pc = "fetch"
  BY DEF IInv, Fetchers, Fetching, Request, sendblocks, writeblock, SendOpen,
         ev_fn_gsendfile, Sent, Receive, WritePart, WriteDone
<1>2. Taken /\ dl.names # Refused
  BY <1>1 DEF Saved, Started
<1>3. CASE WriteDone(t)
  <2>1. /\ dl'.pc = "fetch" /\ dl'.names = dl.names /\ dl'.snap = dl.snap
        /\ dl'.got = dl.got \cup {th[t].b}
        /\ snaps' = [snaps EXCEPT ![dl.snap] = dl.got \cup {th[t].b}]
    BY <1>1, <1>3, ProcessFacts DEF WriteDone, ProcessRec
  <2>2. Taken'
    BY <1>2, <2>1 DEF Taken, Found
  <2> QED
    BY <1>2, <2>1, <2>2 DEF Saved
<1>4. CASE ~WriteDone(t)
  <2>1. UNCHANGED <<dl, snaps>>
    BY <1>4, Zenon
       DEF Fetching, sendblocks, writeblock, Request, SendOpen, ev_fn_gsendfile,
           Sent, Receive, WritePart, sending, writing
  <2>2. Taken'
    BY <1>2, <2>1 DEF Taken, Found
  <2> QED
    BY <1>1, <1>2, <2>1, <2>2 DEF Saved
<1> QED
  BY <1>3, <1>4

LEMMA PathSaved ==
  ASSUME IInv, Saved, ProcessPath, SameNames
  PROVE  Saved'
<1>1. /\ dl.pc = "path" /\ UNCHANGED <<job, blocks, fs, snaps, short>>
      /\ \/ dl'.pc = "failed"
         \/ /\ dl'.pc = "mk" /\ dl'.i = 1 /\ dl'.names # Refused
            /\ Found' => /\ dl'.names = dl.names /\ dl'.snap = dl.snap
                         /\ Found /\ Taken'
            /\ ~Found' => ~dl'.cont
  BY PathIs
<1>2. CASE dl'.pc = "failed"
  BY <1>2 DEF Saved, Started
<1>3. CASE dl'.pc = "mk"
  <2>1. CASE Found'
    <3>1. Resumable'
      BY <1>1, <1>3, <2>1, ResumableStays DEF Saved
    <3> QED
      BY <1>1, <1>3, <2>1, <3>1 DEF Saved, Started
  <2>2. CASE ~Found'
    <3>1. Resumable'
      BY <2>2 DEF Resumable
    <3> QED
      BY <1>1, <1>3, <2>2, <3>1, Zenon DEF Saved, Started
  <2> QED
    BY <2>1, <2>2
<1> QED
  BY <1>1, <1>2, <1>3

(* Making an entry once more leaves the bytes that are in place; a file    *)
(* that is there and has its size is opened as it is.                      *)
LEMMA MakePlaces ==
  ASSUME IInv, Tree, Apart, EntriesThere, mk_dir_symlink_file, ~Fail
  PROVE  Placed \subseteq Placed'
<1>1. PICK i : i = dl.i
  OBVIOUS
<1>2. /\ i \in DOMAIN files /\ Laid /\ UNCHANGED job
      /\ \/ files[i].size = -1 /\ MakeDir(i)
         \/ IsLink(i) /\ MakeLink(i)
         \/ files[i].size >= 0 /\ ~IsLink(i) /\ MakeFile(i)
  BY <1>1, MakeIs
<1>3. StepFor(i)
  BY <1>1, MakeFor, Zenon
<1>4. ASSUME NEW f \in Regular, NEW o \in 0 .. files[f].size - 1, HasOwn(f, o)
      PROVE  HasOwn(f, o)'
  <2>1. /\ f \in DOMAIN files /\ files[f].size >= 0 /\ files[f].size \in Int
        /\ FileThere(f) /\ ~IsLink(f) /\ Stays(f)
    BY <1>2, <1>3, EntryIs DEF Regular, EntriesThere, EntryThere, StepFor, IsLink
  <2>2. PICK q : q = Target(fs, dl.names[f])
    OBVIOUS
  <2>3. /\ q \in DOMAIN fs /\ LocalData(f) = fs[q].data
        /\ DOMAIN fs[q].data = 1 .. files[f].size
        /\ Target(fs', dl'.names[f]) = q /\ PlaceOf(f) = q
    BY <2>1, <2>2 DEF FileThere, LocalData, Stays, PlaceOf
  <2>4. CASE f # i
    <3>1. q \in DOMAIN fs' /\ fs'[q] = fs[q]
      BY <1>3, <2>1, <2>3, <2>4 DEF StepFor, SameNode
    <3> QED
      BY <1>4, <2>3, <3>1 DEF HasOwn, LocalData
  <2>5. CASE f = i
    <3>1. MakeFile(i)
      BY <1>2, <2>1, <2>5
    <3>2. Touches(q) /\ Opened(i, q)
      BY <2>2, <2>5, <3>1, MakeFileDoes, Zenon
    <3>3. fs'[q] = File(Resized(fs[q].data, files[i].size), "rw")
      BY <2>3, <3>2, Zenon DEF Opened
    <3>4. q \in DOMAIN fs'
      BY <3>2 DEF Touches
    <3>5. LocalData(f)' = Resized(LocalData(f), files[f].size)
      BY <2>3, <2>5, <3>3, <3>4 DEF LocalData, File, Node
    <3>6. o + 1 \in 1 .. files[f].size
      BY <1>4, <2>1
    <3> QED
      BY <1>4, <2>3, <3>5, <3>6 DEF HasOwn, Resized
  <2> QED
    BY <2>4, <2>5
<1> QED
  BY <1>2, <1>4, PlacedGrows

LEMMA MakeSaved ==
  ASSUME IInv, Tree, Saved, InOrder, mk_dir_symlink_file
  PROVE  Saved'
<1>1. /\ dl.pc = "mk" /\ UNCHANGED <<job, blocks, snaps, short>>
      /\ dl.names # Refused
  BY MakeIs DEF Saved
<1>2. CASE Fail
  <2>1. dl'.pc = "failed"
    BY <1>2, ProcessPc
  <2> QED
    BY <2>1 DEF Saved, Started
<1>3. CASE ~Fail
  <2>1. Apart
    BY <1>1 DEF InOrder, Making
  <2>2. MadeSome(dl.i)
    BY <1>3, <2>1, MakeFor, Zenon
  <2>3. PICK cont : Made(dl.i, cont) /\ (cont => dl.cont)
    BY <2>2 DEF MadeSome
  <2>4. /\ dl'.pc = "mk" /\ dl'.names = dl.names /\ dl'.snap = dl.snap
        /\ dl'.got = dl.got /\ (dl'.cont => dl.cont)
    <3>1. /\ dl'.pc = "mk" /\ dl'.names = dl.names /\ dl'.snap = dl.snap
          /\ dl'.got = dl.got /\ dl'.cont = cont
      BY <1>1, <2>3, MadeFacts
    <3> QED
      BY <2>3, <3>1, Zenon
  <2>5. Taken' = Taken /\ Found' = Found
    BY <1>1, <2>4 DEF Taken, Found
  <2>6. Resumable'
    <3>1. CASE ~Found
      BY <2>5, <3>1 DEF Resumable
    <3>2. CASE Found
      <4>1. EntriesThere
        BY <1>1, <3>2 DEF InOrder, Left
      <4>2. Placed \subseteq Placed'
        BY <1>3, <2>1, <4>1, MakePlaces
      <4>3. SnapPlaced => SnapPlaced'
        BY <1>1, <2>4, <4>2, BegunGrows DEF SnapPlaced
      <4>4. Resumable
        BY <1>1 DEF Saved
      <4> QED
        BY <1>1, <3>2, <4>3, <4>4, Zenon DEF Resumable
    <3> QED
      BY <3>1, <3>2
  <2> QED
    BY <1>1, <2>4, <2>5, <2>6, Zenon DEF Saved, Started
<1> QED
  BY <1>2, <1>3

LEMMA FilesLocal ==
  ASSUME Laid, Apart, EntriesThere
  PROVE  LocalFiles
<1>1. ASSUME NEW f \in Regular
      PROVE  /\ Target(fs, dl.names[f]) \in DOMAIN fs
             /\ DOMAIN LocalData(f) = 1 .. files[f].size
  <2>1. f \in DOMAIN files /\ files[f].size >= 0
    BY DEF Regular
  <2>2. FileThere(f)
    BY <2>1 DEF EntriesThere, EntryThere
  <2> QED
    BY <2>2 DEF FileThere, LocalData
<1>2. ASSUME NEW f \in Regular, NEW g \in Regular
      PROVE  Own(f, g)
  <2>1. f \in DOMAIN files /\ ~IsLink(f) /\ g \in DOMAIN files /\ ~IsLink(g)
    BY EntryIs DEF Regular, IsLink
  <2> QED
    BY <2>1, Zenon DEF Apart
<1> QED
  BY <1>1, <1>2, Zenon DEF LocalFiles

LEMMA StartReady ==
  ASSUME IInv, Saved, InOrder, StartFetch
  PROVE  Ready' /\ Saved'
<1>1. dl.pc = "mk" /\ UNCHANGED <<job, blocks, fs, th, short>> /\ dl.names # Refused
  BY DEF StartFetch, unmoved, Saved
<1>2. PICK got : got = IF dl.cont THEN dl.got ELSE {}
  OBVIOUS
<1>3. /\ dl' = [dl EXCEPT !.pc = "fetch", !.got = got]
      /\ snaps' = [q \in DOMAIN snaps \cup {dl.snap} |->
                     IF q = dl.snap THEN got ELSE snaps[q]]
  BY <1>2, Zenon DEF StartFetch
<1>4. /\ dl'.pc = "fetch" /\ dl'.names = dl.names /\ dl'.snap = dl.snap
      /\ dl'.got = got
  BY <1>3, ProcessFacts DEF ProcessRec
<1>5. Taken'
  BY <1>3, <1>4 DEF Taken, Found
<1>6. Saved'
  BY <1>1, <1>4, <1>5 DEF Saved
<1>7. /\ LocalFiles => LocalFiles'
      /\ Placed \subseteq Placed'
  BY <1>1, <1>4, UnchangedFiles
<1>8. LocalFiles'
  <2>1. LocalFiles
    BY StartInOrder, FilesLocal DEF IInv
  <2> QED
    BY <1>7, <2>1
<1>9. ASSUME ~short
      PROVE  GotPlaced'
  <2>1. CASE dl.cont
    <3>1. Taken /\ Resumable
      BY <1>1, <2>1, Zenon DEF Saved
    <3>2. SnapPlaced
      BY <1>9, <3>1, Zenon DEF Taken, Resumable
    <3>3. got = snaps[dl.snap]
      BY <1>2, <2>1, <3>1, Zenon DEF Taken
    <3> QED
      BY <1>1, <1>4, <1>7, <3>2, <3>3, BegunGrows DEF SnapPlaced, GotPlaced
  <2>2. CASE ~dl.cont
    <3>1. got = {}
      BY <1>2, <2>2, Zenon
    <3> QED
      BY <1>4, <3>1 DEF GotPlaced
  <2> QED
    BY <2>1, <2>2
<1>10. WrittenPlaced'
  BY <1>1, AllIdle DEF WrittenPlaced
<1>11. Ready'
  BY <1>1, <1>4, <1>8, <1>9, <1>10, Zenon DEF Ready
<1> QED
  BY <1>6, <1>11

LEMMA EndSaved ==
  ASSUME IInv, Saved, EndFetch \/ correct_mode \/ Finish
  PROVE  Saved'
<1>1. Started /\ snaps' = snaps
  BY DEF EndFetch, correct_mode, Finish, Started
<1>2. Taken /\ dl.names # Refused
  BY <1>1 DEF Saved, Started
<1>3. CASE dl'.pc = "failed"
  BY <1>3 DEF Saved, Started
<1>4. CASE ~Fail
  <2>1. /\ dl'.names = dl.names /\ dl'.snap = dl.snap /\ dl'.got = dl.got
        /\ dl'.pc \in {"mode", "done"}
    <3>1. CASE EndFetch \/ Finish
      BY <3>1, ProcessFacts DEF EndFetch, Finish, ProcessRec
    <3>2. CASE correct_mode
      <4>1. Made(dl.i, dl.cont) /\ dl.pc = "mode"
        BY <1>4, <3>2, Zenon DEF correct_mode
      <4> QED
        BY <4>1, ProcessFacts DEF Made, ProcessRec
    <3> QED
      BY <3>1, <3>2
  <2>2. Taken'
    BY <1>1, <1>2, <2>1 DEF Taken, Found
  <2> QED
    BY <1>2, <2>1, <2>2 DEF Saved
<1>5. CASE Fail
  <2>1. dl'.pc = "failed"
    BY <1>5, ProcessFacts DEF Fail, ProcessRec
  <2> QED
    BY <1>3, <2>1
<1> QED
  BY <1>4, <1>5

(* What a killed process leaves is what its snapshot says.                 *)
LEMMA CrashSaved ==
  ASSUME IInv, Saved, Ready, Crash
  PROVE  Saved'
<1>1. /\ UNCHANGED <<job, blocks, fs, snaps, short>>
      /\ dl.pc \in {"mk", "fetch", "mode"}
  BY DEF Crash
<1>2. dl'.pc = "path" /\ dl'.names = dl.names /\ dl'.snap = dl.snap
  BY ProcessFacts DEF Crash, ProcessRec
<1>3. Resumable
  <2>1. CASE dl.pc = "mk"
    BY <2>1 DEF Saved
  <2>2. CASE dl.pc # "mk"
    <3>1. Started
      BY <1>1, <2>2 DEF Started
    <3>2. /\ dl.got = snaps[dl.snap]
          /\ ~short => GotPlaced
      BY <3>1, Zenon DEF Saved, Taken, Ready
    <3>3. GotPlaced => SnapPlaced
      BY <3>2 DEF GotPlaced, SnapPlaced
    <3> QED
      BY <3>2, <3>3, Zenon DEF Resumable
  <2> QED
    BY <2>1, <2>2
<1>4. Resumable'
  BY <1>1, <1>2, <1>3, ResumableStays
<1>5. dl.names # Refused
  BY <1>1 DEF Saved
<1> QED
  BY <1>2, <1>4, <1>5 DEF Saved, Started

LEMMA BlockBytes ==
  ASSUME Laid, NEW b \in Blocks
  PROVE  DOMAIN blocks[b].bytes = 1 .. blocks[b].size
<1>1. S \in Seq((1 .. file_count) \X Nat) /\ N = Len(S)
  BY Files DEF N
<1>2. PICK lo \in Nat, hi \in Nat :
        /\ lo = Lo(b) /\ hi = Hi(b) /\ hi = lo + blocks[b].size
        /\ lo <= hi /\ hi <= Len(S)
  <2>1. /\ Lo(b) \in Nat /\ Hi(b) \in Nat /\ Hi(b) = Lo(b) + blocks[b].size
        /\ blocks[b].size \in Nat /\ Hi(b) <= N
    BY BlockIs
  <2>2. Lo(b) <= Hi(b)
    BY <2>1
  <2> QED
    BY <1>1, <2>1, <2>2, Zenon
<1>3. blocks[b].bytes = SubSeq(S, lo + 1, hi)
  BY <1>2, Cut
<1>4. /\ SubSeq(S, lo + 1, hi) \in Seq((1 .. file_count) \X Nat)
      /\ Len(SubSeq(S, lo + 1, hi)) = hi - lo
  BY <1>1, <1>2, PartOf, SMTT(40)
<1>5. DOMAIN SubSeq(S, lo + 1, hi) = 1 .. hi - lo
  BY <1>4
<1>6. hi - lo = blocks[b].size
  BY <1>2, BlockIs
<1> QED
  BY <1>3, <1>5, <1>6, Zenon

-----------------------------------------------------------------------------
(* A step of the whole                                                     *)
LEMMA NextReady ==
  ASSUME IInv, Tree, Ready, Saved, InOrder, DigestOfBlock, Next,
         SameNames, NamedAsAsked'
  PROVE  Ready' /\ Saved' /\ InOrder'
<1>1. ASSUME NEW t \in Threads, Fetching(t)
      PROVE  Ready' /\ Saved' /\ InOrder'
  <2>1. Saved' /\ InOrder'
    BY <1>1, FetchSaved, FetchInOrder
  <2>2. Ready'
    BY <1>1, RequestReady, WritePartReady, WriteDoneReady, Zenon
       DEF Fetching, writeblock
  <2> QED
    BY <2>1, <2>2
<1>2. CASE ProcessPath \/ mk_dir_symlink_file \/ Crash
  <2>1. Ready'
    BY <1>2, NotStarted DEF Ready
  <2>2. Saved'
    BY <1>2, PathSaved, MakeSaved, CrashSaved, Zenon
  <2>3. InOrder'
    BY <1>2, PathInOrder, MakeInOrder, CrashInOrder, Zenon
  <2> QED
    BY <2>1, <2>2, <2>3
<1>3. CASE StartFetch
  BY <1>3, StartReady, StartInOrder
<1>4. CASE EndFetch \/ correct_mode \/ Finish
  <2>1. Saved'
    BY <1>4, EndSaved
  <2>2. Ready'
    BY <1>4, EndReady, ModeReady, Zenon
  <2>3. InOrder'
    BY <1>4, EndInOrder, ModeInOrder, Zenon
  <2> QED
    BY <2>1, <2>2, <2>3
<1>5. CASE xor_hash_block \/ Alter
  <2>1. UNCHANGED <<job, blocks, fs, th, dl, short, snaps>>
    BY <1>5, Zenon DEF xor_hash_block, Alter
  <2> QED
    BY <2>1, AsideReady, AsideSaved, AsideInOrder
<1> QED
  BY <1>1, <1>2, <1>3, <1>4, <1>5, Zenon DEF Next, OnItsWay

LEMMA StutterReady ==
  ASSUME IInv, Ready, Saved, InOrder, UNCHANGED vars
  PROVE  Ready' /\ Saved' /\ InOrder'
<1>1. UNCHANGED <<job, blocks, fs, th, dl, short, snaps>>
  BY DEF vars
<1> QED
  BY <1>1, AsideReady, AsideSaved, AsideInOrder

LEMMA InitReady == Init => Ready /\ Saved /\ InOrder
<1> SUFFICES ASSUME Init PROVE Ready /\ Saved /\ InOrder
  OBVIOUS
<1>1. dl.pc = "path" /\ snaps = [q \in {} |-> {}]
  BY DEF Init
<1>2. DOMAIN snaps = {}
  BY <1>1
<1> QED
  BY <1>1, <1>2
     DEF Ready, Saved, Started, Resumable, Found, InOrder, Making, Standing, Left

(* Nothing that counts as fetched is missing.                              *)
LEMMA PlacedNotMissing ==
  ASSUME Laid, GotPlaced, dl.got \subseteq Blocks
  PROVE  \A b \in dl.got : \A k \in DOMAIN blocks[b].bytes :
           blocks[b].bytes[k] \in Placed
<1> SUFFICES ASSUME NEW b \in dl.got, NEW k \in DOMAIN blocks[b].bytes
             PROVE  blocks[b].bytes[k] \in Placed
  OBVIOUS
<1>1. DOMAIN blocks[b].bytes = 1 .. blocks[b].size
  BY Cut, BlockBytes
<1> QED
  BY <1>1 DEF GotPlaced, Begun

(* What the theorems below take from elsewhere: the source has hashed its  *)
(* blocks right; the names that process_path gives a job lead to places of *)
(* their own with nothing in the way (NamedAsAsked); and a job that is     *)
(* started again over a snapshot has the names it had.  The last two are   *)
(* what process_path makes of paths and links, which TLC checks.           *)
Given == [](DigestOfBlock) /\ []NamedAsAsked /\ [][SameNames]_vars

LEMMA ReadyStep ==
  ASSUME IInv, Tree, Ready, Saved, InOrder, DigestOfBlock, [Next]_vars,
         [SameNames]_vars, NamedAsAsked'
  PROVE  Ready' /\ Saved' /\ InOrder'
<1>1. CASE UNCHANGED vars
  BY <1>1, StutterReady
<1>2. CASE ~UNCHANGED vars
  BY <1>2, NextReady, Zenon
<1> QED
  BY <1>1, <1>2

LEMMA KeptReady == Spec /\ Given => [](IInv /\ Tree /\ Ready /\ Saved /\ InOrder)
<1>1. Init => Tree /\ Ready /\ Saved /\ InOrder
  BY InitTree, InitReady
<1>2. IInv /\ Tree /\ Ready /\ Saved /\ InOrder /\ DigestOfBlock /\ [Next]_vars
        /\ [SameNames]_vars /\ NamedAsAsked'
        => Tree' /\ Ready' /\ Saved' /\ InOrder'
  BY NextTree, ReadyStep
<1> QED
  BY <1>1, <1>2, TransferInvariant, PTL DEF Spec, Given

(* A block that counts as fetched is in its place, whole: also after the   *)
(* process has been killed and has gone on from its snapshot, also while   *)
(* other threads write to the same files, whatever the source has sent.    *)
THEOREM TransferFetchedIsPlaced == Spec /\ Given => []FetchedIsPlaced
<1>1. IInv /\ Ready => FetchedIsPlaced
  <2>1. ASSUME IInv, Ready, Started PROVE LocalFiles
    BY <2>1 DEF Ready
  <2>2. ASSUME IInv, Ready, Started, ~short,
               NEW b \in dl.got, NEW k \in DOMAIN blocks[b].bytes
        PROVE  blocks[b].bytes[k] \notin Missing
    <3>1. GotPlaced
      BY <2>2, Zenon DEF Ready
    <3>2. Laid /\ dl.got \subseteq Blocks
      BY <2>2 DEF IInv, Process
    <3>3. blocks[b].bytes[k] \in Placed
      BY <2>2, <3>1, <3>2, PlacedNotMissing, Zenon
    <3> QED
      BY <3>3 DEF Missing
  <2> QED
    BY <2>1, <2>2, Zenon DEF FetchedIsPlaced, Started
<1> QED
  BY <1>1, KeptReady, PTL

-----------------------------------------------------------------------------
(* The steps of FileCopy                                                   *)

Lacking == IF Started THEN Missing ELSE Bytes

Outcome == IF dl.pc \in {"done", "failed"} THEN dl.pc ELSE "none"

BytesPlaced ==
  /\ Outcome = "none" /\ Outcome' = "none"
  /\ Lacking' \subseteq Lacking /\ UNCHANGED <<crashes, short>>

CopyStep ==
  \/ BytesPlaced
  \/ Outcome = "none" /\ (~short => Lacking = {}) /\ Outcome' = "done"
     /\ UNCHANGED <<crashes, short>> /\ Lacking' = Lacking
  \/ Outcome = "none" /\ Outcome' = "failed" /\ UNCHANGED <<crashes, short>>
  \/ Outcome = "none" /\ Outcome' = "none" /\ crashes' = crashes + 1 /\ UNCHANGED short
  \/ short' = TRUE
  \/ UNCHANGED <<Lacking, Outcome, crashes, short>>

LEMMA CopyStepIs ==
  ASSUME CopyStep, short \in BOOLEAN
  PROVE  [Copy!Next]_(Copy!vars)
<1>1. CASE UNCHANGED <<Lacking, Outcome, crashes, short>>
  BY <1>1, Zenon DEF Copy!vars, Lacking, Outcome, Started
<1>2. CASE short' = TRUE
  BY <1>2, Zenon DEF Copy!Next, Copy!Spoil
<1>3. CASE BytesPlaced
  BY <1>3, Zenon DEF Copy!Next, Copy!Place, BytesPlaced, Lacking, Outcome, Started
<1>4. CASE Outcome = "none" /\ Outcome' = "failed" /\ UNCHANGED <<crashes, short>>
  BY <1>4, Zenon DEF Copy!Next, Copy!Fail, Outcome
<1>5. CASE /\ Outcome = "none" /\ Outcome' = "none" /\ crashes' = crashes + 1
           /\ UNCHANGED short
  BY <1>5, Zenon DEF Copy!Next, Copy!Restart, Outcome
<1>6. CASE /\ Outcome = "none" /\ (~short => Lacking = {}) /\ Outcome' = "done"
           /\ UNCHANGED <<crashes, short>> /\ Lacking' = Lacking
  <2>1. CASE ~short
    BY <1>6, <2>1, Zenon DEF Copy!Next, Copy!Report, Lacking, Outcome, Started
  <2>2. CASE short
    BY <1>2, <1>6, <2>2, Zenon
  <2> QED
    BY <2>1, <2>2
<1> QED
  BY <1>1, <1>2, <1>3, <1>4, <1>5, <1>6, Zenon DEF CopyStep

(* Bytes that are in their places stay there.                              *)
LEMMA LackingFalls ==
  ASSUME UNCHANGED blocks, Placed \subseteq Placed', Started'
  PROVE  Lacking' \subseteq Lacking
<1>1. Bytes' = Bytes
  BY DEF Bytes, Blocks
<1>2. Missing' \subseteq Missing /\ Missing \subseteq Bytes /\ Missing' \subseteq Bytes
  BY <1>1 DEF Missing
<1> QED
  BY <1>2 DEF Lacking

LEMMA WritePartPlaces ==
  ASSUME IInv, Tree, Ready, DigestOfBlock, NEW t \in Threads, WritePart(t)
  PROVE  short' = TRUE \/ (Placed \subseteq Placed' /\ UNCHANGED short)
<1>1. PICK r : r = th[t]
  OBVIOUS
<1>2. /\ ThreadOK(r) /\ r.pc = "write" /\ r.total > 0
      /\ dl.pc = "fetch" /\ UNCHANGED <<job, blocks, dl>>
  BY <1>1 DEF IInv, Fetchers, WritePart, ThreadOK, writing
<1>3. LocalFiles
  BY <1>2 DEF Ready, Started
<1>4. ASSUME NEW s, s = SubSeq(Buffer(r, r.b), r.cnt + 1, r.cnt + PartLen(r)),
             Overwrites(r, s), ~short
      PROVE  Placed \subseteq Placed'
  <2>1. PICK n : n = PartLen(r)
    OBVIOUS
  <2>2. Turn(r, n, s)
    BY <1>2, <1>4, <2>1, Zenon DEF Turn
  <2> QED
    BY <1>1, <1>2, <1>3, <1>4, <2>2, TurnPlaces, Zenon
<1>5. CASE UNCHANGED <<fs, short>>
  BY <1>2, <1>5, UnchangedFiles
<1>6. \/ /\ \E s : /\ s = SubSeq(Buffer(r, r.b), r.cnt + 1, r.cnt + PartLen(r))
                   /\ Overwrites(r, s)
         /\ UNCHANGED short
      \/ short' = TRUE
      \/ UNCHANGED <<fs, short>>
  BY <1>1, Zenon DEF WritePart, PartLen, Overwrites
<1>7. short \in BOOLEAN
  BY DEF IInv, Flags
<1>8. CASE short
  BY <1>6, <1>7, <1>8, Zenon
<1> QED
  BY <1>4, <1>5, <1>6, <1>8, Zenon

LEMMA FetchingCopies ==
  ASSUME IInv, Tree, Ready, DigestOfBlock, NEW t \in Threads, Fetching(t)
  PROVE  CopyStep
<1>1. dl.pc = "fetch"
  BY DEF IInv, Fetchers, Fetching, Request, sendblocks, writeblock, SendOpen,
         ev_fn_gsendfile, Sent, Receive, WritePart, WriteDone
<1>2. /\ dl'.pc = dl.pc /\ dl'.names = dl.names
      /\ UNCHANGED <<job, blocks, crashes>>
  <2>1. CASE WriteDone(t)
    <3>1. dl' = [dl EXCEPT !.got = dl.got \cup {th[t].b}]
          /\ UNCHANGED <<job, blocks, crashes>>
      BY <2>1 DEF WriteDone
    <3> QED
      BY <3>1, ProcessFacts DEF ProcessRec
  <2>2. CASE ~WriteDone(t)
    BY <2>2, Zenon
       DEF Fetching, sendblocks, writeblock, Request, SendOpen, ev_fn_gsendfile,
           Sent, Receive, WritePart, sending, writing
  <2> QED
    BY <2>1, <2>2
<1>3. Outcome = "none" /\ Outcome' = "none" /\ Started'
  BY <1>1, <1>2 DEF Outcome, Started
<1>4. short' = TRUE \/ (Placed \subseteq Placed' /\ UNCHANGED short)
  <2>1. CASE WritePart(t)
    BY <2>1, WritePartPlaces
  <2>2. CASE ~WritePart(t)
    <3>1. UNCHANGED <<fs, short>>
      BY <2>2, Zenon
         DEF Fetching, sendblocks, writeblock, Request, SendOpen, ev_fn_gsendfile,
             Sent, Receive, WriteDone, sending
    <3> QED
      BY <1>2, <3>1, UnchangedFiles
  <2> QED
    BY <2>1, <2>2
<1>5. CASE Placed \subseteq Placed' /\ UNCHANGED short
  <2>1. Lacking' \subseteq Lacking
    BY <1>2, <1>3, <1>5, LackingFalls
  <2> QED
    BY <1>2, <1>3, <1>5, <2>1, Zenon DEF CopyStep, BytesPlaced
<1> QED
  BY <1>4, <1>5, Zenon DEF CopyStep

(* Before the fetch: nothing is in its place yet, or the job fails.        *)
LEMMA BeforeCopies ==
  ASSUME IInv, ProcessPath \/ mk_dir_symlink_file
  PROVE  CopyStep
<1>1. dl.pc \in {"path", "mk"} /\ UNCHANGED <<blocks, crashes, short>>
  BY DEF ProcessPath, mk_dir_symlink_file, unmoved
<1>2. ~Started /\ ~Started'
  BY <1>1, NotStarted DEF Started
<1>3. Outcome = "none"
  BY <1>1 DEF Outcome
<1>4. Outcome' \in {"none", "failed"}
  BY <1>2 DEF Outcome, Started
<1>5. Lacking' = Lacking
  BY <1>1, <1>2 DEF Lacking, Bytes, Blocks
<1> QED
  BY <1>1, <1>3, <1>4, <1>5 DEF CopyStep, BytesPlaced

LEMMA StartCopies ==
  ASSUME IInv, StartFetch
  PROVE  CopyStep
<1>1. dl.pc = "mk" /\ UNCHANGED <<blocks, crashes, short>>
  BY DEF StartFetch, unmoved
<1>2. dl'.pc = "fetch"
  BY ProcessFacts DEF StartFetch, ProcessRec
<1>3. Outcome = "none" /\ Outcome' = "none"
  BY <1>1, <1>2 DEF Outcome
<1>4. Bytes' = Bytes
  BY <1>1 DEF Bytes, Blocks
<1>5. Lacking = Bytes /\ Lacking' \subseteq Bytes'
  BY <1>1 DEF Lacking, Started, Missing
<1> QED
  BY <1>1, <1>3, <1>4, <1>5 DEF CopyStep, BytesPlaced

(* All blocks are here: nothing is missing.                                *)
LEMMA NothingMissing ==
  ASSUME IInv, Ready, dl.pc = "mode", ~short
  PROVE  Lacking = {}
<1>1. dl.got = Blocks /\ GotPlaced
  <2>1. Started /\ dl.pc # "fetch"
    BY DEF Started
  <2> QED
    BY <2>1, Zenon DEF Ready
<1>2. \A b \in dl.got : \A k \in DOMAIN blocks[b].bytes : blocks[b].bytes[k] \in Placed
  BY <1>1, PlacedNotMissing DEF IInv
<1>3. Missing = {}
  BY <1>1, <1>2 DEF Missing, Bytes, Range
<1> QED
  BY <1>3 DEF Lacking, Started

LEMMA EndCopies ==
  ASSUME IInv, Tree, Ready, EndFetch \/ correct_mode \/ Finish
  PROVE  CopyStep
<1>1. /\ dl.pc \in {"fetch", "mode"} /\ Outcome = "none" /\ Started
      /\ UNCHANGED <<job, blocks, crashes, short>>
  BY DEF EndFetch, correct_mode, Finish, unmoved, Outcome, Started
<1>2. CASE Finish
  <2>1. /\ dl.pc = "mode" /\ dl'.pc = "done" /\ dl'.names = dl.names /\ fs' = fs
    BY <1>2, ProcessFacts DEF Finish, ProcessRec
  <2>2. Outcome' = "done" /\ Started'
    BY <2>1 DEF Outcome, Started
  <2>3. Lacking' = Lacking
    BY <1>1, <2>1, <2>2
       DEF Lacking, Missing, Bytes, Blocks, Placed, LocalData, Regular, files
  <2>4. ~short => Lacking = {}
    BY <2>1, NothingMissing, Zenon
  <2> QED
    BY <1>1, <2>2, <2>3, <2>4, Zenon DEF CopyStep
<1>3. CASE Fail
  <2>1. dl'.pc = "failed"
    BY <1>3, ProcessFacts DEF Fail, ProcessRec
  <2>2. Outcome' = "failed"
    BY <2>1 DEF Outcome
  <2> QED
    BY <1>1, <2>2, Zenon DEF CopyStep
<1>4. CASE EndFetch
  <2>1. dl'.pc = "mode" /\ dl'.names = dl.names /\ fs' = fs
    BY <1>4, ProcessFacts DEF EndFetch, ProcessRec
  <2>2. Outcome' = "none" /\ Started'
    BY <2>1 DEF Outcome, Started
  <2>3. Lacking' \subseteq Lacking
    BY <1>1, <2>1, <2>2, UnchangedFiles, LackingFalls
  <2> QED
    BY <1>1, <2>2, <2>3, Zenon DEF CopyStep, BytesPlaced
<1>5. CASE correct_mode /\ ~Fail
  <2>1. Made(dl.i, dl.cont) /\ dl.pc = "mode"
    BY <1>5, Zenon DEF correct_mode
  <2>2. dl'.names = dl.names /\ dl'.pc = "mode"
    BY <2>1, ProcessFacts DEF Made, ProcessRec
  <2>3. SameTree(fs', fs) /\ \A x \in DOMAIN fs : fs'[x].data = fs[x].data
    <3>1. CASE UNCHANGED fs
      BY <3>1 DEF SameTree
    <3>2. CASE \E q, mode : fs' = [fs EXCEPT ![q].mode = mode]
      BY <3>2, SameTreeMode, Zenon DEF Tree
    <3> QED
      BY <1>5, <3>1, <3>2, Zenon DEF correct_mode
  <2>4. Placed \subseteq Placed'
    BY <1>1, <2>2, <2>3, SameFiles
  <2>5. Outcome' = "none" /\ Started'
    BY <2>2 DEF Outcome, Started
  <2>6. Lacking' \subseteq Lacking
    BY <1>1, <2>4, <2>5, LackingFalls
  <2> QED
    BY <1>1, <2>5, <2>6, Zenon DEF CopyStep, BytesPlaced
<1> QED
  BY <1>2, <1>3, <1>4, <1>5

LEMMA CrashCopies ==
  ASSUME IInv, Crash
  PROVE  CopyStep
<1>1. /\ dl.pc \in {"mk", "fetch", "mode"} /\ crashes' = crashes + 1
      /\ UNCHANGED short
  BY DEF Crash
<1>2. dl'.pc = "path"
  BY ProcessFacts DEF Crash, ProcessRec
<1>3. Outcome = "none" /\ Outcome' = "none"
  BY <1>1, <1>2 DEF Outcome
<1> QED
  BY <1>1, <1>3, Zenon DEF CopyStep

LEMMA AsideCopies ==
  ASSUME UNCHANGED <<job, blocks, fs, dl, crashes, short>>
  PROVE  CopyStep
<1>1. Lacking' = Lacking /\ Outcome' = Outcome
  BY DEF Lacking, Missing, Bytes, Blocks, Placed, LocalData, Regular, files,
         Started, Outcome
<1> QED
  BY <1>1, Zenon DEF CopyStep

LEMMA NextCopies ==
  ASSUME IInv, Tree, Ready, DigestOfBlock, [Next]_vars
  PROVE  [Copy!Next]_(Copy!vars)
<1> SUFFICES CopyStep
  BY CopyStepIs DEF IInv, Flags
<1>1. CASE xor_hash_block \/ Alter \/ UNCHANGED vars
  <2>1. UNCHANGED <<job, blocks, fs, dl, crashes, short>>
    BY <1>1, Zenon DEF xor_hash_block, Alter, vars
  <2> QED
    BY <2>1, AsideCopies
<1>2. CASE ~(xor_hash_block \/ Alter \/ UNCHANGED vars)
  BY <1>2, BeforeCopies, StartCopies, EndCopies, CrashCopies, FetchingCopies, Zenon
     DEF Next, OnItsWay
<1> QED
  BY <1>1, <1>2

(* Fetching a job does what FileCopy promises: bytes come to their places  *)
(* and stay there, whatever fails and whenever the process is killed, and  *)
(* it is reported done when none is missing.                               *)
THEOREM TransferImplementsCopy == Spec /\ Given => ImplementsCopy
<1>1. Init => Copy!Init
  BY DEF Init, Copy!Init
<1>2. IInv /\ Tree /\ Ready /\ Saved /\ DigestOfBlock /\ [Next]_vars
        => [Copy!Next]_(Copy!vars)
  BY NextCopies
<1> QED
  BY <1>1, <1>2, KeptReady, PTL DEF Spec, Given, ImplementsCopy, Copy!Spec

-----------------------------------------------------------------------------
(* What is reported done                                                   *)

(* Every byte of the stream is in some block.                              *)
LEMMA DivIs ==
  ASSUME NEW n \in Nat
  PROVE  \E c \in Nat : Lo(c) <= n /\ n < Lo(c + 1)
<1>1. n \div BLOCK_SIZE \in Nat
  BY TransferAssumption
<1>2. /\ BLOCK_SIZE * (n \div BLOCK_SIZE) <= n
      /\ n < BLOCK_SIZE * ((n \div BLOCK_SIZE) + 1)
  BY TransferAssumption
<1> QED
  BY <1>1, <1>2 DEF Lo

LEMMA InSomeBlock ==
  ASSUME Laid, NEW p \in 1 .. N
  PROVE  \E b \in Blocks : Lo(b) < p /\ p <= Hi(b)
<1>1. N \in Nat /\ p \in Nat /\ p >= 1 /\ p <= N
  BY Files
<1>2. PICK c \in Nat : Lo(c) <= p - 1 /\ p - 1 < Lo(c + 1)
  <2>1. p - 1 \in Nat
    BY <1>1
  <2> QED
    BY <2>1, DivIs
<1>3. Lo(c) < p /\ p <= Lo(c + 1) /\ Lo(c) \in Nat
  <2>1. \A b \in Nat : Lo(b) \in Nat
    BY LoFacts
  <2>2. Lo(c) \in Nat /\ Lo(c + 1) \in Nat
    BY <2>1
  <2> QED
    BY <1>1, <1>2, <2>2
<1>4. Blocks = 0 .. block_count - 1 /\ block_count \in Nat
  BY Cut
<1>5. c \in Blocks
  <2> SUFFICES ASSUME c >= block_count PROVE FALSE
    BY <1>4
  <2>1. CASE block_count = 0
    <3>1. Blocks = {}
      BY <1>4, <2>1
    <3>2. BLOCK_COUNT(N) = 0
      <4>1. blocks = CutInBlocks /\ BLOCK_COUNT(N) \in Nat
        BY <1>1, Counted DEF Laid
      <4>2. DOMAIN blocks = 0 .. BLOCK_COUNT(N) - 1
        BY <4>1 DEF CutInBlocks, N, S
      <4>3. BLOCK_COUNT(N) # 0 => 0 \in 0 .. BLOCK_COUNT(N) - 1
        BY <4>1
      <4> QED
        BY <3>1, <4>2, <4>3, Zenon DEF Blocks
    <3> QED
      BY <1>1, <3>2, Counted, TransferAssumption
  <2>2. CASE block_count > 0
    <3>1. PICK d \in Blocks : d = block_count - 1
      BY <1>4, <2>2
    <3>2. d \in Nat /\ d + 1 <= c /\ d + 1 \in Nat /\ d + 1 \notin Blocks
      BY <1>4, <3>1
    <3>3. Hi(d) = N /\ Hi(d) = Lo(d) + blocks[d].size /\ Lo(d) \in Nat
          /\ blocks[d].size \in 1 .. BLOCK_SIZE
      BY <3>2, Cut DEF Hi
    <3>4. Lo(d + 1) <= Lo(c) /\ Lo(d + 1) = Lo(d) + BLOCK_SIZE
      BY <3>2, LoFacts
    <3> QED
      BY <1>1, <1>3, <3>3, <3>4, TransferAssumption
  <2> QED
    BY <1>4, <2>1, <2>2
<1>6. CASE c + 1 \in Blocks
  <2>1. Hi(c) = Lo(c + 1)
    BY <1>5, <1>6, Cut
  <2> QED
    BY <1>3, <1>5, <2>1
<1>7. CASE c + 1 \notin Blocks
  <2>1. Hi(c) = N
    BY <1>5, <1>7, Cut
  <2> QED
    BY <1>1, <1>3, <1>5, <2>1
<1> QED
  BY <1>6, <1>7

LEMMA EveryBytePlaced ==
  ASSUME Laid, GotPlaced, dl.got = Blocks, NEW p \in 1 .. N
  PROVE  S[p] \in Placed
<1>1. PICK b \in Blocks : Lo(b) < p /\ p <= Hi(b)
  BY InSomeBlock
<1>2. PICK lo \in Nat, hi \in Nat :
        /\ lo = Lo(b) /\ hi = Hi(b) /\ hi = lo + blocks[b].size
        /\ lo <= hi /\ hi <= N
  <2>1. /\ Lo(b) \in Nat /\ Hi(b) \in Nat /\ Hi(b) = Lo(b) + blocks[b].size
        /\ blocks[b].size \in Nat /\ Hi(b) <= N
    BY BlockIs
  <2>2. Lo(b) <= Hi(b)
    BY <2>1
  <2> QED
    BY <2>1, <2>2, Zenon
<1>3. PICK k \in 1 .. hi - lo : lo + k = p /\ k \in 1 .. blocks[b].size
  <2>1. p \in Nat /\ blocks[b].size \in Nat
    BY Files, BlockIs
  <2>2. lo < p /\ p <= hi /\ hi = lo + blocks[b].size
    BY <1>1, <1>2, Zenon
  <2>3. p - lo \in 1 .. hi - lo /\ lo + (p - lo) = p /\ hi - lo = blocks[b].size
    BY <2>1, <2>2
  <2> QED
    BY <2>3
<1>4. blocks[b].bytes = SubSeq(S, lo + 1, hi)
  BY <1>2, Cut
<1>5. SubSeq(S, lo + 1, hi)[k] = S[lo + k]
  <2>1. \A j \in 1 .. hi - lo : SubSeq(S, lo + 1, hi)[j] = S[lo + j]
    BY <1>2, StreamPart, Zenon
  <2> QED
    BY <2>1, Zenon
<1>6. blocks[b].bytes[k] \in Placed
  BY <1>3 DEF GotPlaced, Begun
<1> QED
  BY <1>3, <1>4, <1>5, <1>6, Zenon

LEMMA WholeFile ==
  ASSUME Laid, GotPlaced, dl.got = Blocks, NEW f \in 1 .. file_count,
         files[f].size \in Nat
  PROVE  \A o \in 1 .. files[f].size : HasOwn(f, o - 1)
<1> SUFFICES ASSUME NEW o \in 1 .. files[f].size
             PROVE  HasOwn(f, o - 1)
  OBVIOUS
<1>1. files[f].size > 0
  OBVIOUS
<1>2. PICK p \in 1 .. N : S[p] = <<f, 0>>
  BY <1>1, FileInStream
<1>3. S[p][1] = f /\ S[p][2] = 0 /\ p \in Nat /\ N \in Nat
  BY <1>2, Files
<1>4. /\ p + files[f].size <= N + 1
      /\ \A q \in p .. p + files[f].size - 1 : S[q] = <<f, q - p>>
  BY <1>3, StreamAt
<1>5. PICK q \in 1 .. N : q = p + (o - 1) /\ q \in p .. p + files[f].size - 1
  BY <1>3, <1>4
<1>6. q - p = o - 1
  BY <1>3, <1>5
<1>7. <<f, o - 1>> \in Placed
  BY <1>4, <1>5, <1>6, EveryBytePlaced
<1> QED
  BY <1>7, InPlaced

LEMMA SourceBytes ==
  ASSUME NEW f, files[f].size \in Nat
  PROVE  Source(f) = [o \in 1 .. files[f].size |-> <<f, o - 1>>]
<1>1. Max({files[f].size, 0}) = files[f].size
  BY DEF Max
<1> QED
  BY <1>1 DEF Source, FileBytes

LEMMA FileWhole ==
  ASSUME Laid, Tree, GotPlaced, dl.got = Blocks, NEW f \in DOMAIN files,
         files[f].size >= 0, FileThere(f), HasMode(f)
  PROVE  fs[Target(fs, dl.names[f])] = File(Source(f), files[f].mode)
<1>1. PICK q : q = Target(fs, dl.names[f])
  OBVIOUS
<1>2. f \in 1 .. file_count /\ files[f].size \in Nat /\ ~IsLink(f)
  BY Files DEF IsLink
<1>3. PICK n \in Nat : n = files[f].size
  BY <1>2
<1>4. /\ q \in DOMAIN fs /\ fs[q].kind = "file" /\ fs[q].mode = files[f].mode
      /\ fs[q].data = [o \in 1 .. n |-> fs[q].data[o]]
  BY <1>1, <1>2, <1>3, Zenon DEF FileThere, HasMode
<1>5. LocalData(f) = fs[q].data
  BY <1>1, <1>4, Zenon DEF LocalData
<1>6. \A o \in 1 .. n : fs[q].data[o] = <<f, o - 1>>
  <2> SUFFICES ASSUME NEW o \in 1 .. n PROVE fs[q].data[o] = <<f, o - 1>>
    OBVIOUS
  <2>1. HasOwn(f, o - 1)
    BY <1>2, <1>3, WholeFile
  <2>2. (o - 1) + 1 = o
    OBVIOUS
  <2> QED
    BY <1>5, <2>1, <2>2, Zenon DEF HasOwn
<1>7. fs[q].data = Source(f)
  <2>1. fs[q].data = [o \in 1 .. n |-> <<f, o - 1>>]
    BY <1>4, <1>6
  <2> QED
    BY <1>2, <1>3, <2>1, SourceBytes
<1>8. fs[q] = Node(fs[q].kind, fs[q].data, fs[q].to, fs[q].mode)
      /\ fs[q].to = <<>>
  BY <1>4, Zenon DEF Tree, IsTree
<1> QED
  BY <1>1, <1>4, <1>7, <1>8, Zenon DEF File

THEOREM TransferDoneIsWhole == Spec /\ Given => []DoneIsWhole
<1>1. IInv /\ Tree /\ Ready /\ InOrder => DoneIsWhole
  <2> SUFFICES ASSUME IInv, Tree, Ready, InOrder, dl.pc = "done", ~short,
                      NEW i \in DOMAIN files
               PROVE  LET q == Real(fs, dl.names[i])
                          to == Target(fs, dl.names[i])
                      IN CASE files[i].size >= 0 ->
                                fs[to] = File(Source(i), files[i].mode)
                           [] files[i].size = -1 ->
                                DirThere(i) /\ fs[to].mode = files[i].mode
                           [] OTHER ->
                                \/ LeftAsItWas(q)
                                \/ fs[q].kind = "link"
                                   /\ Names(fs[q].to) = Leads(files[i])
                                \/ Len(Names(files[i].name)) = 1
    BY DEF DoneIsWhole
  <2>1. Laid /\ GotPlaced /\ dl.got = Blocks
    BY Zenon DEF IInv, Ready, Started
  <2>2. EntryThere(i)
    BY Zenon DEF InOrder, Standing, Started, EntriesThere
  <2>3. HasMode(i)
    BY DEF InOrder, Standing, Started, Moded
  <2>4. files[i].size \in Int /\ files[i].size >= -2
    BY <2>1, EntryIs
  <2>5. CASE files[i].size >= 0
    <3>1. FileThere(i)
      BY <2>2, <2>5, Zenon DEF EntryThere
    <3>2. fs[Target(fs, dl.names[i])] = File(Source(i), files[i].mode)
      BY <2>1, <2>3, <2>5, <3>1, FileWhole
    <3>3. files[i].size # -1
      BY <2>4, <2>5
    <3> QED
      BY <2>5, <3>2, <3>3, Zenon
  <2>6. CASE files[i].size = -1
    <3>1. DirThere(i)
      BY <2>2, <2>6, Zenon DEF EntryThere
    <3>2. fs[Target(fs, dl.names[i])].mode = files[i].mode
      BY <2>3, <2>6 DEF HasMode, IsLink
    <3>3. ~(files[i].size >= 0)
      BY <2>6
    <3> QED
      BY <2>6, <3>1, <3>2, <3>3, Zenon
  <2>7. CASE IsLink(i)
    <3>1. LinkThere(i)
      BY <2>2, <2>7, Zenon DEF EntryThere
    <3>2. LinkOf(i).kind = "link"
      BY DEF LinkOf, Link, Node
    <3>3. \/ Names(LinkOf(i).to) = Leads(files[i])
          \/ Len(Names(files[i].name)) = 1
      BY <2>1, <2>7, EntryIs, Zenon
    <3>4. ~(files[i].size >= 0) /\ files[i].size # -1
      BY <2>7 DEF IsLink
    <3> QED
      BY <3>1, <3>2, <3>3, <3>4, Zenon DEF LinkThere, LinkOf
  <2> QED
    BY <2>4, <2>5, <2>6, <2>7 DEF IsLink
<1> QED
  BY <1>1, KeptReady, PTL

-----------------------------------------------------------------------------
(* Making again what is there                                              *)
LEMMA TouchesThere ==
  ASSUME NEW q, Touches(q), q \in DOMAIN fs
  PROVE  DOMAIN fs' = DOMAIN fs
BY DEF Touches

LEMMA WithThere ==
  ASSUME Tree, NEW q \in DOMAIN fs, NEW node, fs' = With(q, node), fs[q] = node
  PROVE  fs' = fs
<1>1. fs = [x \in DOMAIN fs |-> fs[x]]
  BY Zenon DEF Tree, IsTree
<1>2. With(q, node) = [x \in DOMAIN fs |-> fs[x]]
  <2>1. DOMAIN fs \cup {q} = DOMAIN fs
    OBVIOUS
  <2> QED
    BY <2>1 DEF With
<1> QED
  BY <1>1, <1>2

LEMMA FailLeaves ==
  ASSUME IInv, dl.pc = "mk", NEW i, MakeDir(i) \/ MakeLink(i) \/ MakeFile(i), Fail
  PROVE  fs' = fs
<1>1. dl'.pc = "failed"
  BY ProcessPc
<1>2. \A cont : ~Made(i, cont)
  <2> SUFFICES ASSUME NEW cont, Made(i, cont) PROVE FALSE
    BY Zenon
  <2>1. dl'.pc = dl.pc
    BY MadeFacts
  <2> QED
    BY <1>1, <2>1
<1> QED
  BY <1>2, Zenon DEF MakeDir, MakeLink, MakeFile

LEMMA MadeAgain ==
  ASSUME IInv, Tree, InOrder, mk_dir_symlink_file, Found
  PROVE  NothingAnew
<1> DEFINE i == dl.i
           q == Real(fs, dl.names[i])
           to == Target(fs, dl.names[i])
<1>1. i \in DOMAIN files /\ dl.pc = "mk" /\ Laid
  <2>1. Laid /\ dl.i \in 1 .. file_count + 1 /\ dl.pc = "mk" /\ dl.i <= file_count
    BY Zenon DEF IInv, Process, mk_dir_symlink_file
  <2> QED
    BY <2>1, Files
<1>2. EntryThere(i)
  BY <1>1, Zenon DEF InOrder, Left, EntriesThere
<1>3. CASE Fail
  <2>1. MakeDir(i) \/ MakeLink(i) \/ MakeFile(i)
    BY MakeIs, Zenon
  <2>2. fs' = fs
    BY <1>1, <1>3, <2>1, FailLeaves
  <2> QED
    BY <2>2, Zenon DEF NothingAnew
<1>4. CASE ~Fail /\ files[i].size = -1 /\ MakeDir(i)
  <2>1. q \in DOMAIN fs
    BY <1>2, <1>4, Zenon DEF EntryThere
  <2>2. fs' = fs
    BY <1>4, <2>1, MakeDirDoes, Zenon
  <2> QED
    BY <2>2, Zenon DEF NothingAnew
<1>5. CASE ~Fail /\ IsLink(i) /\ MakeLink(i)
  <2>1. q \in DOMAIN fs /\ LinkThere(i)
    BY <1>2, <1>5, Zenon DEF EntryThere
  <2>2. \/ fs' = fs
        \/ fs' = With(q, LinkOf(i)) /\ Touches(q)
    BY <1>5, MakeLinkDoes, Zenon
  <2>3. DOMAIN fs' = DOMAIN fs
    BY <2>1, <2>2, TouchesThere, Zenon
  <2>4. fs' = fs \/ LeftAsItWas(q)
    <3>1. fs[q] = LinkOf(i) \/ LeftAsItWas(q)
      BY <2>1, Zenon DEF LinkThere, LinkOf
    <3> QED
      BY <2>1, <2>2, <3>1, WithThere, Zenon
  <2> QED
    BY <1>5, <2>3, <2>4, Zenon DEF NothingAnew
<1>6. CASE ~Fail /\ files[i].size >= 0 /\ MakeFile(i)
  <2>1. to \in DOMAIN fs
    BY <1>2, <1>6, Zenon DEF EntryThere, FileThere
  <2>2. DOMAIN fs' = DOMAIN fs
    BY <1>6, <2>1, MakeFileDoes, TouchesThere, Zenon
  <2>3. ~(files[i].size < 0)
    BY <1>1, <1>6, EntryIs
  <2> QED
    BY <2>2, <2>3, Zenon DEF NothingAnew
<1> QED
  BY <1>1, <1>3, <1>4, <1>5, <1>6, MakeIs

(* A process that has been killed and goes on over the snapshot it left    *)
(* finds every entry of the job in its place: it makes no new one, and     *)
(* leaves directories and links as they are, but for a link of before the  *)
(* job that can now be replaced.                                           *)
THEOREM TransferNothingAnew == Spec /\ Given => [][NothingAnew]_vars
<1>1. IInv /\ Tree /\ InOrder /\ [Next]_vars => [NothingAnew]_vars
  BY MadeAgain, Zenon DEF NothingAnew, Found
<1> QED
  BY <1>1, KeptReady, PTL DEF Spec
=============================================================================
