--------------------------- MODULE KMailSpool_proofs --------------------------
(***************************************************************************)
(* For any mails, delays and disk faults, any relay, and any number of     *)
(* ends of the process: every file of the spool directory is known to      *)
(* exactly one entry of the retry queue, a mail goes out twice only when   *)
(* nobody can know better, and KMailSpool implements KMailQueue.           *)
(***************************************************************************)
EXTENDS KMailSpool, WellFoundedInduction, FiniteSetTheorems, TLAPS

-------------------------------------------------------------------------------
\* Induction over an interval, from the least element of what would be a
\* counterexample.

LEMMA Smallest ==
    ASSUME NEW T, T \subseteq Nat, T # {}
    PROVE  \E n \in T : \A m \in T : n <= m
<1> DEFINE R == {ss \in Nat \X Nat : ss[1] < ss[2]}
<1>1. IsWellFoundedOn(R, Nat) BY NatLessThanWellFounded DEF OpToRel
<1> HIDE DEF R
<1>2. PICK n \in T : \A y \in T : ~ (<<y, n>> \in R) BY <1>1, WFMin
<1>3. \A y \in T : ~(y < n) BY <1>2 DEF R
<1> QED BY <1>2, <1>3

LEMMA IntervalInduction ==
    ASSUME NEW n \in Nat, NEW T, 0 \in T, \A i \in 1 .. n : i - 1 \in T => i \in T
    PROVE  0 .. n \subseteq T
<1> DEFINE Bad == {i \in 0 .. n : i \notin T}
<1>1. SUFFICES ASSUME Bad # {} PROVE FALSE BY DEF Bad
<1>2. Bad \subseteq Nat BY DEF Bad
<1>3. PICK k \in Bad : \A m \in Bad : k <= m BY <1>1, <1>2, Smallest
<1>4. k \in 1 .. n BY <1>3 DEF Bad
<1>5. k - 1 \in T BY <1>3, <1>4 DEF Bad
<1> QED BY <1>3, <1>4, <1>5 DEF Bad

-------------------------------------------------------------------------------
\* Select.  The recursion has a solution, and by it Select(seq, S) is what is in S, each
\* position of seq once.

Selection(seq, S, n, f) ==
    [i \in 0 .. n |-> IF i = 0 THEN <<>>
                      ELSE IF seq[i] \in S THEN Append(f[i - 1], seq[i]) ELSE f[i - 1]]

LEMMA SelectionExists ==
    ASSUME NEW seq, NEW n \in Nat, NEW S
    PROVE  \E f : f = Selection(seq, S, n, f)
<1> DEFINE T == {m \in 0 .. n : \E f : f = Selection(seq, S, m, f)}
<1>1. 0 \in T
  <2> DEFINE f == [i \in 0 .. 0 |-> <<>>]
  <2>1. f = Selection(seq, S, 0, f) BY DEF Selection
  <2>2. \E g : g = Selection(seq, S, 0, g) BY <2>1, Zenon
  <2> QED BY <2>2
<1>2. ASSUME NEW m \in 1 .. n, m - 1 \in T
      PROVE  m \in T
  <2>1. PICK f : f = Selection(seq, S, m - 1, f) BY <1>2
  <2> DEFINE g == [i \in 0 .. m |->
                     IF i < m THEN f[i]
                     ELSE IF seq[i] \in S THEN Append(f[i - 1], seq[i]) ELSE f[i - 1]]
  <2>2. \A i \in 0 .. m - 1 :
          f[i] = IF i = 0 THEN <<>>
                 ELSE IF seq[i] \in S THEN Append(f[i - 1], seq[i]) ELSE f[i - 1]
    BY <2>1 DEF Selection
  <2>3. /\ \A i \in 0 .. m - 1 : g[i] = f[i]
        /\ g[m] = IF seq[m] \in S THEN Append(f[m - 1], seq[m]) ELSE f[m - 1]
        /\ g = [i \in 0 .. m |-> g[i]]
    OBVIOUS
  <2> HIDE DEF g
  <2>4. ASSUME NEW i \in 0 .. m
        PROVE  g[i] = IF i = 0 THEN <<>>
                      ELSE IF seq[i] \in S THEN Append(g[i - 1], seq[i]) ELSE g[i - 1]
    <3>1. CASE i = 0 BY <2>2, <2>3, <3>1
    <3>2. CASE i > 0 /\ i < m
      <4>1. i \in 0 .. m - 1 /\ i - 1 \in 0 .. m - 1 BY <3>2
      <4>2. g[i] = f[i] /\ g[i - 1] = f[i - 1] BY <2>3, <4>1
      <4> QED BY <2>2, <3>2, <4>1, <4>2
    <3>3. CASE i = m
      <4>1. m - 1 \in 0 .. m - 1 OBVIOUS
      <4>2. g[m - 1] = f[m - 1] BY <2>3, <4>1
      <4>3. m # 0 OBVIOUS
      <4> QED BY <2>3, <3>3, <4>2, <4>3
    <3> QED BY <3>1, <3>2, <3>3
  <2>5. g = Selection(seq, S, m, g) BY <2>3, <2>4 DEF Selection
  <2>6. \E h : h = Selection(seq, S, m, h) BY <2>5, Zenon
  <2> QED BY <2>6
<1> HIDE DEF T
<1>3. 0 .. n \subseteq T BY <1>1, <1>2, IntervalInduction
<1>4. n \in T BY <1>3
<1> QED BY <1>4 DEF T

\* pos tells from where an element of the selection was taken
Picks(kept, seq, S, n, pos) ==
    /\ pos \in [1 .. Len(kept) -> 1 .. n]
    /\ \A k, l \in 1 .. Len(kept) : k # l => pos[k] # pos[l]
    /\ \A k \in 1 .. Len(kept) : kept[k] = seq[pos[k]] /\ kept[k] \in S
    /\ \A i \in 1 .. n : seq[i] \in S => \E k \in 1 .. Len(kept) : pos[k] = i

LEMMA SelectRecursion ==
    ASSUME NEW seq, Len(seq) \in Nat, NEW S
    PROVE  \E f : f = Selection(seq, S, Len(seq), f) /\ Select(seq, S) = f[Len(seq)]
<1> DEFINE g == CHOOSE f : f = Selection(seq, S, Len(seq), f)
<1>1. \E f : f = Selection(seq, S, Len(seq), f) BY SelectionExists
<1>2. Select(seq, S) = g[Len(seq)] BY Zenon DEF Select, Selection
<1>3. g = Selection(seq, S, Len(seq), g) BY <1>1, Zenon
<1> HIDE DEF g
<1> QED BY <1>2, <1>3, Zenon

LEMMA SelectPicks ==
    ASSUME NEW A, NEW seq \in Seq(A), NEW S
    PROVE  /\ Select(seq, S) \in Seq(A)
           /\ \E pos : Picks(Select(seq, S), seq, S, Len(seq), pos)
<1>0. PICK n \in Nat : n = Len(seq) OBVIOUS
<1>1. PICK f : f = Selection(seq, S, n, f) /\ Select(seq, S) = f[n]
  BY <1>0, SelectRecursion
<1>2. /\ \A i \in 1 .. n : seq[i] \in A
      /\ f[0] = <<>>
      /\ \A i \in 1 .. n : f[i] = IF seq[i] \in S THEN Append(f[i - 1], seq[i]) ELSE f[i - 1]
  <2>1. \A i \in 1 .. n : seq[i] \in A BY <1>0
  <2>2. 0 \in 0 .. n /\ f[0] = Selection(seq, S, n, f)[0] BY <1>1
  <2>3. f[0] = <<>> BY <2>2 DEF Selection
  <2>4. ASSUME NEW i \in 1 .. n
        PROVE  f[i] = IF seq[i] \in S THEN Append(f[i - 1], seq[i]) ELSE f[i - 1]
    <3>1. i \in 0 .. n /\ i # 0 /\ f[i] = Selection(seq, S, n, f)[i] BY <1>1
    <3> QED BY <3>1 DEF Selection
  <2> QED BY <2>1, <2>3, <2>4
<1> DEFINE Ok(i) == f[i] \in Seq(A) /\ \E pos : Picks(f[i], seq, S, i, pos)
           T == {i \in 0 .. n : Ok(i)}
<1>3. Ok(0)
  <2>1. Picks(<<>>, seq, S, 0, <<>>) BY DEF Picks
  <2>2. \E pos : Picks(f[0], seq, S, 0, pos) BY <1>2, <2>1
  <2> QED BY <1>2, <2>2
<1>4. ASSUME NEW i \in 1 .. n, Ok(i - 1)
      PROVE  Ok(i)
  <2>1. f[i] = IF seq[i] \in S THEN Append(f[i - 1], seq[i]) ELSE f[i - 1] BY <1>2
  <2>2. f[i - 1] \in Seq(A) BY <1>4
  <2>3. PICK kept \in Seq(A) : kept = f[i - 1] BY <2>2
  <2>4. PICK pos : Picks(kept, seq, S, i - 1, pos) BY <1>4, <2>3
  <2>5. i \in Nat /\ i - 1 \in Nat /\ seq[i] \in A BY <1>0
  <2>6. CASE seq[i] \notin S
    <3>1. Picks(kept, seq, S, i, pos) BY <2>4, <2>5, <2>6 DEF Picks
    <3> QED BY <1>0, <2>1, <2>3, <2>6, <3>1
  <2>7. CASE seq[i] \in S
    <3> DEFINE m == Len(kept)
               more == Append(kept, seq[i])
               pos1 == [k \in 1 .. m + 1 |-> IF k = m + 1 THEN i ELSE pos[k]]
    <3>1. more \in Seq(A) /\ Len(more) = m + 1 /\ m \in Nat BY <2>5
    <3>2. more[m + 1] = seq[i] /\ \A k \in 1 .. m : more[k] = kept[k] BY <2>5
    <3>3. pos1[m + 1] = i /\ \A k \in 1 .. m : pos1[k] = pos[k] BY <3>1
    <3>4. \A k \in 1 .. m : pos[k] \in 1 .. i - 1 BY <2>4 DEF Picks
    <3>5. pos1 \in [1 .. m + 1 -> 1 .. i] BY <2>5, <3>1, <3>4
    <3> HIDE DEF m, more, pos1
    <3>6. \A k \in 1 .. m + 1 : k = m + 1 \/ k \in 1 .. m BY <3>1
    <3>7. \A k, l \in 1 .. m + 1 : k # l => pos1[k] # pos1[l]
      <4>1. \A k, l \in 1 .. m : k # l => pos[k] # pos[l] BY <2>4 DEF Picks, m
      <4>2. \A k \in 1 .. m : pos[k] # i BY <2>5, <3>4
      <4> QED BY <3>3, <3>6, <4>1, <4>2
    <3>8. \A k \in 1 .. m + 1 : more[k] = seq[pos1[k]] /\ more[k] \in S
      <4>1. \A k \in 1 .. m : kept[k] = seq[pos[k]] /\ kept[k] \in S BY <2>4 DEF Picks, m
      <4> QED BY <2>7, <3>2, <3>3, <3>6, <4>1
    <3>9. \A j \in 1 .. i : seq[j] \in S => \E k \in 1 .. m + 1 : pos1[k] = j
      <4>1. \A j \in 1 .. i - 1 : seq[j] \in S => \E k \in 1 .. m : pos[k] = j
        BY <2>4 DEF Picks, m
      <4>2. \A j \in 1 .. i : j = i \/ j \in 1 .. i - 1 BY <2>5
      <4>3. m + 1 \in 1 .. m + 1 /\ \A k \in 1 .. m : k \in 1 .. m + 1 BY <3>1
      <4> QED BY <3>3, <4>1, <4>2, <4>3
    <3>10. Picks(more, seq, S, i, pos1) BY <3>1, <3>5, <3>7, <3>8, <3>9 DEF Picks
    <3>11. f[i] = more BY <2>1, <2>3, <2>7 DEF more
    <3> QED BY <1>0, <3>1, <3>10, <3>11
  <2> QED BY <2>6, <2>7
<1> HIDE DEF Ok
<1>5. 0 \in T BY <1>3
<1>6. \A i \in 1 .. n : i - 1 \in T => i \in T BY <1>4
<1> HIDE DEF T
<1>7. 0 .. n \subseteq T BY <1>5, <1>6, IntervalInduction
<1>8. Ok(n)
  <2>1. n \in T BY <1>7
  <2> QED BY <2>1 DEF T
<1> QED BY <1>0, <1>1, <1>8 DEF Ok

Distinct(seq)     == \A i, j \in 1 .. Len(seq) : i # j => seq[i] # seq[j]
DistinctMails(es) == \A i, j \in 1 .. Len(es) : i # j => es[i].mail # es[j].mail

LEMMA SelectElements ==
    ASSUME NEW A, NEW seq \in Seq(A), NEW S
    PROVE  /\ Select(seq, S) \in Seq(A)
           /\ Elements(Select(seq, S)) = Elements(seq) \cap S
           /\ Distinct(seq) => Distinct(Select(seq, S))
<1>1. PICK kept \in Seq(A) : kept = Select(seq, S) BY SelectPicks
<1>2. PICK pos : Picks(kept, seq, S, Len(seq), pos) BY <1>1, SelectPicks
<1>3. Elements(kept) = Elements(seq) \cap S
  <2>1. \A k \in 1 .. Len(kept) : pos[k] \in 1 .. Len(seq) /\ kept[k] = seq[pos[k]] /\ kept[k] \in S
    BY <1>2 DEF Picks
  <2>2. \A i \in 1 .. Len(seq) : seq[i] \in S => \E k \in 1 .. Len(kept) : kept[k] = seq[i]
    BY <1>2, <2>1 DEF Picks
  <2>3. Elements(kept) \subseteq Elements(seq) \cap S BY <2>1, Zenon DEF Elements
  <2>4. ASSUME NEW x \in Elements(seq), x \in S PROVE x \in Elements(kept)
    <3>1. PICK i \in 1 .. Len(seq) : x = seq[i] BY <2>4 DEF Elements
    <3>2. PICK k \in 1 .. Len(kept) : kept[k] = x BY <2>2, <2>4, <3>1
    <3> QED BY <3>2, Zenon DEF Elements
  <2> QED BY <2>3, <2>4
<1>4. ASSUME Distinct(seq)
      PROVE  Distinct(kept)
  <2> SUFFICES ASSUME NEW k \in 1 .. Len(kept), NEW l \in 1 .. Len(kept), k # l
               PROVE  kept[k] # kept[l]
    BY DEF Distinct
  <2>1. /\ pos[k] \in 1 .. Len(seq) /\ pos[l] \in 1 .. Len(seq) /\ pos[k] # pos[l]
        /\ kept[k] = seq[pos[k]] /\ kept[l] = seq[pos[l]]
    BY <1>2 DEF Picks
  <2> QED BY <1>4, <2>1 DEF Distinct
<1> QED BY <1>1, <1>3, <1>4

LEMMA SelectEntryMails ==
    ASSUME NEW A, NEW es \in Seq(A), NEW S, DistinctMails(es)
    PROVE  /\ DistinctMails(Select(es, S))
           /\ EntryMails(Select(es, S)) = {e.mail : e \in Elements(es) \cap S}
<1>1. PICK kept \in Seq(A) : kept = Select(es, S) BY SelectPicks
<1>2. PICK pos : Picks(kept, es, S, Len(es), pos) BY <1>1, SelectPicks
<1>3. Elements(kept) = Elements(es) \cap S BY <1>1, SelectElements
<1>4. EntryMails(kept) = {e.mail : e \in Elements(kept)} BY DEF EntryMails, Elements
<1>5. DistinctMails(kept)
  <2> SUFFICES ASSUME NEW k \in 1 .. Len(kept), NEW l \in 1 .. Len(kept), k # l
               PROVE  kept[k].mail # kept[l].mail
    BY DEF DistinctMails
  <2>1. /\ pos[k] \in 1 .. Len(es) /\ pos[l] \in 1 .. Len(es) /\ pos[k] # pos[l]
        /\ kept[k] = es[pos[k]] /\ kept[l] = es[pos[l]]
    BY <1>2 DEF Picks
  <2> QED BY <2>1 DEF DistinctMails
<1> QED BY <1>1, <1>3, <1>4, <1>5

-------------------------------------------------------------------------------
\* The other operations on sequences

LEMMA HeadAndTail ==
    ASSUME NEW A, NEW seq \in Seq(A), seq # <<>>
    PROVE  /\ Head(seq) \in A /\ Tail(seq) \in Seq(A)
           /\ Elements(seq) = {Head(seq)} \cup Elements(Tail(seq))
           /\ Distinct(seq) => Distinct(Tail(seq)) /\ Head(seq) \notin Elements(Tail(seq))
           /\ EntryMails(seq) = {Head(seq).mail} \cup EntryMails(Tail(seq))
           /\ DistinctMails(seq) => /\ DistinctMails(Tail(seq))
                                    /\ Head(seq).mail \notin EntryMails(Tail(seq))
<1>1. PICK n \in Nat \ {0} : n = Len(seq) OBVIOUS
<1>2. /\ Tail(seq) \in Seq(A) /\ Len(Tail(seq)) = n - 1 /\ Head(seq) = seq[1] /\ seq[1] \in A
      /\ \A i \in 1 .. n - 1 : Tail(seq)[i] = seq[i + 1]
  BY <1>1
<1>4. \A i \in 1 .. n - 1 : i + 1 \in 1 .. n /\ i + 1 # 1 OBVIOUS
<1> DEFINE rest == Tail(seq)
           first == Head(seq)
<1> HIDE DEF rest, first
<1>5. /\ Len(rest) = n - 1 /\ first = seq[1] /\ 1 \in 1 .. n
      /\ \A i \in 1 .. n - 1 : rest[i] = seq[i + 1]
  BY <1>2 DEF rest, first
<1>6. Elements(seq) = {first} \cup Elements(rest)
  <2>1. ASSUME NEW i \in 1 .. n
        PROVE  seq[i] \in {first} \cup Elements(rest)
    <3>1. CASE i = 1 BY <1>5, <3>1
    <3>2. CASE i # 1
      <4>1. i - 1 \in 1 .. n - 1 /\ (i - 1) + 1 = i BY <3>2
      <4>2. seq[i] = rest[i - 1] BY <1>5, <4>1
      <4> QED BY <1>5, <4>1, <4>2 DEF Elements
    <3> QED BY <3>1, <3>2
  <2>2. first \in Elements(seq) /\ \A i \in 1 .. n - 1 : rest[i] \in Elements(seq)
    BY <1>1, <1>4, <1>5 DEF Elements
  <2> QED BY <1>1, <1>5, <2>1, <2>2 DEF Elements
<1>7. EntryMails(seq) = {first.mail} \cup EntryMails(rest)
  <2>1. ASSUME NEW i \in 1 .. n
        PROVE  seq[i].mail \in {first.mail} \cup EntryMails(rest)
    <3>1. CASE i = 1 BY <1>5, <3>1
    <3>2. CASE i # 1
      <4>1. i - 1 \in 1 .. n - 1 /\ (i - 1) + 1 = i BY <3>2
      <4>2. seq[i] = rest[i - 1] BY <1>5, <4>1
      <4> QED BY <1>5, <4>1, <4>2 DEF EntryMails
    <3> QED BY <3>1, <3>2
  <2>2. first.mail \in EntryMails(seq) /\ \A i \in 1 .. n - 1 : rest[i].mail \in EntryMails(seq)
    BY <1>1, <1>4, <1>5 DEF EntryMails
  <2> QED BY <1>1, <1>5, <2>1, <2>2 DEF EntryMails
<1>8. Distinct(seq) => Distinct(rest) /\ first \notin Elements(rest)
  BY <1>1, <1>4, <1>5 DEF Distinct, Elements
<1>9. DistinctMails(seq) => DistinctMails(rest) /\ first.mail \notin EntryMails(rest)
  BY <1>1, <1>4, <1>5 DEF DistinctMails, EntryMails
<1> QED BY <1>2, <1>6, <1>7, <1>8, <1>9 DEF rest, first

LEMMA AppendElements ==
    ASSUME NEW A, NEW seq \in Seq(A), NEW x \in A
    PROVE  /\ Append(seq, x) \in Seq(A)
           /\ Elements(Append(seq, x)) = Elements(seq) \cup {x}
           /\ Distinct(seq) /\ x \notin Elements(seq) => Distinct(Append(seq, x))
           /\ EntryMails(Append(seq, x)) = EntryMails(seq) \cup {x.mail}
           /\ DistinctMails(seq) /\ x.mail \notin EntryMails(seq) =>
                DistinctMails(Append(seq, x))
<1>1. PICK n \in Nat : n = Len(seq) OBVIOUS
<1> DEFINE more == Append(seq, x)
<1>2. /\ more \in Seq(A) /\ Len(more) = n + 1 /\ more[n + 1] = x
      /\ \A i \in 1 .. n : more[i] = seq[i]
  BY <1>1
<1> HIDE DEF more
<1>3. \A i \in 1 .. n + 1 : i = n + 1 \/ i \in 1 .. n OBVIOUS
<1>4. n + 1 \in 1 .. n + 1 /\ (\A i \in 1 .. n : i \in 1 .. n + 1) OBVIOUS
<1>5. Elements(more) = Elements(seq) \cup {x} BY <1>1, <1>2, <1>3, <1>4 DEF Elements
<1>6. EntryMails(more) = EntryMails(seq) \cup {x.mail}
  BY <1>1, <1>2, <1>3, <1>4 DEF EntryMails
<1>7. Distinct(seq) /\ x \notin Elements(seq) => Distinct(more)
  BY <1>1, <1>2, <1>3, <1>4 DEF Distinct, Elements
<1>8. DistinctMails(seq) /\ x.mail \notin EntryMails(seq) => DistinctMails(more)
  BY <1>1, <1>2, <1>3, <1>4 DEF DistinctMails, EntryMails
<1> QED BY <1>2, <1>5, <1>6, <1>7, <1>8 DEF more

LEMMA ConcatEntryMails ==
    ASSUME NEW A, NEW es \in Seq(A), NEW fs \in Seq(A)
    PROVE  /\ es \o fs \in Seq(A) /\ Len(es \o fs) = Len(es) + Len(fs)
           /\ EntryMails(es \o fs) = EntryMails(es) \cup EntryMails(fs)
           /\ DistinctMails(es) /\ DistinctMails(fs) /\ EntryMails(es) \cap EntryMails(fs) = {}
                => DistinctMails(es \o fs)
<1>1. PICK n \in Nat, m \in Nat : n = Len(es) /\ m = Len(fs) OBVIOUS
<1> DEFINE all == es \o fs
<1>2. /\ all \in Seq(A) /\ Len(all) = n + m
      /\ \A i \in 1 .. n : all[i] = es[i]
      /\ \A i \in n + 1 .. n + m : all[i] = fs[i - n]
  BY <1>1
<1> HIDE DEF all
<1>3. \A i \in 1 .. n + m : i \in 1 .. n \/ (i \in n + 1 .. n + m /\ i - n \in 1 .. m) OBVIOUS
<1>4. /\ \A i \in 1 .. n : i \in 1 .. n + m
      /\ \A i \in 1 .. m : n + i \in n + 1 .. n + m /\ n + i \in 1 .. n + m /\ (n + i) - n = i
  OBVIOUS
<1>5. EntryMails(all) = EntryMails(es) \cup EntryMails(fs)
  <2>1. \A i \in 1 .. n + m : all[i].mail \in EntryMails(es) \cup EntryMails(fs)
    BY <1>1, <1>2, <1>3 DEF EntryMails
  <2>2. \A i \in 1 .. n : es[i].mail \in EntryMails(all) BY <1>2, <1>4 DEF EntryMails
  <2>3. \A i \in 1 .. m : fs[i].mail \in EntryMails(all)
    <3>1. \A i \in 1 .. m : all[n + i] = fs[i] BY <1>2, <1>4
    <3>2. \A i \in 1 .. m : n + i \in 1 .. Len(all) BY <1>2, <1>4
    <3>3. \A i \in 1 .. m : all[n + i].mail = fs[i].mail BY <3>1
    <3>4. EntryMails(all) = {all[j].mail : j \in 1 .. Len(all)} BY DEF EntryMails
    <3> QED BY <3>2, <3>3, <3>4
  <2>4. /\ EntryMails(es) = {es[i].mail : i \in 1 .. n}
        /\ EntryMails(fs) = {fs[i].mail : i \in 1 .. m}
        /\ EntryMails(all) = {all[i].mail : i \in 1 .. n + m}
    BY <1>1, <1>2 DEF EntryMails
  <2>5. EntryMails(all) \subseteq EntryMails(es) \cup EntryMails(fs) BY <2>1, <2>4
  <2>6. EntryMails(es) \cup EntryMails(fs) \subseteq EntryMails(all) BY <2>2, <2>3, <2>4
  <2> QED BY <2>5, <2>6
<1>6. ASSUME DistinctMails(es), DistinctMails(fs), EntryMails(es) \cap EntryMails(fs) = {}
      PROVE  DistinctMails(all)
  <2>1. \A i \in 1 .. n, j \in 1 .. n : i # j => es[i].mail # es[j].mail
    BY <1>1, <1>6 DEF DistinctMails
  <2>2. \A i \in 1 .. m, j \in 1 .. m : i # j => fs[i].mail # fs[j].mail
    BY <1>1, <1>6 DEF DistinctMails
  <2>3. \A i \in 1 .. n, j \in 1 .. m : es[i].mail # fs[j].mail
    BY <1>1, <1>6 DEF EntryMails
  <2>4. ASSUME NEW i \in 1 .. n + m, NEW j \in 1 .. n + m, i # j
        PROVE  all[i].mail # all[j].mail
    <3>1. CASE i \in 1 .. n /\ j \in 1 .. n BY <1>2, <2>1, <2>4, <3>1
    <3>2. CASE i \in 1 .. n /\ j \in n + 1 .. n + m
      <4>1. j - n \in 1 .. m BY <3>2
      <4> QED BY <1>2, <2>3, <3>2, <4>1
    <3>3. CASE i \in n + 1 .. n + m /\ j \in 1 .. n
      <4>1. i - n \in 1 .. m BY <3>3
      <4> QED BY <1>2, <2>3, <3>3, <4>1
    <3>4. CASE i \in n + 1 .. n + m /\ j \in n + 1 .. n + m
      <4>1. i - n \in 1 .. m /\ j - n \in 1 .. m /\ i - n # j - n BY <2>4, <3>4
      <4> QED BY <1>2, <2>2, <3>4, <4>1
    <3> QED BY <1>3, <3>1, <3>2, <3>3, <3>4
  <2>5. Len(all) = n + m BY <1>2
  <2> QED BY <2>4, <2>5, Zenon DEF DistinctMails
<1>7. all \in Seq(A) /\ Len(all) = Len(es) + Len(fs) BY <1>1, <1>2
<1> QED BY <1>5, <1>6, <1>7 DEF all

\* A sequence in which nothing occurs twice is as long as it has elements.
LEMMA DistinctLength ==
    ASSUME NEW seq, Len(seq) \in Nat
    PROVE  /\ Distinct(seq) => Cardinality(Elements(seq)) = Len(seq)
           /\ DistinctMails(seq) => Cardinality(EntryMails(seq)) = Len(seq)
<1> DEFINE n == Len(seq)
<1>1. IsFiniteSet(1 .. n) /\ Cardinality(1 .. n) = n
  <2>1. PICK m \in Nat : m = n OBVIOUS
  <2> HIDE DEF n
  <2>2. IsFiniteSet(1 .. m) /\ Cardinality(1 .. m) = IF 1 > m THEN 0 ELSE m - 1 + 1
    BY FS_Interval
  <2> QED BY <2>1, <2>2
<1>2. ASSUME Distinct(seq)
      PROVE  Cardinality(Elements(seq)) = n
  <2> DEFINE f == [i \in 1 .. n |-> seq[i]]
  <2>1. f \in Bijection(1 .. n, Elements(seq))
    BY <1>2 DEF Bijection, Injection, Surjection, IsInjective, Elements, Distinct
  <2>2. ExistsBijection(1 .. n, Elements(seq)) BY <2>1 DEF ExistsBijection
  <2> QED BY <1>1, <2>2, FS_Bijection
<1>3. ASSUME DistinctMails(seq)
      PROVE  Cardinality(EntryMails(seq)) = n
  <2> DEFINE f == [i \in 1 .. n |-> seq[i].mail]
  <2>1. f \in Bijection(1 .. n, EntryMails(seq))
    BY <1>3 DEF Bijection, Injection, Surjection, IsInjective, EntryMails, DistinctMails
  <2>2. ExistsBijection(1 .. n, EntryMails(seq)) BY <2>1 DEF ExistsBijection
  <2> QED BY <1>1, <2>2, FS_Bijection
<1> QED BY <1>2, <1>3

-------------------------------------------------------------------------------
\* Delay is defined, and a positive number of ticks.

Doubling(n, f) ==
    [i \in 1 .. n |-> IF i = 1 THEN 1
                      ELSE IF f[i - 1] < MaxRetryInterval THEN 2 * f[i - 1] ELSE f[i - 1]]

LEMMA DoublingExists ==
    ASSUME NEW n \in Nat
    PROVE  \E f : f = Doubling(n, f)
<1> DEFINE T == {m \in 0 .. n : \E f : f = Doubling(m, f)}
<1>1. 0 \in T
  <2> DEFINE f == [i \in 1 .. 0 |-> 1]
  <2>1. f = Doubling(0, f) BY DEF Doubling
  <2>2. \E g : g = Doubling(0, g) BY <2>1, Zenon
  <2> QED BY <2>2
<1>2. ASSUME NEW m \in 1 .. n, m - 1 \in T
      PROVE  m \in T
  <2>1. PICK f : f = Doubling(m - 1, f) BY <1>2
  <2> DEFINE g == [i \in 1 .. m |->
                     IF i < m THEN f[i]
                     ELSE IF i = 1 THEN 1
                     ELSE IF f[i - 1] < MaxRetryInterval THEN 2 * f[i - 1] ELSE f[i - 1]]
  <2>2. \A i \in 1 .. m - 1 :
          f[i] = IF i = 1 THEN 1
                 ELSE IF f[i - 1] < MaxRetryInterval THEN 2 * f[i - 1] ELSE f[i - 1]
    BY <2>1 DEF Doubling
  <2>3. /\ \A i \in 1 .. m - 1 : g[i] = f[i]
        /\ g[m] = IF m = 1 THEN 1
                  ELSE IF f[m - 1] < MaxRetryInterval THEN 2 * f[m - 1] ELSE f[m - 1]
        /\ g = [i \in 1 .. m |-> g[i]]
    OBVIOUS
  <2> HIDE DEF g
  <2>4. ASSUME NEW i \in 1 .. m
        PROVE  g[i] = IF i = 1 THEN 1
                      ELSE IF g[i - 1] < MaxRetryInterval THEN 2 * g[i - 1] ELSE g[i - 1]
    <3>1. CASE i < m
      <4>1. i \in 1 .. m - 1 /\ (i # 1 => i - 1 \in 1 .. m - 1) BY <3>1
      <4>2. g[i] = f[i] /\ (i # 1 => g[i - 1] = f[i - 1]) BY <2>3, <4>1
      <4> QED BY <2>2, <4>1, <4>2
    <3>2. CASE i = m
      <4>1. i # 1 => i - 1 \in 1 .. m - 1 BY <3>2
      <4>2. i # 1 => g[i - 1] = f[i - 1] BY <2>3, <4>1
      <4> QED BY <2>3, <3>2, <4>2
    <3> QED BY <3>1, <3>2
  <2>5. g = Doubling(m, g) BY <2>3, <2>4 DEF Doubling
  <2>6. \E h : h = Doubling(m, h) BY <2>5, Zenon
  <2> QED BY <2>6
<1> HIDE DEF T
<1>3. 0 .. n \subseteq T BY <1>1, <1>2, IntervalInduction
<1>4. n \in T BY <1>3
<1> QED BY <1>4 DEF T

LEMMA BackoffType ==
    ASSUME NEW n \in 1 .. MaxRetryInterval + 1
    PROVE  Backoff(n) \in 0 .. MaxRetryInterval
<1>0. MaxRetryInterval \in Nat \ {0} BY KMailSpoolAssumption
<1>1. PICK max \in Nat \ {0} : max = MaxRetryInterval BY <1>0
<1>2. \E f : f = Doubling(max + 1, f) BY <1>1, DoublingExists
<1>3. Delay = CHOOSE f : f = Doubling(max + 1, f) BY <1>1, Zenon DEF Delay, Doubling
<1>4. Delay = Doubling(max + 1, Delay) BY <1>2, <1>3, Zenon
<1>5. PICK f : f = Delay OBVIOUS
<1>6. f = Doubling(max + 1, f) BY <1>4, <1>5
<1>7. /\ f[1] = 1
      /\ \A i \in 2 .. max + 1 : f[i] = IF f[i - 1] < max THEN 2 * f[i - 1] ELSE f[i - 1]
  <2>1. \A i \in 1 .. max + 1 : f[i] = Doubling(max + 1, f)[i] BY <1>6
  <2> QED BY <1>1, <2>1 DEF Doubling
<1> DEFINE T == {i \in 0 .. max : f[i + 1] \in Nat}
<1>8. 0 \in T BY <1>7
<1>9. ASSUME NEW i \in 1 .. max, i - 1 \in T
      PROVE  i \in T
  <2>1. i + 1 \in 2 .. max + 1 /\ (i + 1) - 1 = i /\ (i - 1) + 1 = i OBVIOUS
  <2>2. f[i] \in Nat BY <1>9, <2>1
  <2>3. f[i + 1] = IF f[i] < max THEN 2 * f[i] ELSE f[i] BY <1>7, <2>1
  <2> QED BY <2>2, <2>3
<1> HIDE DEF T
<1>10. 0 .. max \subseteq T BY <1>8, <1>9, IntervalInduction
<1>11. f[n] \in Nat
  <2>1. n - 1 \in 0 .. max /\ (n - 1) + 1 = n BY <1>1
  <2>2. n - 1 \in T BY <1>10, <2>1
  <2> QED BY <2>1, <2>2 DEF T
<1> QED BY <1>1, <1>5, <1>11 DEF Backoff

-------------------------------------------------------------------------------
\* Type correctness

SpoolEntry == [mail : Mail, iAttempts : 0 .. MaxRetryInterval + 1,
               wait : 0 .. MaxRetryInterval]

LEMMA EntryType ==
    ASSUME NEW m \in Mail
    PROVE  Entry(m, 0, 0) \in SpoolEntry /\ Entry(m, 0, 0).mail = m
BY KMailSpoolAssumption DEF Entry, SpoolEntry

LEMMA NextAttemptType ==
    ASSUME NEW e \in SpoolEntry
    PROVE  NextAttempt(e) \in SpoolEntry /\ NextAttempt(e).mail = e.mail
<1>1. PICK max \in Nat \ {0} : max = MaxRetryInterval BY KMailSpoolAssumption
<1>2. e.mail \in Mail /\ e.iAttempts \in 0 .. max + 1 BY <1>1 DEF SpoolEntry
<1> DEFINE n == IF e.iAttempts <= MaxRetryInterval THEN e.iAttempts + 1 ELSE e.iAttempts
<1>3. n \in 1 .. max + 1 BY <1>1, <1>2
<1>4. NextAttempt(e) = Entry(e.mail, n, Backoff(n)) BY DEF NextAttempt
<1> HIDE DEF n
<1>5. Backoff(n) \in 0 .. max BY <1>1, <1>3, BackoffType
<1> QED BY <1>1, <1>2, <1>3, <1>4, <1>5 DEF Entry, SpoolEntry

LEMMA ElapseEntries ==
    ASSUME NEW es \in Seq(SpoolEntry)
    PROVE  /\ Elapse(es) \in Seq(SpoolEntry)
           /\ EntryMails(Elapse(es)) = EntryMails(es)
           /\ DistinctMails(es) => DistinctMails(Elapse(es))
<1>1. PICK n \in Nat : n = Len(es) OBVIOUS
<1> DEFINE fs == Elapse(es)
<1>2. ASSUME NEW i \in 1 .. n
      PROVE  fs[i] \in SpoolEntry /\ fs[i].mail = es[i].mail
  <2>1. fs[i] = [es[i] EXCEPT !.wait = IF @ > 0 THEN @ - 1 ELSE 0] BY <1>1 DEF Elapse
  <2>2. es[i] \in SpoolEntry BY <1>1
  <2>3. MaxRetryInterval \in Nat BY KMailSpoolAssumption
  <2>4. es[i].wait \in 0 .. MaxRetryInterval BY <2>2 DEF SpoolEntry
  <2>5. (IF es[i].wait > 0 THEN es[i].wait - 1 ELSE 0) \in 0 .. MaxRetryInterval
    BY <2>3, <2>4
  <2> QED BY <2>1, <2>2, <2>5 DEF SpoolEntry
<1>3. fs = [i \in 1 .. n |-> fs[i]] BY <1>1 DEF Elapse
<1> HIDE DEF fs
<1>4. fs \in Seq(SpoolEntry) /\ Len(fs) = n BY <1>2, <1>3
<1>5. EntryMails(fs) = EntryMails(es) BY <1>1, <1>2, <1>4 DEF EntryMails
<1>6. DistinctMails(es) => DistinctMails(fs) BY <1>1, <1>2, <1>4 DEF DistinctMails
<1> QED BY <1>4, <1>5, <1>6 DEF fs

Flags == /\ m_bThreadRunning \in BOOLEAN /\ m_bQuit \in BOOLEAN
         /\ connection \in BOOLEAN /\ bConnected \in BOOLEAN /\ bConnectFailed \in BOOLEAN

Queues == /\ m_Fresh \in Seq(Mail) /\ Fresh \in Seq(Mail) /\ disk \in Seq(Mail)
          /\ m_Spooled \in Seq(SpoolEntry) /\ Due \in Seq(SpoolEntry)
          /\ Pending \in Seq(SpoolEntry)

States == /\ process \in {"down", "up", "quitting"}
          /\ thread \in {"none", "start", "held", "wait", "woken", "deliver", "ended"}
          /\ m_bThreadRunning <=> thread \notin {"none", "ended"}
          /\ step \in {"next", "sent", "rejected", "failed", "unreadable", "written",
                       "spooled"}

Records == /\ tmp \subseteq Mail /\ added \subseteq Mail /\ unsure \subseteq Mail
           /\ age \in [Mail -> 0 .. MaxAge + 1] /\ stops \in 0 .. MaxStops
           /\ copies \in [Mail -> 0 .. 2]

LEMMA TypeParts == TypeOK <=> Flags /\ Queues /\ States /\ Records
<1>1. {m_bThreadRunning, m_bQuit, connection, bConnected, bConnectFailed} \subseteq BOOLEAN
        <=> Flags
  BY Zenon DEF Flags
<1> QED BY <1>1 DEF TypeOK, Queues, States, Records, SpoolEntry

\* outcomes are only looked at where the mapping to KMailQueue needs their type
Outcomes == outcome \in [Mail -> SUBSET Q!Outcome]

LEMMA CurrentMail ==
    ASSUME Queues, Due # <<>> \/ Fresh # <<>>
    PROVE  Current \in Mail
<1>1. CASE Due # <<>>
  <2>1. Head(Due) \in SpoolEntry BY <1>1, HeadAndTail DEF Queues
  <2> QED BY <1>1, <2>1 DEF Current, SpoolEntry
<1>2. CASE Due = <<>>
  <2>1. Head(Fresh) \in Mail BY <1>2, HeadAndTail DEF Queues
  <2> QED BY <1>2, <2>1 DEF Current
<1> QED BY <1>1, <1>2

-------------------------------------------------------------------------------
\* The inductive invariant.

\* the mail whose file Deliver wrote in this round, before it has an entry
JustSpooled == IF step = "spooled" THEN {Head(Fresh)} ELSE {}
Queued      == EntryMails(m_Spooled) \cup EntryMails(Due) \cup EntryMails(Pending)
Kept        == Elements(disk) \cup Elements(m_Fresh) \cup Elements(Fresh)

\* Deliver has arguments and a position in them exactly while it runs; only the
\* destructor writes files without the thread.
Phases ==
    /\ process = "down" => thread = "none" /\ m_Fresh = <<>> /\ m_Spooled = <<>>
    /\ thread # "deliver" => Due = <<>> /\ Fresh = <<>> /\ Pending = <<>>
    /\ step \notin {"next", "written"} => thread = "deliver"
    /\ step = "written" => \/ thread = "deliver"
                           \/ thread = "none" /\ process = "quitting" /\ m_Fresh # <<>>
    /\ thread = "deliver" /\ step # "next" => Due # <<>> \/ Fresh # <<>>
    /\ thread = "deliver" /\ step \in {"written", "spooled"} => Due = <<>>

\* Nothing is in two places, and while the process is up or the thread lives, what is on
\* disk is what the entries and the file just written account for.
Watched == process = "up" \/ thread # "none"

Tracked ==
    /\ Distinct(m_Fresh) /\ Distinct(Fresh) /\ Distinct(disk)
    /\ DistinctMails(m_Spooled) /\ DistinctMails(Due) /\ DistinctMails(Pending)
    /\ Elements(m_Fresh) \cap Elements(Fresh) = {}
    /\ Elements(disk) \cap Elements(m_Fresh) = {}
    /\ Elements(disk) \cap Elements(Fresh) = JustSpooled
    /\ Kept \subseteq added
    /\ EntryMails(m_Spooled) \cap EntryMails(Due) = {}
    /\ EntryMails(m_Spooled) \cap EntryMails(Pending) = {}
    /\ EntryMails(Due) \cap EntryMails(Pending) = {}
    /\ Watched => Queued \cup JustSpooled = Elements(disk) /\ Queued \cap JustSpooled = {}

\* A mail the relay took, and surely so, is not kept any more, or its answer is just in.
TakenOnce ==
    \A m \in Mail : copies[m] > 0 /\ m \notin unsure =>
        copies[m] = 1 /\ m \in added /\ (m \in Kept => m \in Answered)

IInv == /\ "remove" \notin DiskFaults
        /\ Flags /\ Queues /\ States /\ Records /\ Phases /\ Tracked /\ TakenOnce

\* Empty sequences
LEMMA Empty ==
    /\ Elements(<<>>) = {} /\ Distinct(<<>>)
    /\ EntryMails(<<>>) = {} /\ DistinctMails(<<>>)
    /\ \A A : <<>> \in Seq(A)
BY DEF Elements, Distinct, EntryMails, DistinctMails

LEMMA InitIInv ==
    ASSUME "remove" \notin DiskFaults
    PROVE  Init => IInv
<1> SUFFICES ASSUME Init PROVE IInv OBVIOUS
<1>1. MaxAge \in Nat /\ MaxStops \in Nat BY KMailSpoolAssumption
<1>2. Flags /\ Queues /\ States /\ Records
  <2>1. Flags BY DEF Init, Flags
  <2>2. Queues BY Empty DEF Init, Queues
  <2>3. States BY DEF Init, States
  <2>4. Records BY <1>1 DEF Init, Records
  <2> QED BY <2>1, <2>2, <2>3, <2>4
<1>3. Phases BY DEF Init, Phases
<1>4. Tracked BY Empty DEF Init, Tracked, JustSpooled, Queued, Kept, Watched
<1>5. TakenOnce BY DEF Init, TakenOnce
<1> QED BY <1>2, <1>3, <1>4, <1>5 DEF IInv

\* Steps that move no mail
LEMMA NoMailMoves ==
    ASSUME IInv, Flags', States', Phases', stops' \in 0 .. MaxStops, Watched' => Watched,
           UNCHANGED <<m_Fresh, m_Spooled, Due, Fresh, Pending, step, files, age, added,
                       copies, unsure>>
    PROVE  IInv'
<1>1. Queues' /\ Records' BY DEF IInv, Queues, Records, files
<1>2. Tracked' BY DEF IInv, Tracked, JustSpooled, Queued, Kept, files
<1>3. TakenOnce' BY DEF IInv, TakenOnce, Kept, Answered, files
<1> QED BY <1>1, <1>2, <1>3 DEF IInv

-------------------------------------------------------------------------------
\* The process begins and ends

\* The constructor without a removal that fails
LEMMA ConstructReads ==
    ASSUME "remove" \notin DiskFaults, Construct
    PROVE  \E unread \in SUBSET Elements(disk) :
              /\ disk' = Select(disk, Mail \ unread)
              /\ LET kept == Select(disk, Mail \ unread)
                 IN  /\ m_Spooled' = [i \in 1 .. Len(kept) |-> Entry(kept[i], 0, 0)]
                     /\ m_bThreadRunning' = (kept # <<>>)
                     /\ thread' = IF kept # <<>> THEN "start" ELSE "none"
              /\ outcome' = [m \in Mail |-> IF m \in unread THEN outcome[m] \cup {"unreadable"}
                                                           ELSE outcome[m]]
<1>1. PICK unread \in SUBSET Elements(disk), stays \in SUBSET Elements(disk) :
        /\ stays # {} => "remove" \in DiskFaults
        /\ LET kept == Select(disk, Mail \ unread)
           IN  /\ disk' = Select(disk, Mail \ (unread \ stays))
               /\ m_Spooled' = [i \in 1 .. Len(kept) |-> Entry(kept[i], 0, 0)]
               /\ m_bThreadRunning' = (kept # <<>>)
               /\ thread' = IF kept # <<>> THEN "start" ELSE "none"
        /\ outcome' = [m \in Mail |-> IF m \in unread THEN outcome[m] \cup {"unreadable"}
                                                     ELSE outcome[m]]
  BY DEF Construct
<1>2. unread \ stays = unread BY <1>1
<1> QED BY <1>1, <1>2

LEMMA ConstructKeeps ==
    ASSUME IInv, Construct
    PROVE  IInv'
<1>1. PICK unread \in SUBSET Elements(disk) :
        LET kept == Select(disk, Mail \ unread)
        IN  /\ disk' = kept
            /\ m_Spooled' = [i \in 1 .. Len(kept) |-> Entry(kept[i], 0, 0)]
            /\ m_bThreadRunning' = (kept # <<>>)
            /\ thread' = IF kept # <<>> THEN "start" ELSE "none"
  BY ConstructReads DEF IInv
<1>2. /\ disk' \in Seq(Mail) /\ Distinct(disk')
      /\ Elements(disk') \subseteq Elements(disk)
  BY <1>1, SelectElements DEF IInv, Queues, Tracked
<1>3. PICK kept \in Seq(Mail) : kept = disk' BY <1>2
<1>4. m_Spooled' = [i \in 1 .. Len(kept) |-> Entry(kept[i], 0, 0)] BY <1>1, <1>3
<1>5. /\ m_Spooled' \in Seq(SpoolEntry)
      /\ EntryMails(m_Spooled') = Elements(disk')
      /\ DistinctMails(m_Spooled')
  <2> DEFINE es == [i \in 1 .. Len(kept) |-> Entry(kept[i], 0, 0)]
  <2>1. /\ Len(es) = Len(kept)
        /\ \A i \in 1 .. Len(kept) : es[i] \in SpoolEntry /\ es[i].mail = kept[i]
    BY EntryType
  <2>2. es \in Seq(SpoolEntry) BY <2>1
  <2> HIDE DEF es
  <2>3. EntryMails(es) = Elements(kept) BY <2>1 DEF EntryMails, Elements
  <2>4. DistinctMails(es) BY <1>2, <1>3, <2>1 DEF DistinctMails, Distinct
  <2> QED BY <1>3, <1>4, <2>2, <2>3, <2>4 DEF es
<1>6. /\ process = "down" /\ process' = "up" /\ m_bQuit' = FALSE /\ m_Fresh' = <<>>
      /\ tmp' = {} /\ UNCHANGED <<deliver, age, stops, added, copies, unsure>>
  BY DEF Construct
<1>7. thread = "none" /\ Due = <<>> /\ Fresh = <<>> /\ Pending = <<>> /\ m_Fresh = <<>>
      /\ step = "next"
  BY <1>6 DEF IInv, Phases, States
<1>8. Flags' BY <1>1, <1>6 DEF IInv, Flags, deliver
<1>9. Queues' BY <1>2, <1>5, <1>6, <1>7 DEF IInv, Queues, deliver
<1>10. States' BY <1>1, <1>6 DEF IInv, States, deliver
<1>11. Records' BY <1>6 DEF IInv, Records
<1>12. Phases' BY <1>1, <1>6, <1>7 DEF Phases, deliver
<1>13. Tracked'
  <2>1. Kept' \subseteq Kept BY <1>2, <1>6 , <1>7, Empty DEF Kept, deliver
  <2>2. Elements(m_Fresh') = {} /\ Distinct(m_Fresh') /\ Elements(Fresh') = {}
        /\ Distinct(Fresh') /\ EntryMails(Due') = {} /\ EntryMails(Pending') = {}
        /\ DistinctMails(Due') /\ DistinctMails(Pending') /\ step' = "next"
    BY <1>6, <1>7, Empty DEF deliver
  <2>3. Kept' \subseteq added' BY <1>6, <2>1 DEF IInv, Tracked
  <2> QED BY <1>2, <1>5, <2>2, <2>3 DEF Tracked, JustSpooled, Queued
<1>14. TakenOnce'
  <2>1. Kept' \subseteq Kept BY <1>2, <1>6, <1>7, Empty DEF Kept, deliver
  <2>2. Answered = {} BY <1>7 DEF Answered
  <2> QED BY <1>6, <2>1, <2>2 DEF IInv, TakenOnce
<1> QED BY <1>8, <1>9, <1>10, <1>11, <1>12, <1>13, <1>14 DEF IInv

\* What is left when the process is gone
LEMMA VanishKeeps ==
    ASSUME IInv, Vanish, UNCHANGED <<files, age, added, copies>>,
           unsure' \in SUBSET Mail, unsure \cup Answered \subseteq unsure',
           stops' \in 0 .. MaxStops
    PROVE  IInv'
<1>1. /\ process' = "down" /\ thread' = "none" /\ m_Fresh' = <<>> /\ m_Spooled' = <<>>
      /\ Due' = <<>> /\ Fresh' = <<>> /\ Pending' = <<>> /\ step' = "next"
      /\ disk' = disk /\ tmp' = tmp
  BY DEF Vanish, NoDelivery, files
<1>2. Flags' BY DEF Flags, Vanish, NoDelivery
<1>3. Queues' BY <1>1, Empty DEF IInv, Queues
<1>4. States' BY <1>1 DEF States, Vanish
<1>5. Records' BY <1>1 DEF IInv, Records
<1>6. Phases' BY <1>1 DEF Phases
<1>7. Kept' = Elements(disk) /\ Kept' \subseteq Kept BY <1>1, Empty DEF Kept
<1>8. Tracked'
  <2>1. Kept' \subseteq added' BY <1>7 DEF IInv, Tracked
  <2> QED BY <1>1, <2>1, Empty DEF IInv, Tracked, JustSpooled, Queued, Watched
<1>9. TakenOnce'
  <2>1. \A m \in Mail : copies[m] > 0 /\ m \notin unsure' =>
          copies[m] = 1 /\ m \in added /\ m \notin Kept'
    BY <1>7 DEF IInv, TakenOnce
  <2> QED BY <2>1 DEF TakenOnce
<1> QED BY <1>2, <1>3, <1>4, <1>5, <1>6, <1>8, <1>9 DEF IInv

LEMMA EndsKeep ==
    ASSUME IInv, Crash \/ Quit \/ QuitJoin \/ QuitDone
    PROVE  IInv'
<1>0. MaxStops \in Nat BY KMailSpoolAssumption
<1>1. CASE Crash
  <2>1. Answered \subseteq Mail
    <3>1. CASE step = "sent"
      <4>1. Due # <<>> \/ Fresh # <<>> BY <3>1 DEF IInv, Phases
      <4>2. Answered = {Current} BY <3>1 DEF Answered, Current
      <4> QED BY <4>1, <4>2, CurrentMail DEF IInv
    <3>2. CASE step # "sent" BY <3>2 DEF Answered
    <3> QED BY <3>1, <3>2
  <2>2. unsure' = unsure \cup Answered /\ unsure \subseteq Mail
    BY <1>1 DEF Crash, IInv, Records
  <2>3. stops' \in 0 .. MaxStops BY <1>0, <1>1 DEF Crash, IInv, Records
  <2> QED BY <1>1, <2>1, <2>2, <2>3, VanishKeeps DEF Crash
<1>2. CASE QuitDone
  <2>1. Answered = {} /\ unsure \subseteq Mail BY <1>2 DEF QuitDone, Answered, IInv, Records
  <2> QED BY <1>2, <2>1, VanishKeeps DEF QuitDone, IInv, Records
<1>3. CASE Quit
  <2>1. Flags' /\ States' /\ Phases'
    BY <1>3 DEF Quit, IInv, Flags, States, Phases, deliver
  <2>2. stops' \in 0 .. MaxStops BY <1>0, <1>3 DEF Quit, IInv, Records
  <2>3. Watched' => Watched BY <1>3 DEF Quit, Watched
  <2> QED BY <1>3, <2>1, <2>2, <2>3, NoMailMoves DEF Quit, deliver, history
<1>4. CASE QuitJoin
  <2>1. Flags' /\ States' /\ Phases'
    BY <1>4 DEF QuitJoin, IInv, Flags, States, Phases, deliver, memory
  <2>2. stops' \in 0 .. MaxStops BY <1>4 DEF QuitJoin, IInv, Records
  <2>3. Watched' => Watched BY <1>4 DEF QuitJoin, Watched
  <2> QED BY <1>4, <2>1, <2>2, <2>3, NoMailMoves DEF QuitJoin, deliver, history, memory
<1> QED BY <1>1, <1>2, <1>3, <1>4

-------------------------------------------------------------------------------
\* Callers, time, and the rounds of the thread

LEMMA AddKeeps ==
    ASSUME IInv, NEW m \in Mail, Add(m)
    PROVE  IInv'
<1>1. /\ process = "up" /\ m \notin added /\ added' = added \cup {m}
      /\ m_Fresh' = Append(m_Fresh, m) /\ m_bThreadRunning' = TRUE
      /\ thread' = IF ~m_bThreadRunning THEN "start"
                   ELSE IF thread = "wait" THEN "woken" ELSE thread
      /\ UNCHANGED <<m_Spooled, m_bQuit, process, Due, Fresh, Pending, connection, bConnected,
                     bConnectFailed, step, disk, tmp, age, stops, copies, unsure>>
  BY DEF Add, deliver, files
<1>2. /\ m_Fresh' \in Seq(Mail) /\ Elements(m_Fresh') = Elements(m_Fresh) \cup {m}
      /\ Distinct(m_Fresh) /\ m \notin Elements(m_Fresh) => Distinct(m_Fresh')
  BY <1>1, AppendElements DEF IInv, Queues
<1>3. m \notin Kept BY <1>1 DEF IInv, Tracked
<1>4. Flags' BY <1>1 DEF IInv, Flags
<1>5. Queues' BY <1>1, <1>2 DEF IInv, Queues
<1>6. States' BY <1>1 DEF IInv, States
<1>7. Records' BY <1>1 DEF IInv, Records
<1>8. Phases' BY <1>1 DEF IInv, Phases, States
<1>9. Tracked'
  <2>1. /\ JustSpooled' = JustSpooled /\ Queued' = Queued /\ Watched
        /\ Kept' = Kept \cup {m}
    BY <1>1, <1>2 DEF JustSpooled, Queued, Watched, Kept
  <2>2. Distinct(m_Fresh') /\ Elements(m_Fresh') \cap Elements(Fresh) = {}
        /\ Elements(disk) \cap Elements(m_Fresh') = {}
    BY <1>2, <1>3 DEF IInv, Tracked, Kept
  <2> QED BY <1>1, <2>1, <2>2 DEF IInv, Tracked
<1>10. TakenOnce'
  <2>1. Kept' = Kept \cup {m} /\ Answered' = Answered BY <1>1, <1>2 DEF Kept, Answered
  <2> QED BY <1>1, <2>1 DEF IInv, TakenOnce
<1> QED BY <1>4, <1>5, <1>6, <1>7, <1>8, <1>9, <1>10 DEF IInv

LEMMA TickKeeps ==
    ASSUME IInv, Tick
    PROVE  IInv'
<1>1. /\ m_Spooled' = Elapse(m_Spooled) /\ Pending' = Elapse(Pending)
      /\ UNCHANGED <<m_Fresh, m_bThreadRunning, m_bQuit, process, thread, Due, Fresh,
                     connection, bConnected, bConnectFailed, step, disk, tmp, stops, added,
                     copies, unsure>>
  BY DEF Tick, files, history
<1>2. /\ m_Spooled' \in Seq(SpoolEntry) /\ EntryMails(m_Spooled') = EntryMails(m_Spooled)
      /\ DistinctMails(m_Spooled) => DistinctMails(m_Spooled')
      /\ Pending' \in Seq(SpoolEntry) /\ EntryMails(Pending') = EntryMails(Pending)
      /\ DistinctMails(Pending) => DistinctMails(Pending')
  BY <1>1, ElapseEntries DEF IInv, Queues
<1>3. m_Spooled = <<>> => m_Spooled' = <<>> BY <1>1 DEF Elapse
<1>4. Pending = <<>> => Pending' = <<>> BY <1>1 DEF Elapse
<1>5. Flags' BY <1>1 DEF IInv, Flags
<1>6. Queues' BY <1>1, <1>2 DEF IInv, Queues
<1>7. States' BY <1>1 DEF IInv, States
<1>8. Records'
  <2>1. age' \in [Mail -> 0 .. MaxAge + 1]
    <3>1. MaxAge \in Nat BY KMailSpoolAssumption
    <3>2. age \in [Mail -> 0 .. MaxAge + 1] BY DEF IInv, Records
    <3>3. age' = [m \in Mail |-> IF m \in added /\ age[m] <= MaxAge THEN age[m] + 1
                                                                     ELSE age[m]]
      BY DEF Tick
    <3> QED BY <3>1, <3>2, <3>3
  <2> QED BY <1>1, <2>1 DEF IInv, Records
<1>9. Phases' BY <1>1, <1>3, <1>4 DEF IInv, Phases
<1>10. JustSpooled' = JustSpooled /\ Queued' = Queued /\ Kept' = Kept /\ Watched' = Watched
  BY <1>1, <1>2 DEF JustSpooled, Queued, Kept, Watched
<1>11. Tracked' BY <1>1, <1>2, <1>10 DEF IInv, Tracked
<1>12. TakenOnce'
  <2>1. Answered' = Answered BY <1>1 DEF Answered
  <2> QED BY <1>1, <1>10, <2>1 DEF IInv, TakenOnce
<1> QED BY <1>5, <1>6, <1>7, <1>8, <1>9, <1>11, <1>12 DEF IInv

LEMMA WakingKeeps ==
    ASSUME IInv, Lock \/ Wake
    PROVE  IInv'
<1>1. /\ thread \in {"start", "woken", "wait"} /\ thread' = "held"
      /\ UNCHANGED <<memory, process, deliver, files, age, stops, history>>
  BY DEF Lock, Wake
<1>2. Flags' BY <1>1 DEF IInv, Flags, memory, deliver
<1>3. States' BY <1>1 DEF IInv, States, memory, deliver
<1>4. Phases' BY <1>1 DEF IInv, Phases, memory, deliver
<1>5. stops' \in 0 .. MaxStops BY <1>1 DEF IInv, Records
<1>6. Watched' => Watched BY <1>1 DEF Watched
<1> QED BY <1>1, <1>2, <1>3, <1>4, <1>5, <1>6, NoMailMoves DEF memory, deliver, history

\* The split of the queue keeps each entry, on one side.
LEMMA SplitEntries ==
    ASSUME NEW es \in Seq(SpoolEntry), DistinctMails(es)
    PROVE  LET due  == Select(es, DueOf(es))
               rest == Select(es, Elements(es) \ DueOf(es))
           IN  /\ due \in Seq(SpoolEntry) /\ rest \in Seq(SpoolEntry)
               /\ DistinctMails(due) /\ DistinctMails(rest)
               /\ EntryMails(due) \cup EntryMails(rest) = EntryMails(es)
               /\ EntryMails(due) \cap EntryMails(rest) = {}
<1> DEFINE due  == Select(es, DueOf(es))
           rest == Select(es, Elements(es) \ DueOf(es))
<1>1. due \in Seq(SpoolEntry) /\ rest \in Seq(SpoolEntry) BY SelectElements
<1>2. /\ DistinctMails(due) /\ EntryMails(due) = {e.mail : e \in Elements(es) \cap DueOf(es)}
      /\ DistinctMails(rest)
      /\ EntryMails(rest) = {e.mail : e \in Elements(es) \cap (Elements(es) \ DueOf(es))}
  BY SelectEntryMails
<1> HIDE DEF due, rest
<1>3. EntryMails(es) = {e.mail : e \in Elements(es)} BY DEF EntryMails, Elements
<1>4. \A d, e \in Elements(es) : d.mail = e.mail => d = e BY DEF Elements, DistinctMails
<1>5. EntryMails(due) \cup EntryMails(rest) = EntryMails(es) BY <1>2, <1>3
<1>6. EntryMails(due) \cap EntryMails(rest) = {} BY <1>2, <1>4
<1> QED BY <1>1, <1>2, <1>5, <1>6 DEF due, rest

LEMMA RoundKeeps ==
    ASSUME IInv, Round
    PROVE  IInv'
<1> DEFINE due  == Select(m_Spooled, DueOf(m_Spooled))
           rest == Select(m_Spooled, Elements(m_Spooled) \ DueOf(m_Spooled))
<1>1. /\ thread = "held"
      /\ UNCHANGED <<m_bQuit, process, disk, tmp, age, stops, added, copies, unsure>>
  BY DEF Round, files, history
<1>2. Due = <<>> /\ Fresh = <<>> /\ Pending = <<>> /\ step = "next" /\ m_bThreadRunning
  BY <1>1 DEF IInv, Phases, States
<1>3. stops' \in 0 .. MaxStops /\ Watched BY <1>1 DEF IInv, Records, Watched
<1>4. CASE /\ thread' = "ended" /\ m_bThreadRunning' = FALSE
           /\ UNCHANGED <<m_Fresh, m_Spooled, deliver>>
  <2>1. Flags' /\ States' /\ Phases'
    BY <1>1, <1>2, <1>4 DEF IInv, Flags, States, Phases, deliver
  <2> QED BY <1>1, <1>3, <1>4, <2>1, NoMailMoves DEF deliver, files
<1>5. CASE /\ thread' = "wait"
           /\ UNCHANGED <<m_Fresh, m_Spooled, m_bThreadRunning, deliver>>
  <2>1. Flags' /\ States' /\ Phases'
    BY <1>1, <1>2, <1>5 DEF IInv, Flags, States, Phases, deliver
  <2> QED BY <1>1, <1>3, <1>5, <2>1, NoMailMoves DEF deliver, files
<1>6. CASE /\ thread' = "deliver"
           /\ Due' = due /\ Fresh' = m_Fresh
           /\ m_Spooled' = rest /\ m_Fresh' = <<>>
           /\ UNCHANGED <<m_bThreadRunning, Pending, connection, bConnected, bConnectFailed,
                          step>>
  <2>1. /\ Due' \in Seq(SpoolEntry) /\ m_Spooled' \in Seq(SpoolEntry)
        /\ DistinctMails(Due') /\ DistinctMails(m_Spooled')
        /\ EntryMails(Due') \cup EntryMails(m_Spooled') = EntryMails(m_Spooled)
        /\ EntryMails(Due') \cap EntryMails(m_Spooled') = {}
    BY <1>6, SplitEntries DEF IInv, Queues, Tracked
  <2>2. Flags' BY <1>1, <1>6 DEF IInv, Flags
  <2>3. Queues' BY <1>1, <1>6, <2>1, Empty DEF IInv, Queues
  <2>4. States' BY <1>1, <1>2, <1>6 DEF IInv, States
  <2>5. Records' BY <1>1 DEF IInv, Records
  <2>6. Phases' BY <1>1, <1>2, <1>6 DEF IInv, Phases
  <2>7. EntryMails(Pending) = {} /\ DistinctMails(Pending) /\ EntryMails(Due) = {}
        /\ Elements(Fresh) = {}
    BY <1>2, Empty
  <2>8. /\ Kept' = Kept /\ Queued' = Queued /\ JustSpooled = {} /\ JustSpooled' = {}
        /\ Elements(Fresh') = Elements(m_Fresh) /\ Elements(m_Fresh') = {}
        /\ Distinct(Fresh') /\ Distinct(m_Fresh')
    BY <1>1, <1>2, <1>6, <2>1, <2>7, Empty DEF IInv, Tracked, Kept, Queued, JustSpooled
  <2>9. Tracked' BY <1>1, <1>3, <1>6, <2>1, <2>7, <2>8 DEF IInv, Tracked
  <2>10. TakenOnce'
    <3>1. Answered = {} BY <1>2 DEF Answered
    <3> QED BY <1>1, <2>8, <3>1 DEF IInv, TakenOnce
  <2> QED BY <2>2, <2>3, <2>4, <2>5, <2>6, <2>9, <2>10 DEF IInv
<1> QED BY <1>4, <1>5, <1>6 DEF Round

LEMMA MergeKeeps ==
    ASSUME IInv, Merge
    PROVE  IInv'
<1> DEFINE due == [i \in 1 .. Len(m_Spooled) |->
                     IF bConnected THEN [m_Spooled[i] EXCEPT !.wait = 0] ELSE m_Spooled[i]]
<1>1. /\ thread = "deliver" /\ Due = <<>> /\ Fresh = <<>> /\ thread' = "held"
      /\ m_Spooled' = due \o Pending
      /\ Due' = <<>> /\ Fresh' = <<>> /\ Pending' = <<>>
      /\ connection' = FALSE /\ bConnected' = FALSE /\ bConnectFailed' = FALSE
      /\ step' = "next"
      /\ UNCHANGED <<m_Fresh, m_bThreadRunning, m_bQuit, process, disk, tmp, age, stops,
                     added, copies, unsure>>
  BY DEF Merge, NoDelivery, files, history
<1>2. /\ due \in Seq(SpoolEntry) /\ EntryMails(due) = EntryMails(m_Spooled)
      /\ DistinctMails(m_Spooled) => DistinctMails(due)
  <2>1. m_Spooled \in Seq(SpoolEntry) BY DEF IInv, Queues
  <2>2. PICK es \in Seq(SpoolEntry), n \in Nat : es = m_Spooled /\ n = Len(es) BY <2>1
  <2>3. PICK fs : fs = due OBVIOUS
  <2>4. \A i \in 1 .. n : fs[i] = IF bConnected THEN [es[i] EXCEPT !.wait = 0] ELSE es[i]
    BY <2>2, <2>3
  <2>5. ASSUME NEW i \in 1 .. n
        PROVE  fs[i] \in SpoolEntry /\ fs[i].mail = es[i].mail
    <3>1. es[i] \in SpoolEntry BY <2>2
    <3>2. 0 \in 0 .. MaxRetryInterval BY KMailSpoolAssumption
    <3>3. [es[i] EXCEPT !.wait = 0] \in SpoolEntry BY <3>1, <3>2 DEF SpoolEntry
    <3>4. [es[i] EXCEPT !.wait = 0].mail = es[i].mail BY <3>1 DEF SpoolEntry
    <3> QED BY <2>4, <3>1, <3>3, <3>4
  <2>6. fs = [i \in 1 .. n |-> fs[i]] BY <2>2, <2>3
  <2>7. fs \in Seq(SpoolEntry) /\ Len(fs) = n BY <2>5, <2>6
  <2>8. EntryMails(fs) = EntryMails(es) BY <2>2, <2>5, <2>7 DEF EntryMails
  <2>9. DistinctMails(es) => DistinctMails(fs) BY <2>2, <2>5, <2>7 DEF DistinctMails
  <2> QED BY <2>2, <2>3, <2>7, <2>8, <2>9
<1> HIDE DEF due
<1>3. Pending \in Seq(SpoolEntry) BY DEF IInv, Queues
<1>4. /\ m_Spooled' \in Seq(SpoolEntry)
      /\ EntryMails(m_Spooled') = EntryMails(m_Spooled) \cup EntryMails(Pending)
      /\ DistinctMails(m_Spooled')
  BY <1>1, <1>2, <1>3, ConcatEntryMails DEF IInv, Tracked
<1>5. Flags' BY <1>1 DEF IInv, Flags
<1>6. Queues' BY <1>1, <1>4, Empty DEF IInv, Queues
<1>7. States' BY <1>1 DEF IInv, States
<1>8. Records' BY <1>1 DEF IInv, Records
<1>9. process # "down" /\ step = "next" BY <1>1 DEF IInv, Phases
<1>10. Phases' BY <1>1, <1>9 DEF Phases
<1>11. /\ Kept' = Kept /\ Queued' = Queued /\ JustSpooled' = {} /\ JustSpooled = {}
       /\ Watched /\ EntryMails(Due') = {} /\ EntryMails(Pending') = {}
       /\ DistinctMails(Due') /\ DistinctMails(Pending')
       /\ Elements(Fresh') = {} /\ Distinct(Fresh')
  BY <1>1, <1>4, <1>9, Empty DEF Kept, Queued, JustSpooled, Watched
<1>12. Tracked' BY <1>1, <1>4, <1>11 DEF IInv, Tracked
<1>13. TakenOnce'
  <2>1. Answered = {} BY <1>9 DEF Answered
  <2> QED BY <1>1, <1>11, <2>1 DEF IInv, TakenOnce
<1> QED BY <1>5, <1>6, <1>7, <1>8, <1>10, <1>12, <1>13 DEF IInv

-------------------------------------------------------------------------------
\* Deliver: the attempt, and what becomes of the mail

LEMMA CurrentKept ==
    ASSUME IInv, thread = "deliver", Due # <<>> \/ Fresh # <<>>
    PROVE  Current \in Kept
<1>1. CASE Due # <<>>
  <2>1. Head(Due).mail \in EntryMails(Due) BY <1>1, HeadAndTail DEF IInv, Queues
  <2>2. Watched BY DEF Watched
  <2> QED BY <1>1, <2>1, <2>2 DEF Current, Kept, IInv, Tracked, Queued
<1>2. CASE Due = <<>>
  <2>1. Head(Fresh) \in Elements(Fresh) BY <1>2, HeadAndTail DEF IInv, Queues
  <2> QED BY <1>2, <2>1 DEF Current, Kept
<1> QED BY <1>1, <1>2

LEMMA AttemptKeeps ==
    ASSUME IInv, Attempt
    PROVE  IInv'
<1>1. /\ thread = "deliver" /\ step = "next" /\ (Due # <<>> \/ Fresh # <<>>)
      /\ UNCHANGED <<m_Fresh, m_Spooled, m_bThreadRunning, m_bQuit, process, thread, Due,
                     Fresh, Pending, disk, tmp, age, stops, added>>
  BY DEF Attempt, Delivering, memory, files
<1>2. /\ step' \in {"sent", "rejected", "failed", "unreadable"}
      /\ connection' \in BOOLEAN /\ bConnected' \in BOOLEAN /\ bConnectFailed' \in BOOLEAN
  BY DEF Attempt, Connected, Unconnected, IInv, Flags
<1>3. \/ UNCHANGED <<copies, unsure>>
      \/ /\ unsure' = unsure \cup {Current}
         /\ copies' = IF copies[Current] < 2 THEN [copies EXCEPT ![Current] = @ + 1]
                                             ELSE copies
      \/ /\ step' = "sent" /\ unsure' = unsure
         /\ copies' = IF copies[Current] < 2 THEN [copies EXCEPT ![Current] = @ + 1]
                                             ELSE copies
  BY DEF Attempt
<1>4. PICK m \in Mail : m = Current BY <1>1, CurrentMail DEF IInv
<1>5. m \in Kept BY <1>1, <1>4, CurrentKept
<1>6. Flags' BY <1>1, <1>2 DEF IInv, Flags
<1>7. Queues' BY <1>1 DEF IInv, Queues
<1>8. States' BY <1>1, <1>2 DEF IInv, States
<1>9. Records'
  <2>1. copies \in [Mail -> 0 .. 2] /\ unsure \subseteq Mail BY DEF IInv, Records
  <2>2. [copies EXCEPT ![m] = @ + 1] \in [Mail -> 0 .. 2] \/ ~(copies[m] < 2) BY <2>1
  <2>3. copies' \in [Mail -> 0 .. 2] /\ unsure' \subseteq Mail BY <1>3, <1>4, <2>1, <2>2
  <2> QED BY <1>1, <2>3 DEF IInv, Records
<1>10. Phases' BY <1>1, <1>2 DEF IInv, Phases
<1>11. /\ Kept' = Kept /\ Queued' = Queued /\ JustSpooled = {} /\ JustSpooled' = {}
       /\ Watched' = Watched
  BY <1>1, <1>2 DEF Kept, Queued, JustSpooled, Watched
<1>12. Tracked' BY <1>1, <1>11 DEF IInv, Tracked
<1>13. TakenOnce'
  <2>1. Answered = {} /\ (step' = "sent" => Answered' = {m})
    BY <1>1, <1>4 DEF Answered, Current
  <2>2. \A k \in Mail : copies[k] > 0 /\ k \notin unsure =>
          copies[k] = 1 /\ k \in added /\ k \notin Kept
    BY <2>1 DEF IInv, TakenOnce
  <2>3. copies[m] = 0 \/ m \in unsure
    BY <1>5, <2>2 DEF IInv, Records
  <2>4. m \in added BY <1>5 DEF IInv, Tracked
  <2>5. copies \in [Mail -> 0 .. 2] BY DEF IInv, Records
  <2>6. \A k \in Mail : k # m => copies'[k] = copies[k] BY <1>3, <1>4, <2>5
  <2>7. ASSUME NEW k \in Mail, copies'[k] > 0, k \notin unsure'
        PROVE  copies'[k] = 1 /\ k \in added' /\ (k \in Kept' => k \in Answered')
    <3>1. CASE k # m BY <1>1, <1>3, <1>11, <2>2, <2>6, <2>7, <3>1
    <3>2. CASE k = m
      <4>1. m \notin unsure' BY <2>7, <3>2
      <4>2. m \notin unsure BY <1>3, <4>1
      <4>3. copies[m] = 0 BY <2>3, <4>2
      <4>4. step' = "sent" /\ copies' = [copies EXCEPT ![m] = @ + 1]
        BY <1>3, <1>4, <2>7, <3>2, <4>1, <4>3
      <4>5. copies'[m] = 1 BY <2>5, <4>3, <4>4
      <4> QED BY <1>1, <2>1, <2>4, <3>2, <4>4, <4>5
    <3> QED BY <3>1, <3>2
  <2> QED BY <2>7 DEF TakenOnce
<1> QED BY <1>6, <1>7, <1>8, <1>9, <1>10, <1>12, <1>13 DEF IInv

\* Both ends of a mail's round: its file is removed, or it has an entry again.
Removed(m)  == Remove(m) /\ Pending' = Pending
Deferred(m) == \E e \in SpoolEntry : /\ e.mail = m
                                     /\ Pending' = Append(Pending, e) /\ disk' = disk

LEMMA RescheduleEnds ==
    ASSUME NEW e \in SpoolEntry, Reschedule(e)
    PROVE  Removed(e.mail) \/ Deferred(e.mail)
<1>1. CASE Remove(e.mail) /\ UNCHANGED Pending BY <1>1 DEF Removed
<1>2. CASE Pending' = Append(Pending, NextAttempt(e)) /\ UNCHANGED disk
  <2>1. NextAttempt(e) \in SpoolEntry /\ NextAttempt(e).mail = e.mail BY NextAttemptType
  <2> QED BY <1>2, <2>1 DEF Deferred
<1> QED BY <1>1, <1>2 DEF Reschedule

LEMMA SettledQueues ==
    ASSUME IInv, NEW m \in Mail, Removed(m) \/ Deferred(m)
    PROVE  /\ disk' \in Seq(Mail) /\ Distinct(disk') /\ Pending' \in Seq(SpoolEntry)
           /\ Removed(m) => /\ Elements(disk') = Elements(disk) \ {m}
                            /\ Pending' = Pending
           /\ ~Removed(m) => /\ disk' = disk
                             /\ EntryMails(Pending') = EntryMails(Pending) \cup {m}
           /\ Removed(m) \/ m \notin EntryMails(Pending) => DistinctMails(Pending')
<1>1. disk \in Seq(Mail) /\ Distinct(disk) /\ Pending \in Seq(SpoolEntry)
      /\ DistinctMails(Pending)
  BY DEF IInv, Queues, Tracked
<1>2. CASE Removed(m)
  <2>1. disk' = Select(disk, Mail \ {m}) /\ Pending' = Pending
    BY <1>2 DEF IInv, Removed, Remove
  <2>2. /\ disk' \in Seq(Mail) /\ Distinct(disk')
        /\ Elements(disk') = Elements(disk) \cap (Mail \ {m})
    BY <1>1, <2>1, SelectElements
  <2>3. Elements(disk) \subseteq Mail BY <1>1 DEF Elements
  <2> QED BY <1>1, <1>2, <2>1, <2>2, <2>3
<1>3. CASE ~Removed(m)
  <2>1. PICK e \in SpoolEntry : e.mail = m /\ Pending' = Append(Pending, e) /\ disk' = disk
    BY <1>3 DEF Deferred
  <2>2. /\ Pending' \in Seq(SpoolEntry)
        /\ EntryMails(Pending') = EntryMails(Pending) \cup {m}
        /\ m \notin EntryMails(Pending) => DistinctMails(Pending')
    BY <1>1, <2>1, AppendElements
  <2> QED BY <1>1, <1>3, <2>1, <2>2
<1> QED BY <1>2, <1>3

LEMMA SettleDueKeeps ==
    ASSUME IInv, SettleDue
    PROVE  IInv'
<1>1. /\ thread = "deliver" /\ Due # <<>> /\ step # "next"
      /\ Due' = Tail(Due) /\ step' = "next"
      /\ UNCHANGED <<m_Fresh, m_Spooled, m_bThreadRunning, m_bQuit, process, thread, Fresh,
                     connection, bConnected, bConnectFailed, tmp, age, stops, added, copies,
                     unsure>>
  BY DEF SettleDue, memory, history
<1>2. PICK e \in SpoolEntry : e = Head(Due) BY <1>1, HeadAndTail DEF IInv, Queues
<1>3. PICK m \in Mail : m = e.mail BY <1>2 DEF SpoolEntry
<1>4. m = Current BY <1>1, <1>2, <1>3 DEF Current
<1>5. Removed(m) \/ (Deferred(m) /\ step = "failed")
  BY <1>2, <1>3, <1>4, RescheduleEnds DEF SettleDue, Removed
<1>6. /\ Due' \in Seq(SpoolEntry) /\ DistinctMails(Due')
      /\ EntryMails(Due) = {m} \cup EntryMails(Due') /\ m \notin EntryMails(Due')
  BY <1>1, <1>2, <1>3, HeadAndTail DEF IInv, Queues, Tracked
<1>7. JustSpooled = {} /\ JustSpooled' = {} /\ Watched /\ Watched'
  BY <1>1 DEF IInv, Phases, JustSpooled, Watched
<1>8. m \notin EntryMails(Pending) /\ m \notin EntryMails(m_Spooled) /\ m \in Elements(disk)
  BY <1>6, <1>7 DEF IInv, Tracked, Queued
<1>9. /\ disk' \in Seq(Mail) /\ Distinct(disk') /\ Pending' \in Seq(SpoolEntry)
      /\ Removed(m) => Elements(disk') = Elements(disk) \ {m} /\ Pending' = Pending
      /\ ~Removed(m) => disk' = disk /\ EntryMails(Pending') = EntryMails(Pending) \cup {m}
      /\ DistinctMails(Pending')
  BY <1>5, <1>8, SettledQueues
<1>10. Flags' BY <1>1 DEF IInv, Flags
<1>11. Queues' BY <1>1, <1>6, <1>9 DEF IInv, Queues
<1>12. States' BY <1>1 DEF IInv, States
<1>13. Records' BY <1>1 DEF IInv, Records
<1>14. Phases' BY <1>1 DEF IInv, Phases
<1>15. Kept' = IF Removed(m) THEN Kept \ {m} ELSE Kept
  BY <1>1, <1>7, <1>8, <1>9 DEF IInv, Tracked, Kept
<1>16. Tracked'
  <2>1. Queued' = Elements(disk')
    BY <1>1, <1>6, <1>7, <1>8, <1>9 DEF IInv, Tracked, Queued
  <2>2. /\ EntryMails(Pending') \subseteq EntryMails(Pending) \cup {m}
        /\ Elements(disk') \subseteq Elements(disk) /\ Kept' \subseteq Kept
    BY <1>9, <1>15
  <2>3. /\ EntryMails(m_Spooled') \cap EntryMails(Due') = {}
        /\ EntryMails(m_Spooled') \cap EntryMails(Pending') = {}
        /\ EntryMails(Due') \cap EntryMails(Pending') = {}
    BY <1>1, <1>6, <1>8, <2>2 DEF IInv, Tracked
  <2> QED BY <1>1, <1>6, <1>7, <1>9, <2>1, <2>2, <2>3 DEF IInv, Tracked
<1>17. TakenOnce'
  <2>1. Answered \subseteq {m} /\ (step = "failed" => Answered = {})
    BY <1>1, <1>2, <1>3 DEF Answered
  <2>2. \A k \in Mail : k \in Kept' => k \notin Answered BY <1>5, <1>15, <2>1
  <2> QED BY <1>1, <1>15, <2>2 DEF IInv, TakenOnce
<1> QED BY <1>10, <1>11, <1>12, <1>13, <1>14, <1>16, <1>17 DEF IInv

LEMMA SettleFreshKeeps ==
    ASSUME IInv, SettleFresh
    PROVE  IInv'
<1>1. /\ thread = "deliver" /\ Due = <<>> /\ Fresh # <<>>
      /\ Fresh' = Tail(Fresh) /\ step' = "next"
      /\ UNCHANGED <<m_Fresh, m_Spooled, m_bThreadRunning, m_bQuit, process, thread, Due,
                     connection, bConnected, bConnectFailed, tmp, age, stops, added, copies,
                     unsure>>
  BY DEF SettleFresh, memory, history
<1>2. PICK m \in Mail : m = Head(Fresh) BY <1>1, HeadAndTail DEF IInv, Queues
<1>3. /\ Fresh' \in Seq(Mail) /\ Distinct(Fresh')
      /\ Elements(Fresh) = {m} \cup Elements(Fresh') /\ m \notin Elements(Fresh')
  BY <1>1, <1>2, HeadAndTail DEF IInv, Queues, Tracked
<1>4. Watched /\ Watched' /\ JustSpooled' = {} BY <1>1 DEF Watched, JustSpooled
<1>5. m \notin Elements(m_Fresh) BY <1>3 DEF IInv, Tracked
<1>6. Flags' BY <1>1 DEF IInv, Flags
<1>7. States' BY <1>1 DEF IInv, States
<1>8. Records' BY <1>1 DEF IInv, Records
<1>9. Phases' BY <1>1 DEF IInv, Phases
<1>10. Answered \subseteq {m} BY <1>1, <1>2 DEF Answered
<1>11. CASE step \in {"sent", "rejected"} /\ UNCHANGED <<disk, Pending>>
  <2>1. Queues' BY <1>1, <1>3, <1>11 DEF IInv, Queues
  <2>2. JustSpooled = {} /\ Queued' = Queued BY <1>1, <1>11 DEF JustSpooled, Queued
  <2>3. Kept' = Kept \ {m} BY <1>1, <1>3, <1>5, <1>11, <2>2 DEF IInv, Tracked, Kept
  <2>4. Tracked' BY <1>1, <1>3, <1>4, <1>11, <2>2, <2>3 DEF IInv, Tracked
  <2>5. TakenOnce' BY <1>1, <1>10, <2>3 DEF IInv, TakenOnce
  <2> QED BY <1>6, <1>7, <1>8, <1>9, <2>1, <2>4, <2>5 DEF IInv
<1>12. CASE step = "spooled" /\ Reschedule(Entry(Head(Fresh), 0, 0))
  <2>1. Entry(m, 0, 0) \in SpoolEntry /\ Entry(m, 0, 0).mail = m BY EntryType
  <2>2. Removed(m) \/ Deferred(m) BY <1>2, <1>12, <2>1, RescheduleEnds
  <2>3. JustSpooled = {m} BY <1>2, <1>12 DEF JustSpooled
  <2>4. m \notin Queued /\ m \in Elements(disk) /\ Queued \cup {m} = Elements(disk)
    BY <1>4, <2>3 DEF IInv, Tracked
  <2>5. /\ disk' \in Seq(Mail) /\ Distinct(disk') /\ Pending' \in Seq(SpoolEntry)
        /\ Removed(m) => Elements(disk') = Elements(disk) \ {m} /\ Pending' = Pending
        /\ ~Removed(m) => disk' = disk /\ EntryMails(Pending') = EntryMails(Pending) \cup {m}
        /\ DistinctMails(Pending')
    BY <2>2, <2>4, SettledQueues DEF Queued
  <2>6. Queues' BY <1>1, <1>3, <2>5 DEF IInv, Queues
  <2>7. Queued' = Elements(disk') BY <1>1, <2>4, <2>5 DEF Queued
  <2>8. Kept' \subseteq Kept /\ Elements(disk') \subseteq Elements(disk)
    BY <1>1, <1>3, <2>5 DEF Kept
  <2>9. /\ Elements(disk') \cap Elements(Fresh') = {}
        /\ EntryMails(m_Spooled') \cap EntryMails(Pending') = {}
        /\ EntryMails(Due') \cap EntryMails(Pending') = {}
    BY <1>1, <1>3, <2>3, <2>4, <2>5, <2>8 DEF IInv, Tracked, Queued
  <2>10. Tracked' BY <1>1, <1>3, <1>4, <2>5, <2>7, <2>8, <2>9 DEF IInv, Tracked
  <2>11. TakenOnce'
    <3>1. Answered = {} BY <1>12 DEF Answered
    <3> QED BY <1>1, <2>8, <3>1 DEF IInv, TakenOnce
  <2> QED BY <1>6, <1>7, <1>8, <1>9, <2>6, <2>10, <2>11 DEF IInv
<1> QED BY <1>11, <1>12 DEF SettleFresh

-------------------------------------------------------------------------------
\* Spool(): for a fresh mail of Deliver, or for the destructor

Spoolable == \/ thread = "deliver" /\ Due = <<>> /\ Fresh # <<>>
             \/ thread = "none" /\ process = "quitting" /\ m_Fresh # <<>>

LEMMA PopSpoolingMail ==
    ASSUME IInv, Spoolable
    PROVE  /\ Spooling \in Mail /\ Spooling \in Elements(m_Fresh) \cup Elements(Fresh)
           /\ PopSpooling =>
                 /\ m_Fresh' \in Seq(Mail) /\ Fresh' \in Seq(Mail)
                 /\ Distinct(m_Fresh') /\ Distinct(Fresh')
                 /\ Elements(m_Fresh') \subseteq Elements(m_Fresh)
                 /\ Elements(Fresh') \subseteq Elements(Fresh)
                 /\ Elements(m_Fresh') \cup Elements(Fresh')
                      = (Elements(m_Fresh) \cup Elements(Fresh)) \ {Spooling}
                 /\ thread # "deliver" => Fresh' = Fresh
                 /\ thread = "deliver" => m_Fresh' = m_Fresh
<1>1. /\ m_Fresh \in Seq(Mail) /\ Fresh \in Seq(Mail) /\ Distinct(m_Fresh) /\ Distinct(Fresh)
      /\ Elements(m_Fresh) \cap Elements(Fresh) = {}
  BY DEF IInv, Queues, Tracked
<1>2. CASE thread = "deliver"
  <2>1. Fresh # <<>> /\ Spooling = Head(Fresh) BY <1>2 DEF Spoolable, Spooling
  <2>2. PICK m \in Mail : m = Head(Fresh) BY <1>1, <2>1, HeadAndTail
  <2>3. PICK rest \in Seq(Mail) : rest = Tail(Fresh) BY <1>1, <2>1, HeadAndTail
  <2>4. /\ Elements(Fresh) = {m} \cup Elements(rest) /\ m \notin Elements(rest)
        /\ Distinct(rest)
    BY <1>1, <2>1, <2>2, <2>3, HeadAndTail
  <2>5. PopSpooling => Fresh' = rest /\ m_Fresh' = m_Fresh BY <1>2, <2>3 DEF PopSpooling
  <2>6. Spooling \in Mail /\ Spooling \in Elements(Fresh) /\ Spooling \notin Elements(m_Fresh)
        /\ Elements(rest) = Elements(Fresh) \ {Spooling}
    BY <1>1, <2>1, <2>2, <2>4
  <2> QED BY <1>1, <1>2, <2>3, <2>4, <2>5, <2>6
<1>3. CASE thread # "deliver"
  <2>1. m_Fresh # <<>> /\ Spooling = Head(m_Fresh) BY <1>3 DEF Spoolable, Spooling
  <2>2. PICK m \in Mail : m = Head(m_Fresh) BY <1>1, <2>1, HeadAndTail
  <2>3. PICK rest \in Seq(Mail) : rest = Tail(m_Fresh) BY <1>1, <2>1, HeadAndTail
  <2>4. /\ Elements(m_Fresh) = {m} \cup Elements(rest) /\ m \notin Elements(rest)
        /\ Distinct(rest)
    BY <1>1, <2>1, <2>2, <2>3, HeadAndTail
  <2>5. PopSpooling => m_Fresh' = rest /\ Fresh' = Fresh BY <1>3, <2>3 DEF PopSpooling
  <2>6. Spooling \in Mail /\ Spooling \in Elements(m_Fresh) /\ Spooling \notin Elements(Fresh)
        /\ Elements(rest) = Elements(m_Fresh) \ {Spooling}
    BY <1>1, <2>1, <2>2, <2>4
  <2> QED BY <1>1, <1>3, <2>3, <2>4, <2>5, <2>6
<1> QED BY <1>2, <1>3

\* what both steps of Spool() leave alone
SpoolFrame == UNCHANGED <<m_Spooled, m_bThreadRunning, m_bQuit, process, thread, Due, Pending,
                          connection, bConnected, bConnectFailed, age, stops, added, copies,
                          unsure>>

LEMMA SpoolFailsKeeps ==
    ASSUME IInv, Spoolable, step \notin {"sent", "spooled"}, SpoolFails, SpoolFrame
    PROVE  IInv'
<1>1. PICK m \in Mail : m = Spooling BY PopSpoolingMail
<1>2. tmp' = tmp \ {m} /\ PopSpooling /\ step' = "next" /\ disk' = disk
  BY <1>1 DEF SpoolFails
<1>3. /\ m_Fresh' \in Seq(Mail) /\ Fresh' \in Seq(Mail)
      /\ Distinct(m_Fresh') /\ Distinct(Fresh')
      /\ Elements(m_Fresh') \subseteq Elements(m_Fresh)
      /\ Elements(Fresh') \subseteq Elements(Fresh)
      /\ thread # "deliver" => Fresh' = Fresh
      /\ thread = "deliver" => m_Fresh' = m_Fresh
  BY <1>2, PopSpoolingMail
<1>4. Flags' BY DEF SpoolFrame, IInv, Flags
<1>5. Queues' BY <1>2, <1>3 DEF SpoolFrame, IInv, Queues
<1>6. States' BY <1>2 DEF SpoolFrame, IInv, States
<1>7. Records' BY <1>2 DEF SpoolFrame, IInv, Records
<1>8. Phases' BY <1>2, <1>3 DEF SpoolFrame, IInv, Phases, Spoolable
<1>9. /\ JustSpooled = {} /\ JustSpooled' = {} /\ Queued' = Queued /\ Watched' = Watched
      /\ Kept' \subseteq Kept
  BY <1>2, <1>3 DEF SpoolFrame, JustSpooled, Queued, Watched, Kept
<1>10. Tracked' BY <1>2, <1>3, <1>9 DEF SpoolFrame, IInv, Tracked
<1>11. TakenOnce'
  <2>1. Answered = {} BY DEF Answered
  <2> QED BY <1>9, <2>1 DEF SpoolFrame, IInv, TakenOnce
<1> QED BY <1>4, <1>5, <1>6, <1>7, <1>8, <1>10, <1>11 DEF IInv

LEMMA SpoolWriteKeeps ==
    ASSUME IInv, SpoolWrite
    PROVE  IInv'
<1>1. Spoolable /\ step \in {"failed", "next"} /\ SpoolFrame
  BY DEF SpoolWrite, Spoolable, SpoolFrame
<1>2. CASE SpoolFails BY <1>1, <1>2, SpoolFailsKeeps
<1>3. CASE /\ tmp' = tmp \cup {Spooling} /\ step' = "written"
           /\ UNCHANGED <<m_Fresh, Fresh, disk, outcome>>
  <2>1. Spooling \in Mail BY <1>1, PopSpoolingMail
  <2>2. Flags' BY <1>1 DEF SpoolFrame, IInv, Flags
  <2>3. Queues' BY <1>1, <1>3 DEF SpoolFrame, IInv, Queues
  <2>4. States' BY <1>1, <1>3 DEF SpoolFrame, IInv, States
  <2>5. Records' BY <1>1, <1>3, <2>1 DEF SpoolFrame, IInv, Records
  <2>6. Phases' BY <1>1, <1>3 DEF SpoolFrame, IInv, Phases, Spoolable
  <2>7. /\ JustSpooled = {} /\ JustSpooled' = {} /\ Queued' = Queued /\ Watched' = Watched
        /\ Kept' = Kept
    BY <1>1, <1>3 DEF SpoolFrame, JustSpooled, Queued, Watched, Kept
  <2>8. Tracked' BY <1>1, <1>3, <2>7 DEF SpoolFrame, IInv, Tracked
  <2>9. TakenOnce'
    <3>1. Answered = {} BY <1>1 DEF Answered
    <3> QED BY <1>1, <2>7, <3>1 DEF SpoolFrame, IInv, TakenOnce
  <2> QED BY <2>2, <2>3, <2>4, <2>5, <2>6, <2>8, <2>9 DEF IInv
<1> QED BY <1>2, <1>3 DEF SpoolWrite

LEMMA SpoolRenameKeeps ==
    ASSUME IInv, SpoolRename
    PROVE  IInv'
<1>1. Spoolable /\ step = "written" /\ SpoolFrame
  BY DEF SpoolRename, Spoolable, SpoolFrame, IInv, Phases
<1>2. CASE SpoolFails BY <1>1, <1>2, SpoolFailsKeeps
<1>3. CASE /\ tmp' = tmp \ {Spooling} /\ disk' = Append(disk, Spooling)
           /\ IF thread = "deliver" THEN step' = "spooled" /\ UNCHANGED <<m_Fresh, Fresh>>
                                    ELSE step' = "next" /\ PopSpooling
  <2>1. PICK m \in Mail : m = Spooling BY <1>1, PopSpoolingMail
  <2>2. m \in Elements(m_Fresh) \cup Elements(Fresh) BY <1>1, <2>1, PopSpoolingMail
  <2>3. JustSpooled = {} BY <1>1 DEF JustSpooled
  <2>4. m \notin Elements(disk) BY <2>2, <2>3 DEF IInv, Tracked
  <2>5. /\ disk' \in Seq(Mail) /\ Distinct(disk')
        /\ Elements(disk') = Elements(disk) \cup {m}
    BY <1>3, <2>1, <2>4, AppendElements DEF IInv, Queues, Tracked
  <2>6. Flags' BY <1>1 DEF SpoolFrame, IInv, Flags
  <2>7. Records' BY <1>1, <1>3 DEF SpoolFrame, IInv, Records
  <2>8. States' BY <1>1, <1>3 DEF SpoolFrame, IInv, States
  <2>9. Answered = {} BY <1>1 DEF Answered
  <2>10. CASE thread = "deliver"
    <3>1. step' = "spooled" /\ m_Fresh' = m_Fresh /\ Fresh' = Fresh BY <1>3, <2>10
    <3>2. m = Head(Fresh) BY <2>1, <2>10 DEF Spooling
    <3>3. Queues' BY <1>1, <2>5, <3>1 DEF SpoolFrame, IInv, Queues
    <3>4. Phases' BY <1>1, <2>10, <3>1 DEF SpoolFrame, IInv, Phases, Spoolable
    <3>5. m \in Elements(Fresh) /\ m \notin Elements(m_Fresh)
      <4>1. Fresh # <<>> BY <1>1, <2>10 DEF Spoolable
      <4>2. m \in Elements(Fresh) BY <3>2, <4>1, HeadAndTail DEF IInv, Queues
      <4> QED BY <4>2 DEF IInv, Tracked
    <3>6. /\ JustSpooled' = {m} /\ Queued' = Queued /\ Watched /\ Kept' = Kept
      BY <1>1, <2>5, <2>10, <3>1, <3>2, <3>5
      DEF SpoolFrame, JustSpooled, Queued, Watched, Kept
    <3>7. Queued = Elements(disk) BY <2>3, <3>6 DEF IInv, Tracked
    <3>8. Tracked' BY <1>1, <2>3, <2>4, <2>5, <3>1, <3>5, <3>6, <3>7
      DEF SpoolFrame, IInv, Tracked
    <3>9. TakenOnce' BY <1>1, <2>9, <3>6 DEF SpoolFrame, IInv, TakenOnce
    <3> QED BY <2>6, <2>7, <2>8, <3>3, <3>4, <3>8, <3>9 DEF IInv
  <2>11. CASE thread # "deliver"
    <3>1. step' = "next" /\ PopSpooling BY <1>3, <2>11
    <3>2. /\ m_Fresh' \in Seq(Mail) /\ Fresh' \in Seq(Mail)
          /\ Distinct(m_Fresh') /\ Distinct(Fresh')
          /\ Elements(m_Fresh') \cup Elements(Fresh')
               = (Elements(m_Fresh) \cup Elements(Fresh)) \ {m}
          /\ Elements(m_Fresh') \subseteq Elements(m_Fresh)
          /\ Fresh' = Fresh
      BY <1>1, <2>1, <2>11, <3>1, PopSpoolingMail
    <3>3. Queues' BY <1>1, <2>5, <3>2 DEF SpoolFrame, IInv, Queues
    <3>4. Phases' BY <1>1, <2>11, <3>1, <3>2 DEF SpoolFrame, IInv, Phases, Spoolable
    <3>5. ~Watched' /\ JustSpooled' = {} BY <1>1, <2>11, <3>1
      DEF SpoolFrame, Spoolable, Watched, JustSpooled
    <3>6. Kept' = Kept BY <2>2, <2>5, <3>2 DEF Kept
    <3>7. Tracked' BY <1>1, <2>3, <2>5, <3>2, <3>5, <3>6 DEF SpoolFrame, IInv, Tracked
    <3>8. TakenOnce' BY <1>1, <2>9, <3>6 DEF SpoolFrame, IInv, TakenOnce
    <3> QED BY <2>6, <2>7, <2>8, <3>3, <3>4, <3>7, <3>8 DEF IInv
  <2> QED BY <2>10, <2>11
<1> QED BY <1>2, <1>3 DEF SpoolRename

-------------------------------------------------------------------------------

LEMMA NextIInv == IInv /\ [Next]_vars => IInv'
<1> SUFFICES ASSUME IInv, [Next]_vars PROVE IInv' OBVIOUS
<1>1. CASE Construct BY <1>1, ConstructKeeps
<1>2. CASE Crash \/ Quit \/ QuitJoin \/ QuitDone BY <1>2, EndsKeep
<1>3. ASSUME NEW m \in Mail, Add(m) PROVE IInv' BY <1>3, AddKeeps
<1>4. CASE Tick BY <1>4, TickKeeps
<1>5. CASE Lock \/ Wake BY <1>5, WakingKeeps
<1>6. CASE Round BY <1>6, RoundKeeps
<1>7. CASE Merge BY <1>7, MergeKeeps
<1>8. CASE Attempt BY <1>8, AttemptKeeps
<1>9. CASE SettleDue BY <1>9, SettleDueKeeps
<1>10. CASE SettleFresh BY <1>10, SettleFreshKeeps
<1>11. CASE SpoolWrite BY <1>11, SpoolWriteKeeps
<1>12. CASE SpoolRename BY <1>12, SpoolRenameKeeps
<1>13. CASE UNCHANGED vars
  <2>1. /\ UNCHANGED <<m_Fresh, m_Spooled, Due, Fresh, Pending, step, files, age, added,
                       copies, unsure>>
        /\ UNCHANGED <<m_bThreadRunning, m_bQuit, process, thread, connection, bConnected,
                       bConnectFailed, stops>>
    BY <1>13 DEF vars, memory, deliver, history
  <2>2. Flags' /\ States' /\ Phases' BY <2>1 DEF IInv, Flags, States, Phases
  <2>3. stops' \in 0 .. MaxStops /\ (Watched' => Watched)
    BY <2>1 DEF IInv, Records, Watched
  <2> QED BY <2>1, <2>2, <2>3, NoMailMoves
<1> QED BY <1>1, <1>2, <1>3, <1>4, <1>5, <1>6, <1>7, <1>8, <1>9, <1>10, <1>11, <1>12, <1>13
    DEF Next

THEOREM IInvHolds ==
    ASSUME "remove" \notin DiskFaults
    PROVE  Spec => []IInv
BY InitIInv, NextIInv, PTL DEF Spec

\* The variables keep their types.
THEOREM TypeCorrect ==
    ASSUME "remove" \notin DiskFaults
    PROVE  Spec => []TypeOK
<1>1. IInv => TypeOK BY TypeParts DEF IInv
<1> QED BY <1>1, IInvHolds, PTL

\* While the thread may work, every file in the spool directory is known to exactly one
\* entry of the retry queue, and every entry has its file.
THEOREM FilesHaveOneEntry ==
    ASSUME "remove" \notin DiskFaults
    PROVE  Spec => []FilesTrackedOnce
<1>1. ASSUME IInv PROVE FilesTrackedOnce
  <2> SUFFICES ASSUME Watched PROVE LET entries == m_Spooled \o Due \o Pending IN
           /\ Cardinality(EntryMails(entries)) = Len(entries)
           /\ EntryMails(entries) \cap JustSpooled = {}
           /\ EntryMails(entries) \cup JustSpooled = Elements(disk)
           /\ Cardinality(Elements(disk)) = Len(disk)
    BY DEF FilesTrackedOnce, Watched, JustSpooled
  <2>1. PICK es \in Seq(SpoolEntry) : es = m_Spooled \o Due
    BY <1>1, ConcatEntryMails DEF IInv, Queues
  <2>2. EntryMails(es) = EntryMails(m_Spooled) \cup EntryMails(Due) /\ DistinctMails(es)
    BY <1>1, <2>1, ConcatEntryMails DEF IInv, Queues, Tracked
  <2>3. EntryMails(es) \cap EntryMails(Pending) = {} BY <1>1, <2>2 DEF IInv, Tracked
  <2>4. PICK all \in Seq(SpoolEntry) : all = es \o Pending
    BY <1>1, <2>1, ConcatEntryMails DEF IInv, Queues
  <2>5. EntryMails(all) = Queued /\ DistinctMails(all)
    BY <1>1, <2>2, <2>3, <2>4, ConcatEntryMails DEF IInv, Queues, Tracked, Queued
  <2>6. Cardinality(EntryMails(all)) = Len(all)
    <3>1. Len(all) \in Nat OBVIOUS
    <3> QED BY <2>5, <3>1, DistinctLength
  <2>7. Cardinality(Elements(disk)) = Len(disk)
    BY <1>1, DistinctLength DEF IInv, Queues, Tracked
  <2> QED BY <1>1, <2>1, <2>4, <2>5, <2>6, <2>7 DEF IInv, Tracked
<1> QED BY <1>1, IInvHolds, PTL

\* The relay gets a mail a second time only when its answer was lost, or when the process
\* died after the relay took it and before the file was removed.
THEOREM DuplicatesAreUnsure ==
    ASSUME "remove" \notin DiskFaults
    PROVE  Spec => []DuplicateOnlyIfUnsure
<1>1. IInv => DuplicateOnlyIfUnsure
  BY DEF IInv, Records, TakenOnce, DuplicateOnlyIfUnsure
<1> QED BY <1>1, IInvHolds, PTL

-------------------------------------------------------------------------------
\* KMailSpool implements KMailQueue.  What happened to a mail is recorded before the program
\* acts on it, and nothing happened yet to a mail that Add() has not seen.

Recorded ==
    /\ \A m \in Mail \ added : outcome[m] = {}
    /\ step \in {"sent", "rejected", "failed", "unreadable"} => step \in outcome[Current]
    /\ thread = "deliver" /\ step \in {"written", "spooled"} => "failed" \in outcome[Head(Fresh)]

RInv == IInv /\ Outcomes /\ Recorded

LEMMA RecordType ==
    ASSUME Outcomes, NEW m \in Mail, NEW what \in Q!Outcome, Record(m, what)
    PROVE  /\ Outcomes' /\ what \in outcome'[m]
           /\ \A k \in Mail : k # m => outcome'[k] = outcome[k]
BY DEF Outcomes, Record

LEMMA RecordedAtRest ==
    ASSUME RInv, added \subseteq added', step' = "next", Outcomes',
           \A m \in Mail \ added : outcome'[m] = {}
    PROVE  Recorded'
BY DEF Recorded

LEMMA NextRecorded == RInv /\ [Next]_vars => Outcomes' /\ Recorded'
<1> SUFFICES ASSUME RInv, [Next]_vars PROVE Outcomes' /\ Recorded' OBVIOUS
<1>0. /\ outcome \in [Mail -> SUBSET Q!Outcome] /\ \A m \in Mail \ added : outcome[m] = {}
      /\ Kept \subseteq added
  BY DEF RInv, Outcomes, Recorded, IInv, Tracked
<1>1. CASE Construct
  <2>1. PICK unread \in SUBSET Elements(disk) :
          outcome' = [m \in Mail |-> IF m \in unread THEN outcome[m] \cup {"unreadable"}
                                                    ELSE outcome[m]]
    BY <1>1 DEF Construct
  <2>2. Outcomes' BY <1>0, <2>1 DEF Outcomes, Q!Outcome
  <2>3. unread \subseteq added BY <1>0 DEF Kept
  <2>4. \A m \in Mail \ added : outcome'[m] = {} BY <1>0, <2>1, <2>3
  <2>5. step' = "next" /\ added' = added
    BY <1>1 DEF Construct, deliver, RInv, IInv, Phases, States
  <2> QED BY <2>2, <2>4, <2>5, RecordedAtRest
<1>2. CASE Crash \/ QuitDone
  <2>1. /\ outcome' = [m \in Mail |-> outcome[m] \ {"failed"}] /\ step' = "next"
        /\ added' = added
    BY <1>2 DEF Crash, QuitDone, Vanish, NoDelivery
  <2>2. Outcomes' BY <1>0, <2>1 DEF Outcomes
  <2>3. \A m \in Mail \ added : outcome'[m] = {} BY <1>0, <2>1
  <2> QED BY <2>1, <2>2, <2>3, RecordedAtRest
<1>3. CASE Round \/ Merge \/ SettleDue \/ SettleFresh \/ Lock \/ Wake
  <2>1. outcome' = outcome /\ added' = added
    BY <1>3 DEF Round, Merge, SettleDue, SettleFresh, Lock, Wake, history
  <2>2. CASE Merge \/ SettleDue \/ SettleFresh
    <3>1. step' = "next" BY <2>2 DEF Merge, SettleDue, SettleFresh, NoDelivery
    <3> QED BY <1>0, <2>1, <3>1, RecordedAtRest DEF Outcomes
  <2>3. CASE Round \/ Lock \/ Wake
    <3>1. step' = step /\ step = "next"
      BY <2>3 DEF Round, Lock, Wake, deliver, RInv, IInv, Phases, States
    <3> QED BY <1>0, <2>1, <3>1, RecordedAtRest DEF Outcomes
  <2> QED BY <1>3, <2>2, <2>3
<1>4. CASE Quit \/ QuitJoin \/ Tick \/ (\E m \in Mail : Add(m)) \/ UNCHANGED vars
  <2>1. /\ outcome' = outcome /\ added \subseteq added' /\ step' = step
        /\ Due' = Due /\ Fresh' = Fresh /\ (thread' = "deliver" => thread = "deliver")
    BY <1>4 DEF Quit, QuitJoin, Tick, Add, deliver, history, vars
  <2>2. Current' = Current BY <2>1 DEF Current
  <2> QED BY <1>0, <2>1, <2>2 DEF RInv, Outcomes, Recorded
<1>5. CASE Attempt
  <2>1. /\ thread = "deliver" /\ (Due # <<>> \/ Fresh # <<>>)
        /\ added' = added /\ Due' = Due /\ Fresh' = Fresh
        /\ step' \in {"sent", "rejected", "failed", "unreadable"}
        /\ Record(Current, step')
    BY <1>5 DEF Attempt, Delivering
  <2>2. PICK m \in Mail : m = Current BY <2>1, CurrentMail DEF RInv, IInv
  <2>3. m \in added BY <1>0, <2>1, <2>2, CurrentKept DEF RInv
  <2>4. step' \in Q!Outcome BY <2>1 DEF Q!Outcome
  <2>5. /\ Outcomes' /\ step' \in outcome'[m]
        /\ \A k \in Mail : k # m => outcome'[k] = outcome[k]
    BY <2>1, <2>2, <2>4, RecordType DEF RInv
  <2>6. Current' = m BY <2>1, <2>2 DEF Current
  <2> QED BY <1>0, <2>1, <2>3, <2>5, <2>6 DEF Recorded
<1>6. CASE SpoolWrite \/ SpoolRename
  <2>1. Spoolable /\ SpoolFrame
    BY <1>6 DEF SpoolWrite, SpoolRename, Spoolable, SpoolFrame, RInv, IInv, Phases
  <2>2. Spooling \in Mail /\ Spooling \in added
    BY <1>0, <2>1, PopSpoolingMail DEF RInv, Kept
  <2>3. CASE SpoolFails
    <3>1. Record(Spooling, "unwritable") /\ step' = "next" BY <2>3 DEF SpoolFails
    <3>2. "unwritable" \in Q!Outcome BY DEF Q!Outcome
    <3>3. Outcomes' /\ \A k \in Mail : k # Spooling => outcome'[k] = outcome[k]
      BY <2>2, <3>1, <3>2, RecordType DEF RInv
    <3>4. \A m \in Mail \ added : outcome'[m] = {} BY <1>0, <2>2, <3>3
    <3> QED BY <2>1, <3>1, <3>3, <3>4, RecordedAtRest DEF SpoolFrame
  <2>4. CASE ~SpoolFails
    <3>1. outcome' = outcome /\ added' = added /\ thread' = thread
      BY <1>6, <2>1, <2>4 DEF SpoolWrite, SpoolRename, SpoolFrame
    <3>2. CASE SpoolWrite
      <4>1. step' = "written" /\ Fresh' = Fresh BY <2>4, <3>2 DEF SpoolWrite
      <4>2. thread = "deliver" => step = "failed" /\ Due = <<>>
        BY <3>2 DEF SpoolWrite
      <4>3. thread = "deliver" => "failed" \in outcome[Head(Fresh)]
        BY <4>2 DEF RInv, Recorded, Current
      <4> QED BY <1>0, <3>1, <4>1, <4>3 DEF Outcomes, Recorded
    <3>3. CASE SpoolRename /\ thread = "deliver"
      <4>1. step = "written" /\ step' = "spooled" /\ Fresh' = Fresh
        BY <2>4, <3>3 DEF SpoolRename
      <4> QED BY <1>0, <3>1, <3>3, <4>1 DEF RInv, Outcomes, Recorded
    <3>4. CASE SpoolRename /\ thread # "deliver"
      <4>1. step' = "next" BY <2>4, <3>4 DEF SpoolRename
      <4> QED BY <1>0, <3>1, <4>1, RecordedAtRest DEF Outcomes
    <3> QED BY <1>6, <3>2, <3>3, <3>4
  <2> QED BY <2>3, <2>4
<1> QED BY <1>1, <1>2, <1>3, <1>4, <1>5, <1>6 DEF Next

LEMMA InitRecorded == Init => Outcomes /\ Recorded
BY DEF Init, Outcomes, Recorded

\* where, by the two sets it depends on
OnDisk   == Elements(disk)
InMemory == Elements(m_Fresh) \cup Elements(Fresh)

Located(d, f) == [m \in Mail |-> IF m \in d THEN "disk"
                                 ELSE IF m \in f THEN "memory" ELSE "nowhere"]

LEMMA WhereLocated == where = Located(OnDisk, InMemory) /\ where' = Located(OnDisk', InMemory')
BY DEF where, Located, OnDisk, InMemory

\* Where a mail is kept is where it is Kept.
LEMMA KeptSomewhere ==
    ASSUME NEW m \in Kept, m \in Mail
    PROVE  where[m] # "nowhere"
BY DEF where, Kept

\* One mail is kept no more.
LEMMA MailGone ==
    ASSUME NEW m \in Mail, m \notin OnDisk' \cup InMemory',
           OnDisk \ {m} = OnDisk' \ {m}, InMemory \ {m} = InMemory' \ {m}
    PROVE  where' = [where EXCEPT ![m] = "nowhere"]
<1>1. PICK d, f, d1, f1 : d = OnDisk /\ f = InMemory /\ d1 = OnDisk' /\ f1 = InMemory' OBVIOUS
<1>2. \A k \in Mail : k # m => (k \in d <=> k \in d1) /\ (k \in f <=> k \in f1) BY <1>1
<1>3. m \notin d1 /\ m \notin f1 BY <1>1
<1>4. Located(d1, f1) = [Located(d, f) EXCEPT ![m] = "nowhere"] BY <1>2, <1>3 DEF Located
<1> QED BY <1>1, <1>4, WhereLocated

LEMMA SameWhere ==
    ASSUME OnDisk' = OnDisk, InMemory' = InMemory
    PROVE  where' = where
BY WhereLocated

\* The steps of KMailSpool, as steps of KMailQueue
LEMMA EndsRefine ==
    ASSUME RInv, Construct \/ Crash \/ Quit \/ QuitJoin \/ QuitDone
    PROVE  Q!Next \/ UNCHANGED Q!vars
<1>1. CASE Construct
  <2>1. PICK unread \in SUBSET Elements(disk) :
          /\ disk' = Select(disk, Mail \ unread)
          /\ outcome' = [m \in Mail |-> IF m \in unread THEN outcome[m] \cup {"unreadable"}
                                                    ELSE outcome[m]]
    BY <1>1, ConstructReads DEF RInv, IInv
  <2>2. /\ m_Fresh = <<>> /\ Fresh = <<>> /\ m_Fresh' = <<>> /\ Fresh' = <<>>
        /\ age' = age /\ stops' = stops
    BY <1>1 DEF Construct, deliver, RInv, IInv, Phases
  <2>3. disk \in Seq(Mail) BY DEF RInv, IInv, Queues
  <2>4. OnDisk' = OnDisk \cap (Mail \ unread) BY <2>1, <2>3, SelectElements DEF OnDisk
  <2>5. InMemory = {} /\ InMemory' = {} BY <2>2, Empty DEF InMemory
  <2>6. unread \subseteq Mail BY <2>3 DEF Elements
  <2>7. \A m \in Mail : where[m] # "memory" BY <2>5, WhereLocated DEF Located
  <2>8. where' = [m \in Mail |-> IF m \in unread THEN "nowhere" ELSE where[m]]
    <3>1. PICK d, d1 : d = OnDisk /\ d1 = OnDisk' OBVIOUS
    <3>2. \A m \in Mail : m \in d1 <=> m \in d /\ m \notin unread BY <2>4, <3>1
    <3>3. Located(d1, {}) = [m \in Mail |-> IF m \in unread THEN "nowhere"
                                                            ELSE Located(d, {})[m]]
      BY <3>2 DEF Located
    <3> QED BY <2>5, <3>1, <3>3, WhereLocated
  <2>9. overdue' = overdue BY <2>2 DEF overdue
  <2>10. Q!Reopen(unread) BY <2>1, <2>2, <2>7, <2>8, <2>9 DEF Q!Reopen
  <2> QED BY <2>6, <2>10 DEF Q!Next
<1>2. CASE Crash
  <2>1. /\ disk' = disk /\ m_Fresh' = <<>> /\ Fresh' = <<>> /\ age' = age
        /\ stops' = stops + 1
        /\ outcome' = [m \in Mail |-> outcome[m] \ {"failed"}]
    BY <1>2 DEF Crash, Vanish, NoDelivery, files
  <2>2. OnDisk' = OnDisk /\ InMemory' = {} BY <2>1, Empty DEF OnDisk, InMemory
  <2>3. where' = [m \in Mail |-> IF where[m] = "memory" THEN "nowhere" ELSE where[m]]
    <3>1. PICK d, f : d = OnDisk /\ f = InMemory OBVIOUS
    <3>2. Located(d, {}) = [m \in Mail |-> IF Located(d, f)[m] = "memory" THEN "nowhere"
                                                            ELSE Located(d, f)[m]]
      BY DEF Located
    <3> QED BY <2>2, <3>1, <3>2, WhereLocated
  <2>4. overdue' = overdue BY <2>1 DEF overdue
  <2> QED BY <2>1, <2>3, <2>4 DEF Q!Next, Q!Crash, Q!Forget
<1>3. CASE Quit
  <2>1. where' = where /\ overdue' = overdue
    BY <1>3 DEF Quit, deliver, files, where, overdue
  <2> QED BY <1>3, <2>1 DEF Quit, history, Q!Next, Q!AskToStop
<1>4. CASE QuitJoin
  <2>1. where' = where /\ overdue' = overdue
    BY <1>4 DEF QuitJoin, memory, deliver, files, where, overdue
  <2> QED BY <1>4, <2>1 DEF QuitJoin, history, Q!vars
<1>5. CASE QuitDone
  <2>1. /\ disk' = disk /\ m_Fresh' = <<>> /\ Fresh' = <<>> /\ age' = age /\ stops' = stops
        /\ outcome' = [m \in Mail |-> outcome[m] \ {"failed"}]
        /\ m_Fresh = <<>> /\ thread = "none"
    BY <1>5 DEF QuitDone, Vanish, NoDelivery, files
  <2>2. Fresh = <<>> BY <2>1 DEF RInv, IInv, Phases
  <2>3. OnDisk' = OnDisk /\ InMemory' = {} /\ InMemory = {}
    BY <2>1, <2>2, Empty DEF OnDisk, InMemory
  <2>4. where' = where BY <2>3, SameWhere
  <2>5. \A m \in Mail : where[m] # "memory" BY <2>3, WhereLocated DEF Located
  <2>6. overdue' = overdue BY <2>1 DEF overdue
  <2> QED BY <2>1, <2>4, <2>5, <2>6 DEF Q!Next, Q!Close, Q!Forget
<1> QED BY <1>1, <1>2, <1>3, <1>4, <1>5

LEMMA AddRefines ==
    ASSUME RInv, NEW m \in Mail, Add(m)
    PROVE  Q!Next
<1>1. /\ m \notin added /\ m_Fresh' = Append(m_Fresh, m) /\ Fresh' = Fresh /\ disk' = disk
      /\ age' = age /\ stops' = stops /\ outcome' = outcome
  BY DEF Add, deliver, files
<1>2. m \notin Kept /\ outcome[m] = {} BY <1>1 DEF RInv, IInv, Tracked, Recorded
<1>3. InMemory' = InMemory \cup {m} /\ OnDisk' = OnDisk
  BY <1>1, AppendElements DEF RInv, IInv, Queues, InMemory, OnDisk
<1>4. PICK d, f : d = OnDisk /\ f = InMemory OBVIOUS
<1>5. m \notin d /\ m \notin f BY <1>2, <1>4 DEF Kept, OnDisk, InMemory
<1>6. Located(d, f \cup {m}) = [Located(d, f) EXCEPT ![m] = "memory"] BY <1>5 DEF Located
<1>7. where' = [where EXCEPT ![m] = "memory"] BY <1>3, <1>4, <1>6, WhereLocated
<1>8. where[m] = "nowhere" BY <1>4, <1>5, WhereLocated DEF Located
<1>9. overdue' = overdue BY <1>1 DEF overdue
<1> QED BY <1>1, <1>2, <1>7, <1>8, <1>9 DEF Q!Next, Q!Accept

LEMMA TickRefines ==
    ASSUME RInv, Tick
    PROVE  Q!Next
<1>1. where' = where /\ outcome' = outcome /\ stops' = stops
  BY DEF Tick, files, history, where
<1>2. overdue \subseteq overdue'
  <2>1. age \in [Mail -> 0 .. MaxAge + 1] /\ MaxAge \in Nat
    BY KMailSpoolAssumption DEF RInv, IInv, Records
  <2>2. age' = [m \in Mail |-> IF m \in added /\ age[m] <= MaxAge THEN age[m] + 1
                                                                   ELSE age[m]]
    BY DEF Tick
  <2>3. ASSUME NEW m \in Mail, age[m] > MaxAge PROVE age'[m] > MaxAge BY <2>1, <2>2, <2>3
  <2> QED BY <2>3 DEF overdue
<1>3. overdue' \in SUBSET Mail BY DEF overdue
<1>4. Q!Age(overdue') BY <1>1, <1>2 DEF Q!Age
<1> QED BY <1>3, <1>4 DEF Q!Next

LEMMA AttemptRefines ==
    ASSUME RInv, Attempt
    PROVE  Q!Next
<1>1. /\ thread = "deliver" /\ (Due # <<>> \/ Fresh # <<>>)
      /\ step' \in {"sent", "rejected", "failed", "unreadable"}
      /\ Record(Current, step')
      /\ UNCHANGED <<m_Fresh, Fresh, disk, age, stops>>
  BY DEF Attempt, Delivering, memory, files
<1>2. PICK m \in Mail : m = Current BY <1>1, CurrentMail DEF RInv, IInv
<1>3. where[m] # "nowhere" BY <1>1, <1>2, CurrentKept, KeptSomewhere DEF RInv
<1>4. where' = where /\ overdue' = overdue BY <1>1 DEF where, overdue
<1>5. PICK what \in Q!Outcome : what = step' BY <1>1 DEF Q!Outcome
<1>6. Q!Happens(m, what) BY <1>1, <1>2, <1>3, <1>4, <1>5 DEF Q!Happens, Record
<1> QED BY <1>6 DEF Q!Next

\* a mail that is done with was sent or rejected, hit a fault, or failed and is overaged
LEMMA DropRefines ==
    ASSUME RInv, NEW m \in Mail, m \in Kept, where' = [where EXCEPT ![m] = "nowhere"],
           \/ outcome[m] \cap {"sent", "rejected", "unreadable"} # {}
           \/ "failed" \in outcome[m] /\ age[m] > MaxAge,
           UNCHANGED <<age, stops, outcome>>
    PROVE  Q!Next
<1>1. where[m] # "nowhere" BY KeptSomewhere
<1>2. Q!MayDrop(m, outcome[m]) BY DEF Q!MayDrop, overdue
<1>3. overdue' = overdue BY DEF overdue
<1> QED BY <1>1, <1>2, <1>3 DEF Q!Next, Q!Drop

LEMMA RescheduleCases ==
    ASSUME NEW e \in SpoolEntry, Reschedule(e)
    PROVE  \/ Removed(e.mail) /\ age[e.mail] > MaxAge
           \/ disk' = disk
BY DEF Reschedule, Removed

LEMMA SettleDueRefines ==
    ASSUME RInv, SettleDue
    PROVE  Q!Next \/ UNCHANGED Q!vars
<1>1. /\ thread = "deliver" /\ Due # <<>> /\ step # "next"
      /\ step \in {"sent", "rejected", "unreadable", "failed"}
      /\ UNCHANGED <<m_Fresh, Fresh, age, stops, outcome>>
  BY DEF SettleDue, memory, history
<1>2. PICK e \in SpoolEntry : e = Head(Due) BY <1>1, HeadAndTail DEF RInv, IInv, Queues
<1>3. PICK m \in Mail : m = e.mail BY <1>2 DEF SpoolEntry
<1>4. m = Current BY <1>1, <1>2, <1>3 DEF Current
<1>5. m \in Kept /\ step \in outcome[m]
  BY <1>1, <1>4, CurrentKept DEF RInv, Recorded
<1>6. m \in OnDisk
  <2>1. m \in EntryMails(Due) BY <1>1, <1>2, <1>3, HeadAndTail DEF RInv, IInv, Queues
  <2> QED BY <1>1, <2>1 DEF RInv, IInv, Tracked, Watched, Queued, OnDisk
<1>7. m \notin InMemory
  <2>1. JustSpooled = {} BY <1>1 DEF JustSpooled
  <2> QED BY <1>6, <2>1 DEF RInv, IInv, Tracked, OnDisk, InMemory
<1>8. InMemory' = InMemory BY <1>1 DEF InMemory
<1>9. CASE Removed(m) /\ (step = "failed" => age[m] > MaxAge)
  <2>1. Elements(disk') = Elements(disk) \ {m} BY <1>9, SettledQueues DEF RInv
  <2>2. OnDisk' = OnDisk \ {m} BY <2>1 DEF OnDisk
  <2>3. where' = [where EXCEPT ![m] = "nowhere"] BY <1>7, <1>8, <2>2, MailGone
  <2> QED BY <1>1, <1>5, <1>9, <2>3, DropRefines
<1>10. CASE disk' = disk
  <2>1. where' = where BY <1>8, <1>10, SameWhere DEF OnDisk
  <2> QED BY <1>1, <2>1 DEF Q!vars, overdue
<1> QED BY <1>2, <1>3, <1>4, <1>9, <1>10, RescheduleCases DEF SettleDue, Removed

LEMMA SettleFreshRefines ==
    ASSUME RInv, SettleFresh
    PROVE  Q!Next \/ UNCHANGED Q!vars
<1>1. /\ thread = "deliver" /\ Due = <<>> /\ Fresh # <<>> /\ Fresh' = Tail(Fresh)
      /\ UNCHANGED <<m_Fresh, age, stops, outcome>>
  BY DEF SettleFresh, memory, history
<1>2. PICK m \in Mail : m = Head(Fresh) BY <1>1, HeadAndTail DEF RInv, IInv, Queues
<1>3. /\ Elements(Fresh) = {m} \cup Elements(Fresh') /\ m \notin Elements(Fresh')
      /\ m \notin Elements(m_Fresh)
  BY <1>1, <1>2, HeadAndTail DEF RInv, IInv, Queues, Tracked
<1>4. InMemory' = InMemory \ {m} /\ m \in Kept BY <1>1, <1>3 DEF InMemory, Kept
<1>5. CASE step \in {"sent", "rejected"} /\ UNCHANGED <<disk, Pending>>
  <2>1. JustSpooled = {} BY <1>5 DEF JustSpooled
  <2>2. m \notin OnDisk /\ OnDisk' = OnDisk
    BY <1>3, <1>5, <2>1 DEF RInv, IInv, Tracked, OnDisk
  <2>3. where' = [where EXCEPT ![m] = "nowhere"] BY <1>4, <2>2, MailGone
  <2>4. step \in outcome[m] BY <1>1, <1>2, <1>5 DEF RInv, Recorded, Current
  <2> QED BY <1>1, <1>4, <1>5, <2>3, <2>4, DropRefines
<1>6. CASE step = "spooled" /\ Reschedule(Entry(Head(Fresh), 0, 0))
  <2>1. Entry(m, 0, 0) \in SpoolEntry /\ Entry(m, 0, 0).mail = m BY EntryType
  <2>2. JustSpooled = {m} BY <1>2, <1>6 DEF JustSpooled
  <2>3. m \in OnDisk BY <1>1, <2>2 DEF RInv, IInv, Tracked, OnDisk
  <2>4. CASE Removed(m) /\ age[m] > MaxAge
    <3>1. Elements(disk') = Elements(disk) \ {m} BY <2>4, SettledQueues DEF RInv
    <3>2. OnDisk' = OnDisk \ {m} BY <3>1 DEF OnDisk
    <3>3. where' = [where EXCEPT ![m] = "nowhere"] BY <1>4, <3>2, MailGone
    <3>4. "failed" \in outcome[m] BY <1>1, <1>2, <1>6 DEF RInv, Recorded
    <3> QED BY <1>1, <1>4, <2>4, <3>3, <3>4, DropRefines
  <2>5. CASE disk' = disk
    <3>1. PICK d, f : d = OnDisk /\ f = InMemory OBVIOUS
    <3>2. m \in d BY <2>3, <3>1
    <3>3. Located(d, f \ {m}) = Located(d, f) BY <3>2 DEF Located
    <3>4. where' = where BY <1>4, <2>5, <3>1, <3>3, WhereLocated DEF OnDisk
    <3> QED BY <1>1, <3>4 DEF Q!vars, overdue
  <2> QED BY <1>2, <1>6, <2>1, <2>4, <2>5, RescheduleCases
<1> QED BY <1>5, <1>6 DEF SettleFresh

LEMMA SpoolRefines ==
    ASSUME RInv, SpoolWrite \/ SpoolRename
    PROVE  Q!Next \/ UNCHANGED Q!vars
<1>1. Spoolable /\ SpoolFrame /\ step \notin {"sent", "spooled"}
  BY DEF SpoolWrite, SpoolRename, Spoolable, SpoolFrame, RInv, IInv, Phases
<1>2. PICK m \in Mail : m = Spooling BY <1>1, PopSpoolingMail DEF RInv
<1>3. m \in InMemory BY <1>1, <1>2, PopSpoolingMail DEF RInv, InMemory
<1>4. JustSpooled = {} BY <1>1 DEF JustSpooled
<1>5. m \notin OnDisk BY <1>3, <1>4 DEF RInv, IInv, Tracked, InMemory, OnDisk
<1>6. where[m] = "memory" BY <1>3, <1>5, WhereLocated DEF Located
<1>7. stops' = stops /\ overdue' = overdue BY <1>1 DEF SpoolFrame, overdue
<1>8. CASE SpoolFails
  <2>1. PopSpooling /\ disk' = disk /\ Record(m, "unwritable") BY <1>2, <1>8 DEF SpoolFails
  <2>2. InMemory' = InMemory \ {m}
    BY <1>1, <1>2, <2>1, PopSpoolingMail DEF RInv, InMemory
  <2>3. OnDisk' = OnDisk BY <2>1 DEF OnDisk
  <2>4. where' = [where EXCEPT ![m] = "nowhere"] BY <1>5, <2>2, <2>3, MailGone
  <2>5. Q!Spoil(m, "unwritable") BY <1>6, <1>7, <2>1, <2>4 DEF Q!Spoil, Record
  <2> QED BY <2>5 DEF Q!Next
<1>9. CASE SpoolWrite /\ ~SpoolFails
  <2>1. UNCHANGED <<m_Fresh, Fresh, disk, outcome>> BY <1>9 DEF SpoolWrite
  <2>2. where' = where BY <2>1 DEF where
  <2> QED BY <1>7, <2>1, <2>2 DEF Q!vars
<1>10. CASE SpoolRename /\ ~SpoolFails
  <2>1. /\ disk' = Append(disk, m) /\ outcome' = outcome
        /\ thread = "deliver" => UNCHANGED <<m_Fresh, Fresh>>
        /\ thread # "deliver" => PopSpooling
    BY <1>2, <1>10 DEF SpoolRename
  <2>2. OnDisk' = OnDisk \cup {m}
    BY <2>1, AppendElements DEF RInv, IInv, Queues, OnDisk
  <2>3. InMemory' \in {InMemory, InMemory \ {m}}
    <3>1. CASE thread = "deliver" BY <2>1, <3>1 DEF InMemory
    <3>2. CASE thread # "deliver"
      BY <1>1, <1>2, <2>1, <3>2, PopSpoolingMail DEF RInv, InMemory
    <3> QED BY <3>1, <3>2
  <2>4. PICK d, f, f1 : d = OnDisk /\ f = InMemory /\ f1 = InMemory' OBVIOUS
  <2>5. \A k \in Mail : k # m => (k \in f <=> k \in f1) BY <2>3, <2>4
  <2>6. Located(d \cup {m}, f1) = [Located(d, f) EXCEPT ![m] = "disk"] BY <2>5 DEF Located
  <2>7. where' = [where EXCEPT ![m] = "disk"] BY <2>2, <2>4, <2>6, WhereLocated
  <2>8. Q!Store(m) BY <1>6, <1>7, <2>1, <2>7 DEF Q!Store
  <2> QED BY <2>8 DEF Q!Next
<1> QED BY <1>8, <1>9, <1>10

LEMMA QueueStutters ==
    ASSUME RInv, Lock \/ Wake \/ Round \/ Merge
    PROVE  UNCHANGED Q!vars
<1>1. UNCHANGED <<outcome, stops, age, disk>> BY DEF Lock, Wake, Round, Merge, files, history
<1>2. OnDisk' = OnDisk BY <1>1 DEF OnDisk
<1>3. InMemory' = InMemory
  <2>1. CASE UNCHANGED <<m_Fresh, Fresh>> BY <2>1 DEF InMemory
  <2>2. CASE Merge BY <2>2 DEF Merge, NoDelivery, InMemory
  <2>3. CASE Round /\ Fresh' = m_Fresh /\ m_Fresh' = <<>>
    <3>1. Fresh = <<>> BY <2>3 DEF Round, RInv, IInv, Phases
    <3> QED BY <2>3, <3>1, Empty DEF InMemory
  <2> QED BY <2>1, <2>2, <2>3 DEF Lock, Wake, Round, memory, deliver
<1>4. where' = where BY <1>2, <1>3, SameWhere
<1> QED BY <1>1, <1>4 DEF Q!vars, overdue

\* An accepted mail is in memory or in a file until the relay took or rejected it, it is
\* overaged and an attempt of this run failed, or a disk fault hit it.
THEOREM MailSpoolImplementsMailQueue ==
    ASSUME "remove" \notin DiskFaults
    PROVE  Spec => ImplementsMailQueue
<1>1. Init => Q!Init
  <2> SUFFICES ASSUME Init PROVE Q!Init OBVIOUS
  <2>1. where = [m \in Mail |-> "nowhere"] BY Empty DEF Init, where
  <2>2. overdue = {} BY KMailSpoolAssumption DEF Init, overdue
  <2> QED BY <2>1, <2>2 DEF Init, Q!Init
<1>2. RInv /\ [Next]_vars => [Q!Next]_Q!vars
  <2> SUFFICES ASSUME RInv, [Next]_vars PROVE Q!Next \/ UNCHANGED Q!vars OBVIOUS
  <2>1. CASE UNCHANGED vars
    <3>1. UNCHANGED <<m_Fresh, Fresh, disk, age, outcome, stops>>
      BY <2>1 DEF vars, memory, deliver, files, history
    <3> QED BY <3>1 DEF Q!vars, where, overdue
  <2> QED BY <2>1, EndsRefine, AddRefines, TickRefines, AttemptRefines, SettleDueRefines,
             SettleFreshRefines, SpoolRefines, QueueStutters DEF Next
<1>3. Init => RInv BY InitIInv, InitRecorded DEF RInv
<1>4. RInv /\ [Next]_vars => RInv' BY NextIInv, NextRecorded DEF RInv
<1> QED BY <1>1, <1>2, <1>3, <1>4, PTL DEF Spec, ImplementsMailQueue, Q!Spec

===============================================================================
