--------------------------- MODULE ResPoolProofs ---------------------------
(* The resource pools for every number of threads, CPUs, control blocks    *)
(* and pools, every block size and every sequence of calls: the free lists *)
(* of resources and of pools are exact, an id leads to its resource, and   *)
(* no pool gets two owners, provided that creators of pools exclude each   *)
(* other (CreatorsExclude).                                                *)
EXTENDS ResPool, QueueProofs, FiniteSetTheorems

-----------------------------------------------------------------------------
(* The bit fields of a word. *)

LEMMA Powers == 2^10 = 1024 /\ 2^14 = 16384 /\ 2^16 = 65536 /\ 2^24 = 256 * 65536
  OBVIOUS

(* The index in a free word, and the word of a resource in use. *)
IndexOf(word) == word \div 2^16
IdWord(index, id) == index * 2^14 + id
PoolWord(type, p) == type * 2^10 + p

(* A free word holds an index and the next free index. *)
LEMMA FreeWordParts ==
  ASSUME NEW i \in Nat, i < 1024, NEW x \in Nat, x < 65536
  PROVE  FreeWord(i, x) \in Nat /\ IndexOf(FreeWord(i, x)) = i /\ NextId(FreeWord(i, x)) = x
<1>1. /\ i * 65536 + x \in Nat /\ (i * 65536 + x) \div 65536 = i /\ (i * 65536 + x) % 65536 = x
  OBVIOUS
<1> QED BY <1>1, Powers DEF FreeWord, NextId, IndexOf

(* acoral_get_res makes the id of a free word's index. *)
LEMMA ResIdOfFree ==
  ASSUME NEW w \in Nat, NEW i \in Nat, i < 1024, IndexOf(w) = i, NEW id \in Nat
  PROVE  ResId(w, id) = IdWord(i, id)
<1>1. i % 1024 = i
  OBVIOUS
<1> QED BY <1>1, Powers DEF ResId, IdWord, IndexOf

(* What acoral_get_pool_by_id, acoral_get_res_by_id and the type check     *)
(* take from an id, and what acoral_release_res takes for a free index,    *)
(* whether or not acoral_sched_rdyqueue_add has set the CPU bit.           *)
(* What sixteen bits hold. *)
Short(x) == x \in Nat /\ x < 65536

IsId(word, index, id) == word = IdWord(index, id) \/ word = IdWord(index, id) + 2^24
LEMMA IdParts ==
  ASSUME NEW i \in Nat, i < 1024, NEW type \in Nat, type < 16, NEW p \in Nat, p < 1024,
         NEW w, IsId(w, i, PoolWord(type, p))
  PROVE  /\ w \in Nat /\ PoolIndex(w) = p /\ ResIndex(w) = i /\ ResType(w) = type
         /\ Short(IndexOf(w))
<1>1. PICK j \in Nat : j < 2048 /\ w = j * 16384 + (type * 1024 + p) /\ j % 1024 = i
  <2>1. IdWord(i, PoolWord(type, p)) = i * 16384 + (type * 1024 + p)
    BY Powers DEF IdWord, PoolWord
  <2>2. CASE w = IdWord(i, PoolWord(type, p))
    <3>1. i < 2048 /\ i % 1024 = i
      OBVIOUS
    <3> QED BY <2>1, <2>2, <3>1
  <2>3. CASE w = IdWord(i, PoolWord(type, p)) + 2^24
    <3>1. PICK j \in Nat : j = i + 1024
      OBVIOUS
    <3>2. j < 2048 /\ j % 1024 = i
      BY <3>1
    <3>3. 2^24 = 1024 * 16384
      OBVIOUS
    <3>4. w = j * 16384 + (type * 1024 + p)
      BY <2>1, <2>3, <3>1, <3>3
    <3> QED BY <3>2, <3>4
  <2> QED BY <2>2, <2>3 DEF IsId
<1>2. w \in Nat /\ w % 1024 = p
  BY <1>1
<1>3. w \div 16384 = j
  BY <1>1
<1>4. w \div 1024 = j * 16 + type
  BY <1>1
<1>5. (j * 16 + type) % 16 = type
  BY <1>1
<1>6. w \div 65536 \in Nat /\ w \div 65536 < 65536
  <2>1. w < 65536 * 65536
    BY <1>1
  <2>2. w \in Nat
    BY <1>2
  <2> QED BY <2>1, <2>2
<1>7. PoolIndex(w) = p
  BY <1>2, Powers DEF PoolIndex
<1>8. ResIndex(w) = i
  BY <1>1, <1>3, Powers DEF ResIndex
<1>9. ResType(w) = type
  <2>1. 2^4 = 16
    OBVIOUS
  <2> QED BY <1>4, <1>5, <2>1, Powers DEF ResType
<1>10. Short(IndexOf(w))
  BY <1>6, Powers DEF IndexOf, Short
<1>11. w \in Nat
  BY <1>2
<1> QED BY <1>7, <1>8, <1>9, <1>10, <1>11

(* The bit is set and cleared in the id alone. *)
LEMMA MarkedId ==
  ASSUME NEW i \in Nat, i < 1024, NEW type \in Nat, type < 16, NEW p \in Nat, p < 1024,
         NEW w, IsId(w, i, PoolWord(type, p)), NEW bit \in {0, 1}
  PROVE  Marked(w, bit) \in Nat /\ IsId(Marked(w, bit), i, PoolWord(type, p))
<1> DEFINE id == i * 16384 + (type * 1024 + p)
<1>1. IdWord(i, PoolWord(type, p)) = id
  BY Powers DEF IdWord, PoolWord
<1>2. id \in Nat /\ id < (256 * 65536)
  OBVIOUS
<1> HIDE DEF id
<1>3. w = id \/ w = id + (256 * 65536)
  BY <1>1, Powers DEF IsId
<1>4. w % (256 * 65536) = id
  BY <1>2, <1>3
<1>5. Marked(w, bit) = id + bit * (256 * 65536)
  BY <1>4, Powers DEF Marked
<1>6. Marked(w, bit) = id \/ Marked(w, bit) = id + (256 * 65536)
  <2>1. CASE bit = 0
    BY <1>2, <1>5, <2>1
  <2>2. CASE bit = 1
    BY <1>2, <1>5, <2>2
  <2> QED BY <2>1, <2>2
<1> QED BY <1>1, <1>2, <1>6, Powers DEF IsId

-----------------------------------------------------------------------------
(* The free list of one pool. *)

(* The free list of a pool as its sequence of indices *)
ChainOk(num, first, n, words, held, L) ==
  /\ L \in [1 .. n -> 0 .. num - 1]
  /\ \A i, j \in 1 .. n : L[i] = L[j] => i = j
  /\ \A r \in 0 .. num - 1 : r \in held <=> \A i \in 1 .. n : L[i] # r
  /\ n > 0 => first = L[1]
  /\ \A i \in 1 .. n - 1 : NextId(words[L[i]]) = L[i + 1]

WordsOk(num, words, held, id) ==
  /\ words \in [0 .. num - 1 -> Nat]
  /\ \A r \in 0 .. num - 1 : r \in held => IsId(words[r], r, id)
  /\ \A r \in 0 .. num - 1 : r \notin held => IndexOf(words[r]) = r

(* Both: first is the head of a list of n resources.  If n is 0 it is      *)
(* whatever the last link of the list was.                                 *)
ListOk(num, first, n, words, held, id) ==
  /\ Short(first)
  /\ WordsOk(num, words, held, id)
  /\ \E L \in [1 .. n -> 0 .. num - 1] : ChainOk(num, first, n, words, held, L)

(* The words after the first resource is taken, and after r is put back    *)
(* when the word read from the old first one was old.                      *)
TakenWords(words, first, id) == [words EXCEPT ![first] = ResId(words[first], id)]
PutWords(words, r, old) == [words EXCEPT ![r] = Released(r, old)]

(* The block of resources of a pool. *)
Block(p) == pools[p].base_adr.n

(* acoral_pool_res_init chains all resources. *)
LEMMA NewList ==
  ASSUME NEW num \in Nat, num > 0, num <= 1024, NEW id
  PROVE  /\ WordsOk(num, PoolResInit(num), {}, id)
         /\ \E L \in [1 .. num -> 0 .. num - 1] : ChainOk(num, 0, num, PoolResInit(num), {}, L)
<1> DEFINE words == PoolResInit(num)
           L == [i \in 1 .. num |-> i - 1]
<1>1. ASSUME NEW r \in 0 .. num - 1
      PROVE  /\ words[r] \in Nat /\ IndexOf(words[r]) = r
             /\ NextId(words[r]) = IF r = num - 1 THEN 0 ELSE r + 1
  <2> DEFINE x == IF r = num - 1 THEN 0 ELSE r + 1
  <2>1. r \in Nat /\ r < 1024 /\ x \in Nat /\ x < 65536
    OBVIOUS
  <2>2. words[r] = FreeWord(r, x)
    BY DEF PoolResInit
  <2> HIDE DEF x, words
  <2>3. words[r] \in Nat /\ IndexOf(words[r]) = r /\ NextId(words[r]) = x
    BY <2>1, <2>2, FreeWordParts
  <2> QED BY <2>3 DEF x
<1>2. words = [r \in 0 .. num - 1 |-> words[r]]
  BY DEF PoolResInit
<1> HIDE DEF words
<1>3. words \in [0 .. num - 1 -> Nat]
  BY <1>1, <1>2
<1>5. WordsOk(num, words, {}, id)
  BY <1>1, <1>3 DEF WordsOk
<1>6. L \in [1 .. num -> 0 .. num - 1] /\ \A i \in 1 .. num : L[i] = i - 1
  OBVIOUS
<1> HIDE DEF L
<1>7. \A i, j \in 1 .. num : L[i] = L[j] => i = j
  BY <1>6
<1>8. ASSUME NEW r \in 0 .. num - 1 PROVE \E i \in 1 .. num : L[i] = r
  <2>1. PICK i \in 1 .. num : i - 1 = r
    OBVIOUS
  <2> QED BY <1>6, <2>1
<1>9. L[1] = 0
  BY <1>6
<1>10. ASSUME NEW i \in 1 .. num - 1 PROVE NextId(words[L[i]]) = L[i + 1]
  <2>1. i \in 1 .. num /\ i + 1 \in 1 .. num /\ i - 1 \in 0 .. num - 1 /\ i - 1 # num - 1 /\ i - 1 + 1 = i + 1 - 1
    OBVIOUS
  <2>2. L[i] = i - 1 /\ L[i + 1] = i - 1 + 1
    BY <1>6, <2>1
  <2> QED BY <1>1, <2>1, <2>2
<1>11. ChainOk(num, 0, num, words, {}, L)
  BY <1>6, <1>7, <1>8, <1>9, <1>10 DEF ChainOk
<1> QED BY <1>5, <1>6, <1>11 DEF words

(* acoral_get_res takes the first resource off the list. *)
LEMMA TakeFirst ==
  ASSUME NEW num \in Nat, num > 0, num <= 1024, NEW first \in 0 .. num - 1, NEW n \in Nat, n > 0,
         NEW words, NEW held, NEW id \in Nat, WordsOk(num, words, held, id),
         NEW L, ChainOk(num, first, n, words, held, L)
  PROVE  /\ first \notin held /\ words[first] \in Nat /\ ResId(words[first], id) \in Nat
         /\ ListOk(num, NextId(words[first]), n - 1, TakenWords(words, first, id), held \cup {first}, id)
<1> DEFINE new == TakenWords(words, first, id)
           next == NextId(words[first])
           now == held \cup {first}
           M == [i \in 1 .. n - 1 |-> L[i + 1]]
<1>1. /\ L \in [1 .. n -> 0 .. num - 1] /\ \A i, j \in 1 .. n : L[i] = L[j] => i = j
      /\ \A r \in 0 .. num - 1 : r \in held <=> \A i \in 1 .. n : L[i] # r
      /\ first = L[1]
      /\ \A i \in 1 .. n - 1 : NextId(words[L[i]]) = L[i + 1]
  BY DEF ChainOk
<1>2. /\ words \in [0 .. num - 1 -> Nat]
      /\ \A r \in 0 .. num - 1 : r \in held => IsId(words[r], r, id)
      /\ \A r \in 0 .. num - 1 : r \notin held => IndexOf(words[r]) = r
  BY DEF WordsOk
<1>3. 1 \in 1 .. n
  OBVIOUS
<1>4. first \notin held
  BY <1>1, <1>3
<1>5. Short(next)
  <2>1. words[first] \in Nat
    BY <1>2
  <2> QED BY <2>1, Powers DEF NextId, Short
<1>6. ResId(words[first], id) = IdWord(first, id)
  <2>1. words[first] \in Nat /\ first \in Nat /\ first < 1024 /\ IndexOf(words[first]) = first
    BY <1>2, <1>3, <1>4
  <2> QED BY <2>1, ResIdOfFree
<1>7. IdWord(first, id) \in Nat
  BY Powers, <1>3 DEF IdWord
<1>8. /\ new \in [0 .. num - 1 -> Nat]
      /\ \A r \in 0 .. num - 1 : new[r] = IF r = first THEN IdWord(first, id) ELSE words[r]
  BY <1>2, <1>6, <1>7 DEF TakenWords
<1> HIDE DEF new, next
<1>9. WordsOk(num, new, now, id)
  <2>1. \A r \in 0 .. num - 1 : r \in now => IsId(new[r], r, id)
    BY <1>2, <1>8 DEF IsId
  <2>2. \A r \in 0 .. num - 1 : r \notin now => new[r] = words[r] /\ r \notin held
    BY <1>8
  <2> HIDE DEF now
  <2> QED BY <1>2, <1>8, <2>1, <2>2 DEF WordsOk
<1>10. \A i \in 1 .. n - 1 : i \in 1 .. n /\ i + 1 \in 1 .. n /\ i + 1 # 1
  OBVIOUS
<1>11. M \in [1 .. n - 1 -> 0 .. num - 1] /\ \A i \in 1 .. n - 1 : M[i] = L[i + 1]
  BY <1>1, <1>10
<1> HIDE DEF M
<1>12. ASSUME NEW i \in 1 .. n - 1, NEW j \in 1 .. n - 1, M[i] = M[j] PROVE i = j
  <2>1. L[i + 1] = L[j + 1] /\ i + 1 \in 1 .. n /\ j + 1 \in 1 .. n
    BY <1>10, <1>11, <1>12
  <2>2. i + 1 = j + 1
    BY <1>1, <2>1
  <2> QED BY <2>2
<1>13. ASSUME NEW r \in 0 .. num - 1 PROVE r \in now <=> \A i \in 1 .. n - 1 : M[i] # r
  <2>1. ASSUME r \in now, NEW i \in 1 .. n - 1 PROVE M[i] # r
    <3>1. i + 1 \in 1 .. n /\ i + 1 # 1 /\ M[i] = L[i + 1]
      BY <1>10, <1>11
    <3>2. L[i + 1] # first
      BY <1>1, <1>3, <3>1
    <3> QED BY <1>1, <2>1, <3>1, <3>2
  <2>2. ASSUME r \notin now PROVE \E i \in 1 .. n - 1 : M[i] = r
    <3>1. PICK j \in 1 .. n : L[j] = r
      BY <1>1, <2>2
    <3>2. j # 1
      BY <1>1, <2>2, <3>1
    <3>3. j - 1 \in 1 .. n - 1 /\ j - 1 + 1 = j
      BY <3>2
    <3> QED BY <1>11, <3>1, <3>3
  <2> QED BY <2>1, <2>2
<1>14. n - 1 > 0 => next = M[1]
  <2> SUFFICES ASSUME n - 1 > 0 PROVE next = M[1]
    OBVIOUS
  <2>1. 1 \in 1 .. n - 1
    OBVIOUS
  <2>2. M[1] = L[1 + 1] /\ NextId(words[L[1]]) = L[1 + 1]
    BY <1>1, <1>11, <2>1
  <2> QED BY <1>1, <2>2 DEF next
<1>15. ASSUME NEW i \in 1 .. n - 1 - 1 PROVE NextId(new[M[i]]) = M[i + 1]
  <2>1. i \in 1 .. n - 1 /\ i + 1 \in 1 .. n - 1
    OBVIOUS
  <2>2. M[i] = L[i + 1] /\ M[i + 1] = L[i + 1 + 1] /\ L[i + 1] \in 0 .. num - 1
    BY <1>1, <1>10, <1>11, <2>1
  <2>3. L[i + 1] # first
    BY <1>1, <1>3, <1>10, <2>1
  <2>4. new[M[i]] = words[L[i + 1]]
    BY <1>8, <2>2, <2>3
  <2> QED BY <1>1, <2>1, <2>2, <2>4
<1>16. ChainOk(num, next, n - 1, new, now, M)
  BY <1>11, <1>12, <1>13, <1>14, <1>15 DEF ChainOk
<1>17. ListOk(num, next, n - 1, new, now, id)
  BY <1>5, <1>9, <1>11, <1>16 DEF ListOk
<1>18. words[first] \in Nat /\ ResId(words[first], id) \in Nat
  BY <1>2, <1>6, <1>7
<1> QED BY <1>4, <1>17, <1>18 DEF new, next

(* Who is first in the list is not in use. *)
LEMMA ChainFirst ==
  ASSUME NEW num \in Nat, NEW first, NEW n \in Nat, n > 0, NEW words, NEW held,
         NEW L, ChainOk(num, first, n, words, held, L)
  PROVE  first \in 0 .. num - 1 /\ first \notin held
<1>1. /\ L \in [1 .. n -> 0 .. num - 1]
      /\ \A x \in 0 .. num - 1 : x \in held <=> \A i \in 1 .. n : L[i] # x
      /\ first = L[1]
  BY DEF ChainOk
<1>2. 1 \in 1 .. n
  OBVIOUS
<1> QED BY <1>1, <1>2

(* A resource in front of the list. *)
HasChain(num, first, n, words, held) ==
  \E M \in [1 .. n -> 0 .. num - 1] : ChainOk(num, first, n, words, held, M)
LEMMA ChainPut ==
  ASSUME NEW num \in Nat, NEW first, NEW n \in Nat, NEW words, NEW held,
         NEW L, ChainOk(num, first, n, words, held, L), NEW r \in 0 .. num - 1, r \in held, NEW new,
         \A x \in 0 .. num - 1 : x # r => new[x] = words[x], n > 0 => NextId(new[r]) = first
  PROVE  HasChain(num, r, n + 1, new, held \ {r})
<1> DEFINE now == held \ {r}
           M == [i \in 1 .. n + 1 |-> IF i = 1 THEN r ELSE L[i - 1]]
<1>1. /\ L \in [1 .. n -> 0 .. num - 1] /\ \A i, j \in 1 .. n : L[i] = L[j] => i = j
      /\ \A x \in 0 .. num - 1 : x \in held <=> \A i \in 1 .. n : L[i] # x
      /\ n > 0 => first = L[1]
      /\ \A i \in 1 .. n - 1 : NextId(words[L[i]]) = L[i + 1]
  BY DEF ChainOk
<1>2. \A i \in 1 .. n + 1 : i # 1 => i - 1 \in 1 .. n
  OBVIOUS
<1>3. /\ M \in [1 .. n + 1 -> 0 .. num - 1]
       /\ \A i \in 1 .. n + 1 : M[i] = IF i = 1 THEN r ELSE L[i - 1]
  BY <1>1, <1>2
<1> HIDE DEF M
<1>4. \A i \in 1 .. n : L[i] # r
  BY <1>1
<1>5. ASSUME NEW i \in 1 .. n + 1, NEW j \in 1 .. n + 1, M[i] = M[j] PROVE i = j
  <2>0. ASSUME NEW m \in 1 .. n + 1, m # 1 PROVE M[m] # r
    <3>1. m - 1 \in 1 .. n /\ M[m] = L[m - 1]
      BY <1>2, <1>3, <2>0
    <3> QED BY <1>4, <3>1
  <2>1. CASE i = 1 \/ j = 1
    BY <1>3, <1>5, <2>0, <2>1
  <2>2. CASE i # 1 /\ j # 1
    <3>1. M[i] = L[i - 1] /\ M[j] = L[j - 1]
      BY <1>3, <2>2
    <3>3. i - 1 \in 1 .. n /\ j - 1 \in 1 .. n
      BY <1>2, <2>2
    <3>2. PICK a \in 1 .. n : a = i - 1
      BY <3>3
    <3>4. PICK b \in 1 .. n : b = j - 1
      BY <3>3
    <3>5. M[i] = L[a] /\ M[j] = L[b]
      BY <3>1, <3>2, <3>4
    <3>6. L[a] = L[b]
      BY <1>5, <3>5
    <3>7. a = b
      BY <1>1, <3>6
    <3> QED BY <3>2, <3>4, <3>7
  <2> QED BY <2>1, <2>2
<1>6. ASSUME NEW x \in 0 .. num - 1 PROVE x \in now <=> \A i \in 1 .. n + 1 : M[i] # x
  <2>1. ASSUME x \in now, NEW i \in 1 .. n + 1 PROVE M[i] # x
    BY <1>1, <1>2, <1>3, <2>1
  <2>2. ASSUME x \notin now PROVE \E i \in 1 .. n + 1 : M[i] = x
    <3>1. CASE x = r
      <4>1. 1 \in 1 .. n + 1
        OBVIOUS
      <4> QED BY <1>3, <3>1, <4>1
    <3>2. CASE x # r
      <4>1. PICK j \in 1 .. n : L[j] = x
        BY <1>1, <2>2, <3>2
      <4>2. PICK i \in 1 .. n + 1 : i # 1 /\ i - 1 = j
        OBVIOUS
      <4>3. M[i] = L[i - 1]
        BY <1>3, <4>2
      <4> QED BY <4>1, <4>2, <4>3
    <3> QED BY <3>1, <3>2
  <2> QED BY <2>1, <2>2
<1>7. r = M[1]
  BY <1>3
<1>8. ASSUME NEW i \in 1 .. n + 1 - 1 PROVE NextId(new[M[i]]) = M[i + 1]
  <2>1. i \in 1 .. n /\ i \in 1 .. n + 1 /\ i + 1 \in 1 .. n + 1 /\ i + 1 # 1 /\ i + 1 - 1 = i
    OBVIOUS
  <2>2. M[i + 1] = L[i]
    BY <1>3, <2>1
  <2>3. CASE i = 1
    <3>1. M[i] = r /\ L[i] = first /\ n > 0
      BY <1>1, <1>7, <2>1, <2>3
    <3>2. NextId(new[r]) = first
      BY <3>1
    <3> QED BY <2>2, <3>1, <3>2
  <2>4. CASE i # 1
    <3>1. PICK j \in 1 .. n - 1 : j = i - 1 /\ j + 1 = i
      BY <2>1, <2>4
    <3>2. M[i] = L[j] /\ L[j] \in 0 .. num - 1 /\ L[j] # r
      <4>1. M[i] = L[i - 1] /\ j \in 1 .. n
        BY <1>3, <2>1, <2>4
      <4> QED BY <1>1, <1>4, <3>1, <4>1
    <3>3. new[M[i]] = words[L[j]]
      BY <3>2
    <3>4. NextId(words[L[j]]) = L[j + 1]
      BY <1>1, <3>1
    <3> QED BY <2>2, <3>1, <3>3, <3>4
  <2> QED BY <2>3, <2>4
<1>9. ChainOk(num, r, n + 1, new, now, M)
  BY <1>3, <1>5, <1>6, <1>7, <1>8 DEF ChainOk
<1> QED BY <1>3, <1>9 DEF HasChain

(* acoral_release_res puts a resource in front, linked to the index that   *)
(* the upper half of the word read from the old first one holds.           *)
LEMMA PutFirst ==
  ASSUME NEW num \in Nat, num > 0, num <= 1024, NEW first, NEW n \in Nat,
         NEW words, NEW held, NEW id, WordsOk(num, words, held, id),
         NEW L, ChainOk(num, first, n, words, held, L),
         NEW r \in 0 .. num - 1, r \in held,
         NEW old, Short(IndexOf(old)), n > 0 => IndexOf(old) = first
  PROVE  ListOk(num, r, n + 1, PutWords(words, r, old), held \ {r}, id)
<1> DEFINE new == PutWords(words, r, old)
           now == held \ {r}
<1>2. /\ words \in [0 .. num - 1 -> Nat]
      /\ \A x \in 0 .. num - 1 : x \in held => IsId(words[x], x, id)
      /\ \A x \in 0 .. num - 1 : x \notin held => IndexOf(words[x]) = x
  BY DEF WordsOk
<1>3. r \in Nat /\ r < 1024 /\ Short(r)
  BY DEF Short
<1>4. IndexOf(FreeWord(r, 0)) = r
  BY <1>3, FreeWordParts
<1>6. IndexOf(old) \in Nat /\ IndexOf(old) < 65536
  BY DEF Short
<1>7. Released(r, old) = FreeWord(r, IndexOf(old))
  BY <1>4 DEF Released, SetNext, FreeWord, IndexOf
<1>8. Released(r, old) \in Nat /\ IndexOf(Released(r, old)) = r /\ NextId(Released(r, old)) = IndexOf(old)
  BY <1>3, <1>6, <1>7, FreeWordParts
<1>9. /\ new \in [0 .. num - 1 -> Nat]
      /\ \A x \in 0 .. num - 1 : new[x] = IF x = r THEN Released(r, old) ELSE words[x]
  <2>1. new = [words EXCEPT ![r] = Released(r, old)]
    BY DEF PutWords
  <2> HIDE DEF new
  <2> QED BY <1>2, <1>8, <2>1
<1> HIDE DEF new
<1>10. WordsOk(num, new, now, id)
  <2>1. \A x \in 0 .. num - 1 : x \in now => IsId(new[x], x, id)
    BY <1>2, <1>9
  <2>2. ASSUME NEW x \in 0 .. num - 1, x \notin now
        PROVE  IndexOf(new[x]) = x
    <3>1. CASE x = r
      BY <1>8, <1>9, <3>1
    <3>2. CASE x # r
      BY <1>2, <1>9, <2>2, <3>2
    <3> QED BY <3>1, <3>2
  <2> HIDE DEF now
  <2> QED BY <1>9, <2>1, <2>2 DEF WordsOk
<1>11. \A x \in 0 .. num - 1 : x # r => new[x] = words[x]
  BY <1>9
<1>12. n > 0 => NextId(new[r]) = first
  BY <1>8, <1>9
<1>13. HasChain(num, r, n + 1, new, now)
  BY <1>11, <1>12, ChainPut
<1>14. ListOk(num, r, n + 1, new, now, id)
  BY <1>3, <1>10, <1>13 DEF ListOk, HasChain
<1> QED BY <1>14 DEF new

(* What acoral_release_res can read there.  If a resource is free it is    *)
(* the first one's index; if none is, anything of sixteen bits.            *)
OldIn(num, first, words, r) ==
  IF first = r THEN {FreeWord(r, 0)} ELSE IF first < num THEN {words[first]} ELSE Rubbish
LEMMA OldLinks ==
  ASSUME NEW num \in Nat, num > 0, num <= 1024, NEW first, NEW n \in Nat,
         NEW words, NEW held, NEW type \in Nat, type < 16, NEW p \in Nat, p < 1024,
         ListOk(num, first, n, words, held, PoolWord(type, p)), NEW r \in 0 .. num - 1, r \in held,
         NEW old \in OldIn(num, first, words, r)
  PROVE  Short(IndexOf(old)) /\ (n > 0 => IndexOf(old) = first)
<1>1. Short(first) /\ WordsOk(num, words, held, PoolWord(type, p))
  BY DEF ListOk
<1>2. PICK L : ChainOk(num, first, n, words, held, L)
  BY DEF ListOk
<1>3. n > 0 => first \in 0 .. num - 1 /\ first \notin held
  BY <1>2, ChainFirst
<1>4. CASE first = r
  <2>1. ~(n > 0) /\ old = FreeWord(r, 0) /\ r \in Nat /\ r < 1024
    BY <1>3, <1>4 DEF OldIn
  <2>2. IndexOf(old) = r
    BY <2>1, FreeWordParts
  <2> QED BY <2>1, <2>2 DEF Short
<1>5. CASE first # r /\ first < num
  <2>1. old = words[first] /\ first \in 0 .. num - 1 /\ first \in Nat /\ first < 1024
    BY <1>1, <1>5 DEF OldIn, Short
  <2>2. CASE first \in held
    <3>1. IsId(old, first, PoolWord(type, p))
      BY <1>1, <2>1, <2>2 DEF WordsOk
    <3>2. Short(IndexOf(old))
      BY <2>1, <3>1, IdParts
    <3> QED BY <1>3, <2>2, <3>2
  <2>3. CASE first \notin held
    <3>1. IndexOf(old) = first
      BY <1>1, <2>1, <2>3 DEF WordsOk
    <3> QED BY <1>1, <3>1
  <2> QED BY <2>2, <2>3
<1>6. CASE first # r /\ ~(first < num)
  <2>1. old \in Rubbish /\ ~(n > 0)
    BY <1>1, <1>3, <1>6 DEF OldIn, Short
  <2>2. old \in Nat /\ old \div 65536 < 65536
    BY <2>1, RubbishAssumption, Powers
  <2>3. Short(old \div 65536)
    BY <2>2 DEF Short
  <2> QED BY <2>1, <2>3, Powers DEF IndexOf
<1> QED BY <1>4, <1>5, <1>6

(* A free list and the resources in use make up the pool. *)
IsRest(L, n, num, held) == Members(L) = (0 .. num - 1) \ held /\ n + Cardinality(held) = num
LEMMA ListCount ==
  ASSUME NEW num \in Nat, num > 0, NEW first, NEW n \in Nat, NEW words,
         NEW held, held \subseteq 0 .. num - 1, NEW L, ChainOk(num, first, n, words, held, L)
  PROVE  IsRest(L, n, num, held)
<1>1. /\ L \in [1 .. n -> 0 .. num - 1] /\ \A i, j \in 1 .. n : L[i] = L[j] => i = j
      /\ \A x \in 0 .. num - 1 : x \in held <=> \A i \in 1 .. n : L[i] # x
  BY DEF ChainOk
<1> DEFINE free == (0 .. num - 1) \ held
<1>2. Members(L) = free
  <2>1. DOMAIN L = 1 .. n
    BY <1>1
  <2>2. \A x : x \in Members(L) <=> \E i \in 1 .. n : L[i] = x
    BY <2>1 DEF Members
  <2>3. ASSUME NEW x \in Members(L) PROVE x \in free
    <3>1. PICK i \in 1 .. n : L[i] = x
      BY <2>2
    <3>2. x \in 0 .. num - 1
      BY <1>1, <3>1
    <3> QED BY <1>1, <3>1, <3>2
  <2>4. ASSUME NEW x \in free PROVE x \in Members(L)
    <3>1. x \in 0 .. num - 1 /\ x \notin held
      OBVIOUS
    <3>2. PICK i \in 1 .. n : L[i] = x
      BY <1>1, <3>1
    <3> QED BY <2>2, <3>2
  <2> QED BY <2>3, <2>4
<1>3. L \in Bijection(1 .. n, free)
  <2>0. DOMAIN L = 1 .. n
    BY <1>1
  <2>1. L \in [1 .. n -> free]
    <3>1. \A i \in 1 .. n : L[i] \in Members(L)
      BY <2>0 DEF Members
    <3> HIDE DEF free
    <3> QED BY <1>1, <1>2, <3>1
  <2>2. \A y \in free : \E i \in 1 .. n : L[i] = y
    <3> HIDE DEF free
    <3> QED BY <1>2, <2>0 DEF Members
  <2> QED BY <1>1, <2>1, <2>2 DEF Bijection, Injection, Surjection, IsInjective
<1>4. IsFiniteSet(1 .. n) /\ Cardinality(1 .. n) = n
  BY FS_Interval
<1>5. IsFiniteSet(0 .. num - 1) /\ Cardinality(0 .. num - 1) = num
  BY FS_Interval
<1>6. IsFiniteSet(held)
  BY <1>5, FS_Subset
<1>7. ExistsBijection(1 .. n, free)
  BY <1>3 DEF ExistsBijection
<1>8. IsFiniteSet(free) /\ Cardinality(free) = n
  BY <1>4, <1>7, FS_Bijection
<1>9. free \cup held = 0 .. num - 1 /\ free \cap held = {}
  OBVIOUS
<1> HIDE DEF free
<1>10. Cardinality(held) \in Nat
  BY <1>6, FS_CardinalityType
<1>11. Cardinality(free \cup held) = Cardinality(free) + Cardinality(held) - Cardinality(free \cap held)
  BY <1>6, <1>8, FS_Union
<1>12. Cardinality({}) = 0
  BY FS_EmptySet
<1>13. num = n + Cardinality(held)
  <2>1. num = Cardinality(free) + Cardinality(held) - 0
    BY <1>5, <1>9, <1>11, <1>12
  <2> QED BY <1>8, <1>10, <2>1
<1> QED BY <1>2, <1>13 DEF free, IsRest

(* The same three facts about lists, as the actions use them. *)
LEMMA ListNew ==
  ASSUME NEW num \in Nat, num > 0, num <= 1024, NEW id
  PROVE  ListOk(num, 0, num, PoolResInit(num), {}, id)
<1>1. Short(0)
  BY DEF Short
<1> QED BY <1>1, NewList DEF ListOk

LEMMA ListTake ==
  ASSUME NEW num \in Nat, num > 0, num <= 1024, NEW first, NEW n \in Nat, n > 0,
         NEW words, NEW held, NEW id \in Nat, ListOk(num, first, n, words, held, id)
  PROVE  /\ first \in 0 .. num - 1
         /\ first \notin held /\ words[first] \in Nat /\ ResId(words[first], id) \in Nat
         /\ ListOk(num, NextId(words[first]), n - 1, TakenWords(words, first, id), held \cup {first}, id)
<1>1. WordsOk(num, words, held, id)
  BY DEF ListOk
<1>2. PICK L : ChainOk(num, first, n, words, held, L)
  BY DEF ListOk
<1>3. first \in 0 .. num - 1
  BY <1>2, ChainFirst
<1> QED BY <1>1, <1>2, <1>3, TakeFirst

LEMMA ListPut ==
  ASSUME NEW num \in Nat, num > 0, num <= 1024, NEW first, NEW n \in Nat,
         NEW words, NEW held, NEW type \in Nat, type < 16, NEW p \in Nat, p < 1024,
         ListOk(num, first, n, words, held, PoolWord(type, p)), NEW r \in 0 .. num - 1, r \in held,
         NEW old \in OldIn(num, first, words, r)
  PROVE  ListOk(num, r, n + 1, PutWords(words, r, old), held \ {r}, PoolWord(type, p))
<1>1. PICK id : id = PoolWord(type, p)
  OBVIOUS
<1>2. WordsOk(num, words, held, id)
  BY <1>1 DEF ListOk
<1>3. PICK L : ChainOk(num, first, n, words, held, L)
  BY DEF ListOk
<1>4. Short(IndexOf(old)) /\ (n > 0 => IndexOf(old) = first)
  BY OldLinks
<1>5. ListOk(num, r, n + 1, PutWords(words, r, old), held \ {r}, id)
  BY <1>2, <1>3, <1>4, PutFirst
<1> QED BY <1>1, <1>5

(* Writing the CPU into the id of a resource in use disturbs no list. *)
MarkedWords(words, r, bit) == [words EXCEPT ![r] = Marked(words[r], bit)]
LEMMA ListMark ==
  ASSUME NEW num \in Nat, num > 0, num <= 1024, NEW first, NEW n \in Nat,
         NEW words, NEW held, NEW type \in Nat, type < 16, NEW p \in Nat, p < 1024,
         ListOk(num, first, n, words, held, PoolWord(type, p)), NEW r \in 0 .. num - 1, r \in held,
         NEW bit \in {0, 1}
  PROVE  /\ Marked(words[r], bit) \in Nat
         /\ ListOk(num, first, n, MarkedWords(words, r, bit), held, PoolWord(type, p))
<1>0. PICK new : new = MarkedWords(words, r, bit)
  OBVIOUS
<1>1. PICK id : id = PoolWord(type, p)
  OBVIOUS
<1>2. Short(first) /\ WordsOk(num, words, held, id)
  BY <1>1 DEF ListOk
<1>3. PICK L \in [1 .. n -> 0 .. num - 1] : ChainOk(num, first, n, words, held, L)
  BY DEF ListOk
<1>4. r \in Nat /\ r < 1024 /\ words \in [0 .. num - 1 -> Nat] /\ IsId(words[r], r, PoolWord(type, p))
  BY <1>1, <1>2 DEF WordsOk
<1>5. PICK w \in Nat : w = Marked(words[r], bit) /\ IsId(w, r, id)
  BY <1>1, <1>4, MarkedId
<1>6. new \in [0 .. num - 1 -> Nat] /\ \A x \in 0 .. num - 1 : new[x] = IF x = r THEN w ELSE words[x]
  BY <1>0, <1>4, <1>5 DEF MarkedWords
<1>7. WordsOk(num, new, held, id)
  BY <1>2, <1>5, <1>6 DEF WordsOk
<1>8. ASSUME NEW i \in 1 .. n - 1 PROVE NextId(new[L[i]]) = L[i + 1]
  <2>1. i \in 1 .. n /\ L[i] \in 0 .. num - 1
    BY <1>3
  <2>2. L[i] # r
    BY <2>1, <1>3 DEF ChainOk
  <2>3. new[L[i]] = words[L[i]]
    BY <1>6, <2>1, <2>2
  <2> QED BY <1>3, <2>3 DEF ChainOk
<1>9. ChainOk(num, first, n, new, held, L)
  BY <1>3, <1>8 DEF ChainOk
<1>10. ListOk(num, first, n, new, held, id)
  BY <1>2, <1>3, <1>7, <1>9 DEF ListOk
<1> QED BY <1>0, <1>1, <1>5, <1>10

(* The walk along next_id meets the list. *)
LEMMA WalkMeetsList ==
  ASSUME NEW p, pools[p].free_num \in Nat, NEW num \in Nat, NEW held, NEW L,
         ChainOk(num, pools[p].res_free, pools[p].free_num, heap[Block(p)], held, L)
  PROVE  FreeAt(p) = L
<1> DEFINE n == pools[p].free_num
           first == pools[p].res_free
           words == heap[pools[p].base_adr.n]
<1>1. /\ L \in [1 .. n -> 0 .. num - 1]
      /\ n > 0 => first = L[1]
      /\ \A i \in 1 .. n - 1 : NextId(words[L[i]]) = L[i + 1]
  BY DEF ChainOk, Block
<1>2. L = [i \in 1 .. n |-> IF i = 1 THEN first ELSE NextId(words[L[i - 1]])]
  <2>1. L = [i \in 1 .. n |-> L[i]]
    BY <1>1
  <2>2. ASSUME NEW i \in 1 .. n PROVE L[i] = IF i = 1 THEN first ELSE NextId(words[L[i - 1]])
    <3>1. CASE i = 1
      BY <1>1, <3>1
    <3>2. CASE i # 1
      <4>1. PICK j \in 1 .. n - 1 : j = i - 1 /\ j + 1 = i
        BY <3>2
      <4>2. NextId(words[L[j]]) = L[j + 1]
        BY <1>1
      <4> QED BY <3>2, <4>1, <4>2
    <3> QED BY <3>1, <3>2
  <2> QED BY <2>1, <2>2
<1> DEFINE W == FreeAt(p)
<1>3. W = [i \in 1 .. n |-> IF i = 1 THEN first ELSE NextId(words[W[i - 1]])]
  BY <1>2 DEF FreeAt
<1>4. n \in Nat
  OBVIOUS
<1> HIDE DEF W, n, first, words
<1>5. \A i \in 1 .. n : W[i] = IF i = 1 THEN first ELSE NextId(words[W[i - 1]])
  BY <1>3
<1>6. \A i \in 1 .. n : L[i] = IF i = 1 THEN first ELSE NextId(words[L[i - 1]])
  BY <1>2
<1>7. W = [i \in 1 .. n |-> W[i]] /\ L = [i \in 1 .. n |-> L[i]]
  BY <1>2, <1>3
<1> DEFINE bad == {i \in 1 .. n : W[i] # L[i]}
<1>8. bad = {}
  <2> SUFFICES ASSUME bad # {} PROVE FALSE
    OBVIOUS
  <2>1. bad \subseteq Nat
    BY <1>4
  <2> DEFINE k == Min(bad)
  <2>2. k \in bad /\ \A m \in bad : k <= m
    BY <2>1, MinOfNats
  <2> HIDE DEF k
  <2>3. k \in 1 .. n /\ W[k] # L[k]
    BY <2>2
  <2>4. k # 1
    BY <1>5, <1>6, <2>3
  <2>5. PICK j \in 1 .. n : j = k - 1 /\ ~(k <= j)
    BY <1>4, <2>3, <2>4
  <2>6. W[j] = L[j]
    BY <2>2, <2>5
  <2>7. W[k] = NextId(words[W[k - 1]]) /\ L[k] = NextId(words[L[k - 1]])
    BY <1>5, <1>6, <2>3, <2>4
  <2> QED BY <2>3, <2>5, <2>6, <2>7
<1>9. \A i \in 1 .. n : W[i] = L[i]
  BY <1>8
<1>10. W = L
  BY <1>7, <1>9
<1> QED BY <1>10 DEF W

-----------------------------------------------------------------------------
(* Lists of pools. *)

(* A list without repetitions, and what it holds. *)
Once(q) == \A i, j \in 1 .. Len(q) : q[i] = q[j] => i = j

LEMMA MembersOf ==
  ASSUME NEW S, NEW q \in Seq(S)
  PROVE  Members(q) \subseteq S /\ \A x : x \in Members(q) <=> \E i \in 1 .. Len(q) : q[i] = x
  BY DEF Members

(* acoral_list_add2_tail. *)
LEMMA AppendMembers ==
  ASSUME NEW S, NEW q \in Seq(S), NEW p \in S
  PROVE  /\ Append(q, p) \in Seq(S) /\ Len(Append(q, p)) = Len(q) + 1
         /\ Members(Append(q, p)) = Members(q) \cup {p}
         /\ Once(q) /\ p \notin Members(q) => Once(Append(q, p))
<1> DEFINE r == Append(q, p)
<1>1. /\ r \in Seq(S) /\ Len(r) = Len(q) + 1 /\ Len(q) \in Nat
      /\ \A i \in 1 .. Len(q) : r[i] = q[i]
      /\ r[Len(q) + 1] = p
  BY AppendProperties, LenProperties
<1> HIDE DEF r
<1>2. Len(q) + 1 \in 1 .. Len(r) /\ \A i \in 1 .. Len(r) : i = Len(q) + 1 \/ i \in 1 .. Len(q)
  BY <1>1
<1>3. 1 .. Len(q) \subseteq 1 .. Len(r)
  BY <1>1
<1>4. /\ \A x : x \in Members(r) <=> \E i \in 1 .. Len(r) : r[i] = x
      /\ \A x : x \in Members(q) <=> \E i \in 1 .. Len(q) : q[i] = x
  BY <1>1, MembersOf
<1>5. Members(r) = Members(q) \cup {p}
  <2>1. ASSUME NEW x \in Members(r) PROVE x \in Members(q) \cup {p}
    BY <1>1, <1>2, <1>4
  <2>2. ASSUME NEW x \in Members(q) PROVE x \in Members(r)
    BY <1>1, <1>3, <1>4
  <2>3. p \in Members(r)
    BY <1>1, <1>2, <1>4
  <2> QED BY <2>1, <2>2, <2>3
<1>6. ASSUME Once(q), p \notin Members(q) PROVE Once(r)
  <2>1. \A i \in 1 .. Len(q) : r[i] # p
    BY <1>1, <1>4, <1>6
  <2>2. ASSUME NEW i \in 1 .. Len(r), NEW j \in 1 .. Len(r), r[i] = r[j] PROVE i = j
    <3>1. CASE i \in 1 .. Len(q) /\ j \in 1 .. Len(q)
      BY <1>1, <1>6, <2>2, <3>1 DEF Once
    <3>2. CASE i = Len(q) + 1 \/ j = Len(q) + 1
      BY <1>1, <1>2, <2>1, <2>2, <3>2
    <3> QED BY <1>2, <3>1, <3>2
  <2> QED BY <2>2 DEF Once
<1> QED BY <1>1, <1>5, <1>6 DEF r

(* acoral_list_del of the first. *)
LEMMA TailMembers ==
  ASSUME NEW S, NEW q \in Seq(S), q # << >>, Once(q)
  PROVE  /\ Head(q) \in Members(q)
         /\ Tail(q) \in Seq(S) /\ Members(Tail(q)) = Members(q) \ {Head(q)} /\ Once(Tail(q))
<1> DEFINE r == Tail(q)
           h == Head(q)
<1>1. /\ r \in Seq(S) /\ Len(r) = Len(q) - 1 /\ Len(q) \in Nat /\ Len(q) > 0 /\ h = q[1]
      /\ \A i \in 1 .. Len(r) : r[i] = q[i + 1]
  BY HeadTailProperties, LenProperties, EmptySeq
<1> HIDE DEF r, h
<1>2. /\ \A x : x \in Members(r) <=> \E i \in 1 .. Len(r) : r[i] = x
      /\ \A x : x \in Members(q) <=> \E i \in 1 .. Len(q) : q[i] = x
  BY <1>1, MembersOf
<1>3. /\ 1 \in 1 .. Len(q) /\ \A i \in 1 .. Len(r) : i + 1 \in 1 .. Len(q) /\ i + 1 # 1
  BY <1>1
<1>4. h \in Members(q)
  BY <1>1, <1>2, <1>3
<1>5. Members(r) = Members(q) \ {h}
  <2>1. ASSUME NEW x \in Members(r) PROVE x \in Members(q) \ {h}
    <3>1. PICK i \in 1 .. Len(r) : q[i + 1] = x
      BY <1>1, <1>2
    <3>2. PICK j \in 1 .. Len(q) : j = i + 1 /\ j # 1 /\ q[j] = x
      BY <1>3, <3>1
    <3>3. q[j] # q[1]
      BY <1>3, <3>2 DEF Once
    <3> QED BY <1>1, <1>2, <3>2, <3>3
  <2>2. ASSUME NEW x \in Members(q), x # h PROVE x \in Members(r)
    <3>1. PICK j \in 1 .. Len(q) : q[j] = x
      BY <1>2
    <3>2. PICK i \in 1 .. Len(r) : i + 1 = j
      BY <1>1, <2>2, <3>1
    <3>3. r[i] = x
      BY <1>1, <3>1, <3>2
    <3> QED BY <1>2, <3>3
  <2> QED BY <2>1, <2>2
<1>6. Once(r)
  <2>1. ASSUME NEW i \in 1 .. Len(r), NEW j \in 1 .. Len(r), r[i] = r[j] PROVE i = j
    <3>1. PICK a \in 1 .. Len(q) : a = i + 1 /\ q[a] = r[i]
      BY <1>1, <1>3
    <3>2. PICK b \in 1 .. Len(q) : b = j + 1 /\ q[b] = r[j]
      BY <1>1, <1>3
    <3>3. a = b
      BY <2>1, <3>1, <3>2 DEF Once
    <3> QED BY <3>1, <3>2, <3>3
  <2> QED BY <2>1 DEF Once
<1> QED BY <1>1, <1>4, <1>5, <1>6 DEF r, h

(* Lists have no second name for their end. *)
LEMMA NoMembers ==
  ASSUME NEW S, NEW q \in Seq(S)
  PROVE  q = << >> <=> Members(q) = {}
<1>1. Len(q) \in Nat /\ (q = << >> <=> Len(q) = 0)
  BY LenProperties, EmptySeq
<1>2. \A x : x \in Members(q) <=> \E i \in 1 .. Len(q) : q[i] = x
  BY MembersOf
<1>3. ASSUME Len(q) # 0 PROVE q[1] \in Members(q)
  <2>1. 1 \in 1 .. Len(q)
    BY <1>1, <1>3
  <2> QED BY <1>2, <2>1
<1>4. ASSUME Len(q) = 0 PROVE \A x : x \notin Members(q)
  <2>1. \A i : i \notin 1 .. Len(q)
    BY <1>4
  <2> QED BY <1>2, <2>1
<1> QED BY <1>1, <1>3, <1>4

-----------------------------------------------------------------------------
(* The inductive invariant. *)

PoolRecs == [base_adr : Pointers, id : Nat, res_free : Nat, num : Nat, free_num : Nat,
             ctrl : Ctrls \cup {NoCtrl}]
CtrlRecs == [num_per_pool : Nat, num : Nat, total_pools : Seq(PoolIds), free_pools : Seq(PoolIds),
             lock : Threads \cup {NoThread}, ready : BOOLEAN]
Blocks == UNION {[0 .. n - 1 -> Nat] : n \in Nat}
Regs == [pool : PoolIds, res : Pointers \X Nat]

(* The types of all variables, and the discipline of the application. *)
Shapes ==
  /\ app \in Apps /\ CreatorsExclude(app)
  /\ pools \in [PoolIds -> PoolRecs] /\ free_pool \in Pointers /\ heap \in Seq(Blocks)
  /\ ctrls \in [Ctrls -> CtrlRecs]
  /\ crit \in [Cpus -> Threads \cup {NoThread}] /\ pc \in [Threads -> Places]
  /\ reg \in [Threads -> Regs] /\ live \subseteq Pointers \X Nat
  /\ calls \in [Threads -> 0 .. MaxCalls]

(* The resources of a pool in use, and whether the pool has an owner. *)
Held(p) == {i \in 0 .. pools[p].num - 1 : <<pools[p].base_adr, i>> \in live}
Owned(p) == pools[p].ctrl # NoCtrl

(* A pool with an owner has a block of its own and is in total_pools of    *)
(* its owner.                                                              *)
OwnInv ==
  /\ \A p \in PoolIds : Owned(p) <=> pools[p].base_adr.to = "block"
  /\ \A p \in PoolIds, k \in Ctrls : p \in Members(ctrls[k].total_pools) <=> pools[p].ctrl = k
  /\ \A p \in PoolIds : ~Owned(p) => pools[p].free_num = 0 /\ pools[p].res_free = 0
  /\ \A p, q \in PoolIds : Owned(p) /\ Owned(q) /\ Block(p) = Block(q) => p = q

(* Its words and its free list tell what is in use. *)
PoolInv(p) ==
  /\ Block(p) \in 1 .. Len(heap)
  /\ pools[p].num > 0 /\ pools[p].num <= 1024
  /\ pools[p].id = PoolWord(app.ctrls[pools[p].ctrl].type, p)
  /\ ListOk(pools[p].num, pools[p].res_free, pools[p].free_num, heap[Block(p)], Held(p), pools[p].id)
PoolsInv == \A p \in PoolIds : Owned(p) => PoolInv(p)

(* A resource in use belongs to a pool that has an owner. *)
Home(res, p) ==
  p \in PoolIds /\ Owned(p) /\ pools[p].base_adr = res[1] /\ res[2] \in 0 .. pools[p].num - 1
LiveInv == \A res \in live : \E p \in PoolIds : Home(res, p)

(* The two lists of a control block. *)
CtrlOk(k) ==
  /\ ctrls[k].num = Len(ctrls[k].total_pools) /\ ctrls[k].num <= app.ctrls[k].max
  /\ IF ctrls[k].ready THEN ctrls[k].num_per_pool > 0 /\ ctrls[k].num_per_pool <= 1024
     ELSE ctrls[k].total_pools = << >>
  /\ \A p \in PoolIds : p \in Members(ctrls[k].free_pools) <=> pools[p].ctrl = k /\ pools[p].free_num > 0
  /\ Once(ctrls[k].free_pools)
CtrlInv == \A k \in Ctrls : CtrlOk(k)

(* No thread runs before all control blocks are ready. *)
BootInv == \A k \in Ctrls : ~ctrls[k].ready => \A t \in Threads : pc[t] = "rest"

(* From acoral_free_res_pool on, the pools are as acoral_pools_init left   *)
(* them; it only ever points to even ones.                                 *)
Unused(p) == p \in PoolIds /\ p % 2 = 0 /\ pools[p] = PoolsInit[p]
ChainInv ==
  \/ free_pool = Null
  \/ /\ free_pool = PoolPtr(free_pool.n) /\ Unused(free_pool.n)
     /\ \A p \in PoolIds : p >= free_pool.n => pools[p] = PoolsInit[p]

(* What a thread may rely on inside a call. *)
Getting == {"get", "locked", "pop", "create"}
Creating == {"locked", "pop", "create"}
CallOk(t) ==
  /\ pc[t] \in Getting => app.role[t] = "get" /\ InCritical(t)
  /\ pc[t] \in Creating => ctrls[CtrlOf(t)].lock = t
  /\ pc[t] \in {"pop", "create"} => ctrls[CtrlOf(t)].num < app.ctrls[CtrlOf(t)].max
  /\ pc[t] = "pop" => free_pool = PoolPtr(reg[t].pool)
  /\ pc[t] = "create" => /\ Unused(reg[t].pool)
                         /\ free_pool = Null \/ reg[t].pool < free_pool.n
  /\ pc[t] \in Releasing => reg[t].res \in live /\ Home(reg[t].res, reg[t].pool)
  /\ pc[t] = "releasing" => ctrls[pools[reg[t].pool].ctrl].lock = t
CallInv == \A t \in Threads : CallOk(t)
ReleaseOnce ==
  \A t, u \in Threads : (pc[t] \in Releasing /\ pc[u] \in Releasing /\ t # u) => reg[t].res # reg[u].res

IInv == /\ Shapes /\ OwnInv /\ PoolsInv /\ LiveInv /\ CtrlInv
        /\ BootInv /\ ChainInv /\ CallInv /\ ReleaseOnce

-----------------------------------------------------------------------------
(* What a step leaves alone. *)

LEMMA AppFacts ==
  ASSUME app \in Apps
  PROVE  /\ app.cpu \in [Threads -> Cpus] /\ app.ctrl \in [Threads -> Ctrls] /\ app.bits \subseteq {0, 1}
         /\ \A k \in Ctrls : /\ app.ctrls[k].type \in Nat /\ app.ctrls[k].type < 16
                             /\ app.ctrls[k].max \in Nat /\ app.ctrls[k].max > 0
<1>1. ASSUME NEW k \in Ctrls
      PROVE  app.ctrls[k].type \in 1 .. 15 /\ app.ctrls[k].max \in Nat \ {0}
  BY PoolAppsAssumption
<1>2. app.cpu \in [Threads -> Cpus] /\ app.ctrl \in [Threads -> Ctrls] /\ app.bits \subseteq {0, 1}
  BY PoolAppsAssumption
<1>3. \A k \in Ctrls : /\ app.ctrls[k].type \in Nat /\ app.ctrls[k].type < 16
                       /\ app.ctrls[k].max \in Nat /\ app.ctrls[k].max > 0
  BY <1>1
<1> QED BY <1>2, <1>3

(* Pools are numbered by their index, which fits ten bits. *)
LEMMA PoolIdsFit ==
  /\ MaxPools \in Nat /\ MaxPools > 0 /\ MaxPools % 2 = 0
  /\ \A p \in PoolIds : p \in Nat /\ p < 1024 /\ p <= MaxPools - 1
<1>1. MaxPools \in Nat /\ MaxPools > 0 /\ MaxPools <= 1024 /\ MaxPools % 2 = 0
  <2> DEFINE limit == 2^10
  <2>1. limit \in Nat /\ limit <= 1024
    BY Powers
  <2>2. MaxPools \in 1 .. limit /\ MaxPools % 2 = 0
    BY MaxPoolsAssumption
  <2> HIDE DEF limit
  <2> QED BY <2>1, <2>2
<1> QED BY <1>1 DEF PoolIds

(* Control blocks that differ in their locks only. *)
SameLists(k) ==
  /\ ctrls'[k].num = ctrls[k].num /\ ctrls'[k].num_per_pool = ctrls[k].num_per_pool
  /\ ctrls'[k].total_pools = ctrls[k].total_pools /\ ctrls'[k].free_pools = ctrls[k].free_pools
  /\ ctrls'[k].ready = ctrls[k].ready

(* A pool that a step does not touch. *)
LEMMA PoolKept ==
  ASSUME NEW p, pools'[p] = pools[p], app' = app, heap'[Block(p)] = heap[Block(p)],
         Len(heap) \in Nat, Len(heap') \in Nat, Len(heap') >= Len(heap),
         Held(p)' = Held(p), PoolInv(p)
  PROVE  PoolInv(p)'
<1>1. Block(p)' = Block(p)
  BY DEF Block
<1>2. /\ Block(p) \in 1 .. Len(heap')
  BY DEF PoolInv
<1>3. /\ pools'[p].num > 0 /\ pools'[p].num <= 1024
      /\ pools'[p].id = PoolWord(app'.ctrls[pools'[p].ctrl].type, p)
  BY DEF PoolInv
<1>4. ListOk(pools'[p].num, pools'[p].res_free, pools'[p].free_num, heap'[Block(p)], Held(p), pools'[p].id)
  BY DEF PoolInv
<1> QED BY <1>1, <1>2, <1>3, <1>4 DEF PoolInv

(* Taking and leaving locks disturbs no list. *)
LEMMA LocksOnly ==
  ASSUME OwnInv, PoolsInv, LiveInv, CtrlInv, UNCHANGED <<app, pools, heap, live>>, Len(heap) \in Nat,
         \A k \in Ctrls : SameLists(k)
  PROVE  OwnInv' /\ PoolsInv' /\ LiveInv' /\ CtrlInv'
<1>1. OwnInv'
  BY DEF OwnInv, Owned, Block, SameLists
<1>2. PoolsInv'
  <2>1. ASSUME NEW p \in PoolIds, Owned(p)' PROVE PoolInv(p)'
    <3>1. Held(p)' = Held(p) /\ Owned(p)
      BY <2>1 DEF Held, Owned
    <3>2. PoolInv(p)
      BY <3>1 DEF PoolsInv
    <3> QED BY <3>1, <3>2, PoolKept
  <2> QED BY <2>1 DEF PoolsInv
<1>3. LiveInv'
  BY DEF LiveInv, Home, Owned
<1>4. CtrlInv'
  BY DEF CtrlInv, CtrlOk, SameLists
<1> QED BY <1>1, <1>2, <1>3, <1>4

(* Who runs on a CPU finds nobody else in a critical section there. *)
LEMMA Alone ==
  ASSUME Shapes, NEW t \in Threads, NEW u \in Threads, t # u, CanRun(u), InCritical(t)
  PROVE  Cpu[t] # Cpu[u]
<1>1. t # NoThread
  BY PoolNullsAssumption
<1> QED BY <1>1 DEF CanRun, InCritical

(* The lock of its control block and the critical section of its CPU make  *)
(* a creator the only one.                                                 *)
LEMMA OneCreator ==
  ASSUME Shapes, CallInv, NEW t \in Threads, NEW u \in Threads,
         pc[t] \in Creating, pc[u] \in Creating
  PROVE  t = u
<1>1. /\ app.role[t] = "get" /\ app.role[u] = "get" /\ InCritical(t) /\ InCritical(u)
      /\ ctrls[CtrlOf(t)].lock = t /\ ctrls[CtrlOf(u)].lock = u
  BY DEF CallInv, CallOk, Creating, Getting
<1>2. Cpu[t] = Cpu[u] \/ CtrlOf(t) = CtrlOf(u)
  BY <1>1 DEF Shapes, CreatorsExclude, CtrlOf, Cpu
<1> QED BY <1>1, <1>2 DEF InCritical

(* A step of one thread leaves another's call as it was. *)
LEMMA OthersOk ==
  ASSUME NEW t \in Threads, CallOk(t), app' = app, pc'[t] = pc[t], reg'[t] = reg[t],
         InCritical(t) => InCritical(t)',
         \A k \in Ctrls : ctrls[k].lock = t => ctrls'[k].lock = t,
         CtrlOf(t) \in Ctrls, reg[t].pool \in PoolIds,
         pools[reg[t].pool].ctrl \in Ctrls \cup {NoCtrl},
         pc[t] \in {"pop", "create"} => /\ ctrls'[CtrlOf(t)].num = ctrls[CtrlOf(t)].num
                                        /\ free_pool' = free_pool,
         pc[t] = "create" => pools'[reg[t].pool] = pools[reg[t].pool],
         pc[t] \in Releasing =>
           /\ reg[t].res \in live'
           /\ pools'[reg[t].pool].ctrl = pools[reg[t].pool].ctrl
           /\ pools'[reg[t].pool].base_adr = pools[reg[t].pool].base_adr
           /\ pools'[reg[t].pool].num = pools[reg[t].pool].num
  PROVE  CallOk(t)'
<1>1. (pc[t] \in Getting => app.role[t] = "get" /\ InCritical(t))'
  BY DEF CallOk
<1>2. (pc[t] \in Creating => ctrls[CtrlOf(t)].lock = t)'
  BY DEF CallOk, CtrlOf
<1>3. (pc[t] \in {"pop", "create"} => ctrls[CtrlOf(t)].num < app.ctrls[CtrlOf(t)].max)'
  BY DEF CallOk, CtrlOf
<1>4. (pc[t] = "pop" => free_pool = PoolPtr(reg[t].pool))'
  BY DEF CallOk
<1>5. (pc[t] = "create" => Unused(reg[t].pool) /\ (free_pool = Null \/ reg[t].pool < free_pool.n))'
  BY DEF CallOk, Unused
<1>6. (pc[t] \in Releasing => reg[t].res \in live /\ Home(reg[t].res, reg[t].pool))'
  BY DEF CallOk, Home, Owned
<1>7. (pc[t] = "releasing" => ctrls[pools[reg[t].pool].ctrl].lock = t)'
  BY DEF CallOk, Releasing, Home, Owned
<1> QED BY <1>1, <1>2, <1>3, <1>4, <1>5, <1>6, <1>7 DEF CallOk

-----------------------------------------------------------------------------
(* One lemma for each action. *)

(* What a step of t may use. *)
LEMMA StepFacts ==
  ASSUME IInv, NEW t \in Threads
  PROVE  /\ app.cpu \in [Threads -> Cpus] /\ CtrlOf(t) \in Ctrls /\ Cpu[t] \in Cpus
         /\ Len(heap) \in Nat /\ reg[t] \in Regs /\ reg[t].pool \in PoolIds
         /\ reg[t].res \in Pointers \X Nat
         /\ pools[reg[t].pool].ctrl \in Ctrls \cup {NoCtrl}
         /\ t # NoThread
         /\ pc[t] # "rest" => \A k \in Ctrls : ctrls[k].ready
<1>1. Shapes /\ BootInv
  BY DEF IInv
<1>2. app.cpu \in [Threads -> Cpus] /\ CtrlOf(t) \in Ctrls /\ Cpu[t] \in Cpus
  BY <1>1, AppFacts DEF Shapes, CtrlOf, Cpu
<1>3. Len(heap) \in Nat
  BY <1>1, LenProperties DEF Shapes
<1>4. reg[t] \in Regs /\ reg[t].pool \in PoolIds /\ reg[t].res \in Pointers \X Nat
  BY <1>1 DEF Shapes, Regs
<1>5. pools[reg[t].pool].ctrl \in Ctrls \cup {NoCtrl}
  BY <1>1, <1>4 DEF Shapes, PoolRecs
<1>6. pc[t] # "rest" => \A k \in Ctrls : ctrls[k].ready
  BY <1>1 DEF BootInv, Shapes, CtrlRecs
<1> QED BY <1>2, <1>3, <1>4, <1>5, <1>6, PoolNullsAssumption

(* A step of t that touches no pool and no list: what is left to show. *)
Quiet(t) ==
  /\ UNCHANGED <<app, pools, heap, live>> /\ \A k \in Ctrls : SameLists(k)
  /\ \A k \in Ctrls : ctrls[k].ready
  /\ \A u \in Threads \ {t} : pc'[u] = pc[u] /\ reg'[u] = reg[u]
  /\ CanRun(t) /\ \A c \in Cpus \ {Cpu[t]} : crit'[c] = crit[c]
  /\ \A u \in Threads \ {t}, k \in Ctrls : ctrls[k].lock = u => ctrls'[k].lock = u
  /\ free_pool' = free_pool \/ pc[t] \in Creating

LEMMA QuietKeeps ==
  ASSUME IInv, NEW t \in Threads, Quiet(t), Shapes', ChainInv', CallOk(t)', ReleaseOnce'
  PROVE  IInv'
<1>0. /\ Shapes /\ OwnInv /\ PoolsInv /\ LiveInv /\ CtrlInv /\ CallInv
  BY DEF IInv
<1>1. OwnInv' /\ PoolsInv' /\ LiveInv' /\ CtrlInv'
  BY <1>0, LocksOnly, StepFacts DEF Quiet
<1>2. BootInv'
  BY DEF BootInv, Quiet, SameLists
<1>3. ASSUME NEW u \in Threads, u # t PROVE CallOk(u)'
  <2>1. CallOk(u)
    BY <1>0 DEF CallInv
  <2>2. app' = app /\ pc'[u] = pc[u] /\ reg'[u] = reg[u] /\ pools' = pools /\ live' = live
    BY <1>3 DEF Quiet
  <2>3. /\ CtrlOf(u) \in Ctrls /\ reg[u].pool \in PoolIds /\ Cpu[u] \in Cpus
        /\ pools[reg[u].pool].ctrl \in Ctrls \cup {NoCtrl}
    BY StepFacts
  <2>4. InCritical(u) => InCritical(u)'
    <3>1. InCritical(u) => Cpu[u] # Cpu[t]
      BY <1>0, <1>3, Alone DEF Quiet
    <3>2. Cpu' = Cpu
      BY <2>2 DEF Cpu
    <3> QED BY <2>3, <3>1, <3>2 DEF InCritical, Quiet
  <2>5. \A k \in Ctrls : ctrls[k].lock = u => ctrls'[k].lock = u
    BY <1>3 DEF Quiet
  <2>6. pc[u] \in {"pop", "create"} => /\ ctrls'[CtrlOf(u)].num = ctrls[CtrlOf(u)].num
                                       /\ free_pool' = free_pool
    <3>1. SameLists(CtrlOf(u))
      BY <2>3 DEF Quiet
    <3>2. pc[u] \in {"pop", "create"} => pc[t] \notin Creating
      BY <1>0, <1>3, OneCreator DEF Creating
    <3> QED BY <3>1, <3>2 DEF Quiet, SameLists
  <2>7. pc[u] \in Releasing => reg[u].res \in live
    BY <2>1 DEF CallOk
  <2> QED BY <2>1, <2>2, <2>3, <2>4, <2>5, <2>6, <2>7, OthersOk
<1>4. CallInv'
  BY <1>3 DEF CallInv
<1> QED BY <1>1, <1>2, <1>4 DEF IInv

(* acoral_get_res enters the critical section. *)
LEMMA GetKeeps ==
  ASSUME IInv, NEW t \in Threads, Get(t)
  PROVE  IInv'
<1>0. Shapes /\ ChainInv /\ CallInv /\ ReleaseOnce
  BY DEF IInv
<1>1. /\ UNCHANGED <<app, pools, free_pool, heap, ctrls, reg, live>>
      /\ crit' = [crit EXCEPT ![Cpu[t]] = t] /\ pc' = [pc EXCEPT ![t] = "get"]
      /\ app.role[t] = "get" /\ CanRun(t) /\ pc[t] = "rest"
      /\ calls' = [calls EXCEPT ![t] = @ + 1] /\ calls[t] < MaxCalls
      /\ \A k \in Ctrls : ctrls[k].ready
  BY DEF Get, MayCall, At, EnterCritical, GoTo
<1>2. Cpu[t] \in Cpus
  BY StepFacts
<1>3. Shapes'
  <2>1. crit' \in [Cpus -> Threads \cup {NoThread}] /\ pc' \in [Threads -> Places]
    BY <1>0, <1>1, <1>2 DEF Shapes, Places
  <2>2. calls' \in [Threads -> 0 .. MaxCalls]
    BY <1>0, <1>1, PoolCallsAssumption DEF Shapes
  <2>3. CreatorsExclude(app)'
    BY <1>0, <1>1 DEF Shapes, CreatorsExclude, Cpu
  <2> QED BY <1>0, <1>1, <2>1, <2>2, <2>3 DEF Shapes
<1>4. Quiet(t)
  BY <1>0, <1>1, <1>2 DEF Quiet, SameLists, Shapes
<1>5. ChainInv'
  BY <1>0, <1>1 DEF ChainInv, Unused
<1>6. CallOk(t)'
  <2>1. pc'[t] = "get" /\ crit'[Cpu[t]] = t
    BY <1>0, <1>1, <1>2 DEF Shapes
  <2> QED BY <1>1, <2>1 DEF CallOk, Getting, Creating, Releasing, InCritical, Cpu
<1>7. ReleaseOnce'
  BY <1>0, <1>1 DEF ReleaseOnce, Shapes, Releasing
<1> QED BY <1>3, <1>4, <1>5, <1>6, <1>7, QuietKeeps

(* A step that changes one lock. *)
LockSet(k, holder) ==
  /\ ctrls' \in [Ctrls -> CtrlRecs] /\ \A j \in Ctrls : SameLists(j)
  /\ \A j \in Ctrls : ctrls'[j].lock = IF j = k THEN holder ELSE ctrls[j].lock
LEMMA LockStep ==
  ASSUME ctrls \in [Ctrls -> CtrlRecs], NEW k \in Ctrls, NEW holder \in Threads \cup {NoThread},
         ctrls' = [ctrls EXCEPT ![k] = [ctrls[k] EXCEPT !.lock = holder]]
  PROVE  LockSet(k, holder)
<1>1. PICK cb, new : cb = ctrls[k] /\ new = [cb EXCEPT !.lock = holder]
  OBVIOUS
<1>2. cb \in CtrlRecs
  BY <1>1
<1>3. /\ new \in CtrlRecs /\ new.lock = holder /\ new.num = cb.num /\ new.num_per_pool = cb.num_per_pool
      /\ new.total_pools = cb.total_pools /\ new.free_pools = cb.free_pools /\ new.ready = cb.ready
  BY <1>1, <1>2 DEF CtrlRecs
<1>4. ctrls' = [ctrls EXCEPT ![k] = new]
  BY <1>1
<1>5. /\ ctrls' \in [Ctrls -> CtrlRecs] /\ ctrls'[k] = new
      /\ \A j \in Ctrls : j # k => ctrls'[j] = ctrls[j]
  BY <1>3, <1>4
<1>6. ASSUME NEW j \in Ctrls
      PROVE  SameLists(j) /\ ctrls'[j].lock = IF j = k THEN holder ELSE ctrls[j].lock
  <2>1. CASE j = k
    BY <1>1, <1>3, <1>5, <2>1 DEF SameLists
  <2>2. CASE j # k
    BY <1>5, <2>2 DEF SameLists
  <2> QED BY <2>1, <2>2
<1> QED BY <1>5, <1>6 DEF LockSet

(* acoral_spin_lock. *)
LEMMA LockFacts ==
  ASSUME IInv, NEW t \in Threads, NEW k \in Ctrls, NEW from, NEW to \in Places, Lock(t, k, from, to),
         from # "rest"
  PROVE  /\ Shapes' /\ Quiet(t) /\ ChainInv'
         /\ pc[t] = from /\ pc'[t] = to /\ ctrls'[k].lock = t
         /\ UNCHANGED <<app, pools, free_pool, crit, reg, live>>
<1>0. Shapes /\ ChainInv
  BY DEF IInv
<1>1. /\ UNCHANGED <<app, pools, free_pool, heap, crit, reg, live, calls>>
      /\ ctrls[k].lock = NoThread /\ ctrls' = [ctrls EXCEPT ![k].lock = t]
      /\ pc' = [pc EXCEPT ![t] = to] /\ CanRun(t) /\ pc[t] = from
  BY DEF Lock, At, GoTo
<1>2. \A j \in Ctrls : ctrls[j].ready
  BY <1>1, StepFacts
<1>3. /\ ctrls' \in [Ctrls -> CtrlRecs] /\ \A j \in Ctrls : SameLists(j)
      /\ \A j \in Ctrls : ctrls'[j].lock = IF j = k THEN t ELSE ctrls[j].lock
  <2>1. ctrls' = [ctrls EXCEPT ![k] = [ctrls[k] EXCEPT !.lock = t]]
    BY <1>1
  <2>2. LockSet(k, t)
    BY <1>0, <2>1, LockStep DEF Shapes
  <2> QED BY <2>2 DEF LockSet
<1>4. Shapes'
  <2>1. pc' \in [Threads -> Places]
    BY <1>0, <1>1 DEF Shapes
  <2>2. CreatorsExclude(app)'
    BY <1>0, <1>1 DEF Shapes, CreatorsExclude, Cpu
  <2> QED BY <1>0, <1>1, <1>3, <2>1, <2>2 DEF Shapes
<1>5. Quiet(t)
  <2>1. \A u \in Threads \ {t} : pc'[u] = pc[u]
    BY <1>0, <1>1 DEF Shapes
  <2>2. \A u \in Threads \ {t}, j \in Ctrls : ctrls[j].lock = u => ctrls'[j].lock = u
    BY <1>1, <1>3, PoolNullsAssumption
  <2> QED BY <1>1, <1>2, <1>3, <2>1, <2>2 DEF Quiet
<1>6. ChainInv'
  BY <1>0, <1>1 DEF ChainInv, Unused
<1> QED BY <1>0, <1>1, <1>3, <1>4, <1>5, <1>6 DEF Shapes

LEMMA GetLockKeeps ==
  ASSUME IInv, NEW t \in Threads, GetLock(t)
  PROVE  IInv'
<1>0. Shapes /\ CallOk(t) /\ ReleaseOnce /\ CtrlOf(t) \in Ctrls
  BY StepFacts DEF IInv, CallInv
<1>1. /\ Shapes' /\ Quiet(t) /\ ChainInv'
      /\ pc[t] = "get" /\ pc'[t] = "locked" /\ ctrls'[CtrlOf(t)].lock = t
      /\ UNCHANGED <<app, pools, free_pool, crit, reg, live>>
  BY <1>0, LockFacts DEF GetLock, Places
<1>2. CallOk(t)'
  BY <1>0, <1>1 DEF CallOk, Getting, Creating, Releasing, InCritical, Cpu, CtrlOf
<1>3. ReleaseOnce'
  BY <1>0, <1>1 DEF ReleaseOnce, Releasing, Quiet
<1> QED BY <1>1, <1>2, <1>3, QuietKeeps

LEMMA ReleaseLockKeeps ==
  ASSUME IInv, NEW t \in Threads, ReleaseLock(t)
  PROVE  IInv'
<1>0. Shapes /\ CallOk(t) /\ ReleaseOnce /\ pools[reg[t].pool].ctrl \in Ctrls \cup {NoCtrl}
  BY StepFacts DEF IInv, CallInv
<1> DEFINE k == pools[reg[t].pool].ctrl
<1>1. pc[t] = "release" /\ reg[t].res \in live /\ Home(reg[t].res, reg[t].pool) /\ k \in Ctrls
  BY <1>0 DEF ReleaseLock, Lock, At, CallOk, Releasing, Home, Owned
<1>2. /\ Shapes' /\ Quiet(t) /\ ChainInv'
      /\ pc[t] = "release" /\ pc'[t] = "releasing" /\ ctrls'[k].lock = t
      /\ UNCHANGED <<app, pools, free_pool, crit, reg, live>>
  BY <1>1, LockFacts DEF ReleaseLock, Places
<1>3. CallOk(t)'
  BY <1>1, <1>2 DEF CallOk, Getting, Creating, Releasing, Home, Owned
<1>4. ReleaseOnce'
  BY <1>0, <1>2 DEF ReleaseOnce, Releasing, Quiet
<1> QED BY <1>2, <1>3, <1>4, QuietKeeps

(* acoral_get_res returns NULL for want of pools. *)
LEMMA NoMorePoolsKeeps ==
  ASSUME IInv, NEW t \in Threads, NoMorePools(t)
  PROVE  IInv'
<1>0. Shapes /\ ChainInv /\ CallInv /\ ReleaseOnce
  BY DEF IInv
<1> DEFINE k == CtrlOf(t)
<1>1. /\ UNCHANGED <<app, pools, free_pool, heap, reg, live, calls>>
      /\ ctrls' = [ctrls EXCEPT ![k] = [ctrls[k] EXCEPT !.lock = NoThread]]
      /\ crit' = [crit EXCEPT ![Cpu[t]] = NoThread] /\ pc' = [pc EXCEPT ![t] = "rest"]
      /\ pc[t] = "locked" /\ CanRun(t)
  BY DEF NoMorePools, NeedPool, At, GetFails, Unlocked, ExitCritical, GoTo
<1>2. Cpu[t] \in Cpus /\ k \in Ctrls /\ \A j \in Ctrls : ctrls[j].ready
  BY <1>1, StepFacts
<1>3. ctrls[k].lock = t
  BY <1>0, <1>1 DEF CallInv, CallOk, Creating
<1>4. /\ ctrls' \in [Ctrls -> CtrlRecs] /\ \A j \in Ctrls : SameLists(j)
      /\ \A j \in Ctrls : ctrls'[j].lock = IF j = k THEN NoThread ELSE ctrls[j].lock
  <2>1. LockSet(k, NoThread)
    BY <1>0, <1>1, <1>2, LockStep DEF Shapes
  <2> QED BY <2>1 DEF LockSet
<1>5. Shapes'
  <2>1. crit' \in [Cpus -> Threads \cup {NoThread}] /\ pc' \in [Threads -> Places]
    BY <1>0, <1>1, <1>2 DEF Shapes, Places
  <2>2. CreatorsExclude(app)'
    BY <1>0, <1>1 DEF Shapes, CreatorsExclude, Cpu
  <2> QED BY <1>0, <1>1, <1>4, <2>1, <2>2 DEF Shapes
<1>6. Quiet(t)
  <2>1. \A u \in Threads \ {t} : pc'[u] = pc[u]
    BY <1>0, <1>1 DEF Shapes
  <2>2. \A u \in Threads \ {t}, j \in Ctrls : ctrls[j].lock = u => ctrls'[j].lock = u
    BY <1>3, <1>4
  <2>3. \A c \in Cpus \ {Cpu[t]} : crit'[c] = crit[c]
    BY <1>0, <1>1, <1>2 DEF Shapes
  <2> HIDE DEF k
  <2> QED BY <1>1, <1>2, <1>4, <2>1, <2>2, <2>3 DEF Quiet
<1>7. ChainInv'
  BY <1>0, <1>1 DEF ChainInv, Unused
<1>8. pc'[t] = "rest"
  BY <1>0, <1>1 DEF Shapes
<1>9. CallOk(t)'
  BY <1>8 DEF CallOk, Getting, Creating, Releasing
<1>10. ReleaseOnce'
  BY <1>0, <1>1, <1>6, <1>8 DEF ReleaseOnce, Releasing, Quiet
<1> QED BY <1>5, <1>6, <1>7, <1>9, <1>10, QuietKeeps

(* acoral_get_free_pool reads acoral_free_res_pool. *)
LEMMA ReadFreePoolKeeps ==
  ASSUME IInv, NEW t \in Threads, ReadFreePool(t)
  PROVE  IInv'
<1>0. Shapes /\ ChainInv /\ CallInv /\ ReleaseOnce
  BY DEF IInv
<1>1. /\ UNCHANGED <<app, pools, free_pool, heap, ctrls, crit, live, calls>>
      /\ reg' = [reg EXCEPT ![t].pool = free_pool.n] /\ pc' = [pc EXCEPT ![t] = "pop"]
      /\ pc[t] = "locked" /\ CanRun(t) /\ free_pool.to = "pool"
      /\ ctrls[CtrlOf(t)].num < app.ctrls[CtrlOf(t)].max
  BY DEF ReadFreePool, NeedPool, At, GoTo
<1>2. free_pool = PoolPtr(free_pool.n) /\ free_pool.n \in PoolIds
  BY <1>0, <1>1 DEF ChainInv, Null, Unused
<1>3. \A k \in Ctrls : ctrls[k].ready
  BY <1>1, StepFacts
<1>4. reg' \in [Threads -> Regs] /\ reg'[t].pool = free_pool.n /\ \A u \in Threads \ {t} : reg'[u] = reg[u]
  BY <1>0, <1>1, <1>2 DEF Shapes, Regs
<1>5. /\ pc' \in [Threads -> Places] /\ pc'[t] = "pop" /\ \A u \in Threads \ {t} : pc'[u] = pc[u]
  BY <1>0, <1>1 DEF Shapes, Places
<1>6. Shapes'
  <2>1. CreatorsExclude(app)'
    BY <1>0, <1>1 DEF Shapes, CreatorsExclude, Cpu
  <2> QED BY <1>0, <1>1, <1>4, <1>5, <2>1 DEF Shapes
<1>7. Quiet(t)
  BY <1>1, <1>3, <1>4, <1>5 DEF Quiet, SameLists
<1>8. ChainInv'
  BY <1>0, <1>1 DEF ChainInv, Unused
<1>9. CallOk(t)'
  <2>1. CallOk(t)
    BY <1>0 DEF CallInv
  <2> QED BY <1>1, <1>2, <1>4, <1>5, <2>1 DEF CallOk, Getting, Creating, Releasing, InCritical, Cpu, CtrlOf
<1>10. ReleaseOnce'
  BY <1>0, <1>4, <1>5 DEF ReleaseOnce, Releasing
<1> QED BY <1>6, <1>7, <1>8, <1>9, <1>10, QuietKeeps

(* What two links of the chain of unused pools lead to. *)
LEMMA NextUnused ==
  ASSUME Shapes, ChainInv, free_pool.to = "pool", NEW new, new = Deref(pools[free_pool.n].base_adr)
  PROVE  /\ free_pool = PoolPtr(free_pool.n) /\ Unused(free_pool.n)
         /\ new \in Pointers
         /\ \/ new = Null
            \/ /\ new = PoolPtr(new.n) /\ Unused(new.n) /\ free_pool.n < new.n
               /\ \A p \in PoolIds : p >= new.n => pools[p] = PoolsInit[p]
<1> DEFINE f == free_pool.n
<1>1. /\ free_pool = PoolPtr(f) /\ Unused(f)
      /\ \A p \in PoolIds : p >= f => pools[p] = PoolsInit[p]
  BY DEF ChainInv, Null
<1>2. MaxPools \in Nat /\ MaxPools % 2 = 0 /\ f \in Nat /\ f <= MaxPools - 1 /\ f % 2 = 0
  BY <1>1, PoolIdsFit DEF Unused
<1> HIDE DEF f
<1>3. f # MaxPools - 1 /\ f + 1 <= MaxPools - 1
  BY <1>2
<1>4. f + 1 \in PoolIds /\ f \in PoolIds /\ f + 1 >= f
  BY <1>2, <1>3 DEF PoolIds
<1>5. pools[f].base_adr = PoolPtr(f + 1)
  BY <1>1, <1>3, <1>4 DEF Unused, PoolsInit
<1>6. pools[f + 1] = PoolsInit[f + 1]
  BY <1>1, <1>4
<1>7. new = pools[f + 1].base_adr
  BY <1>5 DEF Deref, PoolPtr, f
<1>8. CASE f + 1 = MaxPools - 1
  <2>1. new = Null
    BY <1>4, <1>6, <1>7, <1>8 DEF PoolsInit
  <2> QED BY <1>1, <2>1 DEF Null, Pointers, f
<1>9. CASE f + 1 # MaxPools - 1
  <2>1. new = PoolPtr(f + 1 + 1)
    BY <1>4, <1>6, <1>7, <1>9 DEF PoolsInit
  <2>2. new.n = f + 1 + 1 /\ new \in Pointers
    BY <1>2, <2>1 DEF PoolPtr, Pointers
  <2>3. PICK g \in PoolIds : g = f + 1 + 1 /\ g % 2 = 0 /\ f < g
    BY <1>2, <1>3, <1>9 DEF PoolIds
  <2>4. \A p \in PoolIds : p >= g => p >= f
    BY <1>2, <2>3, PoolIdsFit
  <2>5. pools[g] = PoolsInit[g] /\ \A p \in PoolIds : p >= g => pools[p] = PoolsInit[p]
    <3>1. g >= g
      BY PoolIdsFit
    <3> QED BY <1>1, <2>4, <3>1
  <2>6. new = PoolPtr(g) /\ new.n = g
    BY <2>1, <2>2, <2>3
  <2>7. Unused(g)
    BY <2>3, <2>5 DEF Unused
  <2> QED BY <1>1, <2>2, <2>3, <2>5, <2>6, <2>7 DEF f
<1> QED BY <1>8, <1>9

(* acoral_get_free_pool moves acoral_free_res_pool on. *)
LEMMA PopFreePoolKeeps ==
  ASSUME IInv, NEW t \in Threads, PopFreePool(t)
  PROVE  IInv'
<1>0. Shapes /\ ChainInv /\ CallOk(t) /\ ReleaseOnce
  BY DEF IInv, CallInv
<1>1. /\ UNCHANGED <<app, pools, heap, ctrls, crit, reg, live, calls>>
      /\ free_pool' = Deref(pools[reg[t].pool].base_adr)
      /\ pc' = [pc EXCEPT ![t] = "create"] /\ pc[t] = "pop" /\ CanRun(t)
  BY DEF PopFreePool, At, GoTo
<1>2. free_pool = PoolPtr(reg[t].pool)
  BY <1>0, <1>1 DEF CallOk
<1>3. free_pool.to = "pool" /\ free_pool.n = reg[t].pool
  BY <1>2 DEF PoolPtr
<1> DEFINE new == Deref(pools[free_pool.n].base_adr)
<1>4. free_pool' = new
  BY <1>1, <1>3
<1> HIDE DEF new
<1>5. /\ Unused(reg[t].pool) /\ new \in Pointers
      /\ \/ new = Null
         \/ /\ new = PoolPtr(new.n) /\ Unused(new.n) /\ free_pool.n < new.n
            /\ \A p \in PoolIds : p >= new.n => pools[p] = PoolsInit[p]
  BY <1>0, <1>3, NextUnused DEF new
<1>6. /\ pc' \in [Threads -> Places] /\ pc'[t] = "create" /\ \A u \in Threads \ {t} : pc'[u] = pc[u]
  BY <1>0, <1>1 DEF Shapes, Places
<1>7. Shapes'
  <2>1. CreatorsExclude(app)'
    BY <1>0, <1>1 DEF Shapes, CreatorsExclude, Cpu
  <2> QED BY <1>0, <1>1, <1>4, <1>5, <1>6, <2>1 DEF Shapes
<1>8. Quiet(t)
  <2>1. \A k \in Ctrls : ctrls[k].ready
    BY <1>1, StepFacts
  <2> QED BY <1>1, <1>6, <2>1 DEF Quiet, SameLists, Creating
<1>9. ChainInv'
  BY <1>1, <1>4, <1>5 DEF ChainInv, Unused
<1>10. CallOk(t)'
  BY <1>0, <1>1, <1>3, <1>4, <1>5, <1>6
     DEF CallOk, Getting, Creating, Releasing, InCritical, Cpu, CtrlOf, Unused
<1>11. ReleaseOnce'
  BY <1>0, <1>1, <1>6 DEF ReleaseOnce, Releasing
<1> QED BY <1>7, <1>8, <1>9, <1>10, <1>11, QuietKeeps

(* What the id of a resource in use tells. *)
LEMMA LiveWord ==
  ASSUME Shapes, PoolsInv, NEW res \in live, NEW p, Home(res, p)
  PROVE  /\ res = <<pools[p].base_adr, res[2]>> /\ res[2] \in Held(p)
         /\ PoolIndex(WordAt(res)) = p /\ ResIndex(WordAt(res)) = res[2]
         /\ ResType(WordAt(res)) = app.ctrls[pools[p].ctrl].type
         /\ pools[p].ctrl \in Ctrls
<1>1. /\ p \in PoolIds /\ Owned(p) /\ pools[p].base_adr = res[1] /\ res[2] \in 0 .. pools[p].num - 1
      /\ res \in Pointers \X Nat
  BY DEF Home, Shapes
<1>2. PoolInv(p)
  BY <1>1 DEF PoolsInv
<1>3. res = <<pools[p].base_adr, res[2]>>
  BY <1>1
<1>4. res[2] \in Held(p)
  BY <1>1, <1>3 DEF Held
<1>5. pools[p].ctrl \in Ctrls
  BY <1>1 DEF Shapes, PoolRecs, Owned
<1> DEFINE type == app.ctrls[pools[p].ctrl].type
           num == pools[p].num
<1>6. type \in Nat /\ type < 16 /\ p \in Nat /\ p < 1024
  BY <1>1, <1>5, AppFacts, PoolIdsFit DEF Shapes
<1>7. num \in Nat /\ num <= 1024 /\ pools[p].id = PoolWord(type, p)
      /\ WordsOk(num, heap[Block(p)], Held(p), pools[p].id)
  BY <1>1, <1>2 DEF PoolInv, ListOk, Shapes, PoolRecs
<1>8. WordAt(res) = heap[Block(p)][res[2]]
  BY <1>1 DEF WordAt, Block
<1> HIDE DEF type, num
<1>9. IsId(WordAt(res), res[2], PoolWord(type, p))
  BY <1>1, <1>4, <1>7, <1>8 DEF WordsOk, num
<1>10. res[2] \in Nat /\ res[2] < 1024
  BY <1>1, <1>7 DEF num
<1>11. /\ PoolIndex(WordAt(res)) = p /\ ResIndex(WordAt(res)) = res[2] /\ ResType(WordAt(res)) = type
  <2>1. PICK i \in Nat : i = res[2]
    BY <1>10
  <2>2. PICK ty \in Nat : ty = type
    BY <1>6
  <2>3. PICK q \in Nat : q = p
    BY <1>6
  <2>4. i < 1024 /\ ty < 16 /\ q < 1024
    BY <1>6, <1>10, <2>1, <2>2, <2>3
  <2>6. PICK w : w = WordAt(res)
    OBVIOUS
  <2>7. IsId(w, i, PoolWord(ty, q))
    BY <1>9, <2>1, <2>2, <2>3, <2>6
  <2>5. PoolIndex(w) = q /\ ResIndex(w) = i /\ ResType(w) = ty
    BY <2>4, <2>7, IdParts
  <2> QED BY <2>1, <2>2, <2>3, <2>5, <2>6
<1> QED BY <1>3, <1>4, <1>5, <1>11 DEF type

(* acoral_release_res finds the pool of its resource. *)
LEMMA ReleaseKeeps ==
  ASSUME IInv, NEW t \in Threads, NEW res \in live, Release(t, res)
  PROVE  IInv'
<1>0. Shapes /\ PoolsInv /\ LiveInv /\ ChainInv /\ CallOk(t) /\ ReleaseOnce
  BY DEF IInv, CallInv
<1>1. /\ UNCHANGED <<app, pools, free_pool, heap, ctrls, live>>
      /\ reg' = [reg EXCEPT ![t] = [pool |-> PoolIndex(WordAt(res)), res |-> res]]
      /\ crit' = [crit EXCEPT ![Cpu[t]] = t] \/ crit' = crit
      /\ pc' = [pc EXCEPT ![t] = "release"] /\ pc[t] = "rest" /\ CanRun(t)
      /\ calls' = [calls EXCEPT ![t] = @ + 1] /\ calls[t] < MaxCalls
      /\ \A k \in Ctrls : ctrls[k].ready
      /\ \A u \in Threads : pc[u] \in Releasing => reg[u].res # res
  BY DEF Release, MayCall, At, EnterCritical, GoTo
<1>2. PICK p \in PoolIds : Home(res, p)
  BY <1>0 DEF LiveInv
<1>3. PoolIndex(WordAt(res)) = p
  BY <1>0, <1>2, LiveWord
<1>4. Cpu[t] \in Cpus
  BY StepFacts
<1>5. /\ reg' \in [Threads -> Regs] /\ reg'[t].pool = p /\ reg'[t].res = res
      /\ \A u \in Threads \ {t} : reg'[u] = reg[u]
  <2>1. [pool |-> p, res |-> res] \in Regs
    BY <1>0 DEF Shapes, Regs
  <2> QED BY <1>0, <1>1, <1>3, <2>1 DEF Shapes
<1>6. /\ pc' \in [Threads -> Places] /\ pc'[t] = "release" /\ \A u \in Threads \ {t} : pc'[u] = pc[u]
  BY <1>0, <1>1 DEF Shapes, Places
<1>7. Shapes'
  <2>1. crit' \in [Cpus -> Threads \cup {NoThread}]
    BY <1>0, <1>1, <1>4 DEF Shapes
  <2>2. calls' \in [Threads -> 0 .. MaxCalls]
    BY <1>0, <1>1, PoolCallsAssumption DEF Shapes
  <2>3. CreatorsExclude(app)'
    BY <1>0, <1>1 DEF Shapes, CreatorsExclude, Cpu
  <2> QED BY <1>0, <1>1, <1>5, <1>6, <2>1, <2>2, <2>3 DEF Shapes
<1>8. Quiet(t)
  <2>1. \A c \in Cpus \ {Cpu[t]} : crit'[c] = crit[c]
    BY <1>0, <1>1, <1>4 DEF Shapes
  <2> QED BY <1>1, <1>5, <1>6, <2>1 DEF Quiet, SameLists
<1>9. ChainInv'
  BY <1>0, <1>1 DEF ChainInv, Unused
<1>10. CallOk(t)'
  <2>1. Home(res, p)'
    BY <1>1, <1>2 DEF Home, Owned
  <2> QED BY <1>1, <1>5, <1>6, <2>1 DEF CallOk, Getting, Creating, Releasing
<1>11. ReleaseOnce'
  <2>1. ASSUME NEW u \in Threads, NEW v \in Threads, u # v, pc'[u] \in Releasing, pc'[v] \in Releasing
        PROVE  reg'[u].res # reg'[v].res
    <3>1. CASE u = t
      BY <1>1, <1>5, <1>6, <2>1, <3>1
    <3>2. CASE v = t
      BY <1>1, <1>5, <1>6, <2>1, <3>2
    <3>3. CASE u # t /\ v # t
      BY <1>0, <1>5, <1>6, <2>1, <3>3 DEF ReleaseOnce
    <3> QED BY <3>1, <3>2, <3>3
  <2> QED BY <2>1 DEF ReleaseOnce
<1> QED BY <1>7, <1>8, <1>9, <1>10, <1>11, QuietKeeps

(* A step of t that changes pools, lists or resources: what is left to     *)
(* show of the other threads.                                              *)
LEMMA OthersKeep ==
  ASSUME Shapes, CallInv, ChainInv, IInv, NEW t \in Threads, app' = app, CanRun(t),
         \A u \in Threads \ {t} : pc'[u] = pc[u] /\ reg'[u] = reg[u],
         \A c \in Cpus \ {Cpu[t]} : crit'[c] = crit[c],
         \A u \in Threads \ {t}, k \in Ctrls : ctrls[k].lock = u => ctrls'[k].lock = u,
         free_pool' = free_pool,
         pc[t] \notin Creating =>
           /\ \A k \in Ctrls : ctrls'[k].num = ctrls[k].num
           /\ \A p \in PoolIds : ~Owned(p) => pools'[p] = pools[p],
         \A p \in PoolIds : Owned(p) => /\ pools'[p].ctrl = pools[p].ctrl
                                        /\ pools'[p].base_adr = pools[p].base_adr
                                        /\ pools'[p].num = pools[p].num,
         \A u \in Threads \ {t} : pc[u] \in Releasing => reg[u].res \in live'
  PROVE  \A u \in Threads \ {t} : CallOk(u)'
<1> SUFFICES ASSUME NEW u \in Threads, u # t PROVE CallOk(u)'
  OBVIOUS
<1>1. CallOk(u)
  BY DEF CallInv
<1>2. pc'[u] = pc[u] /\ reg'[u] = reg[u]
  OBVIOUS
<1>3. /\ CtrlOf(u) \in Ctrls /\ reg[u].pool \in PoolIds /\ Cpu[u] \in Cpus
      /\ pools[reg[u].pool].ctrl \in Ctrls \cup {NoCtrl}
  BY StepFacts
<1>4. InCritical(u) => InCritical(u)'
  <2>1. InCritical(u) => Cpu[u] # Cpu[t]
    BY Alone
  <2>2. Cpu' = Cpu
    BY DEF Cpu
  <2> QED BY <1>3, <2>1, <2>2 DEF InCritical
<1>5. pc[u] \in {"pop", "create"} => pc[t] \notin Creating
  BY OneCreator DEF Creating
<1>6. pc[u] = "create" => pools'[reg[u].pool] = pools[reg[u].pool]
  <2>1. pc[u] = "create" => ~Owned(reg[u].pool)
    BY <1>1 DEF CallOk, Unused, PoolsInit, Owned
  <2> QED BY <1>3, <1>5, <2>1
<1>7. pc[u] \in Releasing => Owned(reg[u].pool)
  BY <1>1 DEF CallOk, Home
<1>8. \A k \in Ctrls : ctrls[k].lock = u => ctrls'[k].lock = u
  OBVIOUS
<1>9. pc[u] \in {"pop", "create"} => ctrls'[CtrlOf(u)].num = ctrls[CtrlOf(u)].num
  BY <1>3, <1>5
<1>10. pc[u] \in Releasing =>
           /\ reg[u].res \in live'
           /\ pools'[reg[u].pool].ctrl = pools[reg[u].pool].ctrl
           /\ pools'[reg[u].pool].base_adr = pools[reg[u].pool].base_adr
           /\ pools'[reg[u].pool].num = pools[reg[u].pool].num
  BY <1>3, <1>7
<1> QED BY <1>1, <1>2, <1>3, <1>4, <1>6, <1>8, <1>9, <1>10, OthersOk

(* A pool's resources in use depend on its own block only. *)
LEMMA HeldKept ==
  ASSUME NEW p, NEW b, pools'[p].num = pools[p].num, pools'[p].base_adr = pools[p].base_adr,
         \A res : res[1] # b => (res \in live' <=> res \in live), pools[p].base_adr # b
  PROVE  Held(p)' = Held(p)
<1>1. \A i : <<pools[p].base_adr, i>> \in live' <=> <<pools[p].base_adr, i>> \in live
  <2> SUFFICES ASSUME NEW i
               PROVE  <<pools[p].base_adr, i>> \in live' <=> <<pools[p].base_adr, i>> \in live
    OBVIOUS
  <2>1. <<pools[p].base_adr, i>>[1] # b
    OBVIOUS
  <2> QED BY <2>1
<1> QED BY <1>1 DEF Held

(* A step inside one pool: what is left to show of the pools. *)
LEMMA OnePool ==
  ASSUME Shapes, OwnInv, PoolsInv, LiveInv, NEW p \in PoolIds, Owned(p), app' = app,
         \A q \in PoolIds \ {p} : pools'[q] = pools[q],
         pools'[p].ctrl = pools[p].ctrl, pools'[p].base_adr = pools[p].base_adr,
         pools'[p].num = pools[p].num,
         Len(heap) \in Nat, Len(heap') = Len(heap),
         \A c \in 1 .. Len(heap) : c # Block(p) => heap'[c] = heap[c],
         \A res : res[1] # pools[p].base_adr => (res \in live' <=> res \in live),
         \A res \in live' : res \in live \/ (res[1] = pools[p].base_adr /\ res[2] \in 0 .. pools[p].num - 1),
         \A k \in Ctrls : ctrls'[k].total_pools = ctrls[k].total_pools,
         PoolInv(p)'
  PROVE  OwnInv' /\ PoolsInv' /\ LiveInv'
<1>1. \A q \in PoolIds : /\ pools'[q].ctrl = pools[q].ctrl /\ pools'[q].base_adr = pools[q].base_adr
                         /\ pools'[q].num = pools[q].num
  OBVIOUS
<1>2. \A q \in PoolIds : (Owned(q)' <=> Owned(q)) /\ Block(q)' = Block(q)
  BY <1>1 DEF Owned, Block
<1>3. OwnInv'
  <2>1. (\A q \in PoolIds : Owned(q) <=> pools[q].base_adr.to = "block")'
    BY <1>1, <1>2 DEF OwnInv
  <2>2. (\A q \in PoolIds, k \in Ctrls : q \in Members(ctrls[k].total_pools) <=> pools[q].ctrl = k)'
    BY <1>1 DEF OwnInv
  <2>3. (\A q \in PoolIds : ~Owned(q) => pools[q].free_num = 0 /\ pools[q].res_free = 0)'
    BY <1>2 DEF OwnInv
  <2>4. (\A q, r \in PoolIds : Owned(q) /\ Owned(r) /\ Block(q) = Block(r) => q = r)'
    BY <1>2 DEF OwnInv
  <2> QED BY <2>1, <2>2, <2>3, <2>4 DEF OwnInv
<1>4. ASSUME NEW q \in PoolIds, q # p, Owned(q)' PROVE PoolInv(q)'
  <2>1. Owned(q) /\ Block(q) # Block(p)
    BY <1>2, <1>4 DEF OwnInv
  <2>2. pools[q].base_adr # pools[p].base_adr
    BY <2>1 DEF Block
  <2>3. Held(q)' = Held(q)
    BY <1>1, <2>2, HeldKept
  <2>4. PoolInv(q) /\ pools'[q] = pools[q] /\ heap'[Block(q)] = heap[Block(q)]
    <3>1. PoolInv(q) /\ pools'[q] = pools[q]
      BY <1>4, <2>1 DEF PoolsInv
    <3>2. Block(q) \in 1 .. Len(heap)
      BY <3>1 DEF PoolInv
    <3> QED BY <2>1, <3>1, <3>2
  <2> QED BY <2>3, <2>4, PoolKept
<1>5. PoolsInv'
  BY <1>4 DEF PoolsInv
<1>6. LiveInv'
  <2>1. ASSUME NEW res \in live' PROVE \E q \in PoolIds : Home(res, q)'
    <3>1. CASE res \in live
      <4>1. PICK q \in PoolIds : Home(res, q)
        BY <3>1 DEF LiveInv
      <4>2. Home(res, q)'
        BY <1>1, <4>1 DEF Home, Owned
      <4> QED BY <4>2
    <3>2. CASE res[1] = pools[p].base_adr /\ res[2] \in 0 .. pools[p].num - 1
      <4>1. Home(res, p)'
        BY <1>1, <1>2, <3>2 DEF Home
      <4> QED BY <4>1
    <3> QED BY <3>1, <3>2
  <2> QED BY <2>1 DEF LiveInv
<1> QED BY <1>3, <1>5, <1>6

(* Storing a word in a block. *)
SetWord(words, i, w) == [words EXCEPT ![i] = w]
Stored(blocks, b, i, w) == [blocks EXCEPT ![b][i] = w]
LEMMA HeapStore ==
  ASSUME heap \in Seq(Blocks), NEW b \in 1 .. Len(heap), NEW num \in Nat,
         heap[b] \in [0 .. num - 1 -> Nat], NEW i \in 0 .. num - 1, NEW w \in Nat,
         heap' = Stored(heap, b, i, w)
  PROVE  /\ heap' \in Seq(Blocks) /\ Len(heap') = Len(heap) /\ Len(heap) \in Nat
         /\ heap'[b] = SetWord(heap[b], i, w)
         /\ \A c \in 1 .. Len(heap) : c # b => heap'[c] = heap[c]
<1> DEFINE new == SetWord(heap[b], i, w)
<1>1. new \in [0 .. num - 1 -> Nat]
  BY DEF SetWord
<1>2. new \in Blocks
  BY <1>1 DEF Blocks
<1>3. heap' = [heap EXCEPT ![b] = new]
  BY DEF Stored, SetWord
<1> HIDE DEF new
<1>4. heap' \in Seq(Blocks) /\ Len(heap') = Len(heap) /\ Len(heap) \in Nat
  <2>1. Len(heap) \in Nat
    BY LenProperties
  <2> DEFINE r == [heap EXCEPT ![b] = new]
  <2>2. r \in Seq(Blocks) /\ Len(r) = Len(heap)
    BY <1>2, ExceptSeq
  <2> QED BY <1>3, <2>1, <2>2
<1>5. heap'[b] = new /\ \A c \in 1 .. Len(heap) : c # b => heap'[c] = heap[c]
  <2>1. DOMAIN heap = 1 .. Len(heap)
    BY LenProperties
  <2> QED BY <1>3, <2>1
<1> QED BY <1>4, <1>5 DEF new

(* acoral_get_res takes a resource. *)
LEMMA TakeKeeps ==
  ASSUME IInv, NEW t \in Threads, Take(t)
  PROVE  IInv'
<1>0. /\ Shapes /\ OwnInv /\ PoolsInv /\ LiveInv /\ CtrlInv
      /\ BootInv /\ ChainInv /\ CallInv /\ ReleaseOnce
  BY DEF IInv
<1>a. PICK k : k = CtrlOf(t)
  OBVIOUS
<1>b. PICK free : free = ctrls[k].free_pools
  OBVIOUS
<1>c. PICK p, b, i, word, n, num, id :
        /\ p = Head(free) /\ b = pools[p].base_adr.n /\ i = pools[p].res_free /\ word = heap[b][i]
        /\ n = pools[p].free_num /\ num = pools[p].num /\ id = pools[p].id
  OBVIOUS
<1> DEFINE pool == [pools[p] EXCEPT !.res_free = NextId(word), !.free_num = n - 1]
<1>d. Taken(pools[p], word) = pool
  BY <1>c DEF Taken
<1>1. /\ pc[t] = "locked" /\ CanRun(t) /\ free # << >>
      /\ pools' = [pools EXCEPT ![p] = pool]
      /\ heap' = [heap EXCEPT ![b][i] = ResId(word, id)]
      /\ ctrls' = [ctrls EXCEPT ![k].free_pools = StillFree(@, pool.free_num), ![k].lock = NoThread]
      /\ live' = live \cup {<<BlockPtr(b), i>>}
      /\ crit' = [crit EXCEPT ![Cpu[t]] = NoThread] /\ pc' = [pc EXCEPT ![t] = "rest"]
      /\ UNCHANGED <<app, free_pool, reg, calls>>
  <2> HIDE DEF pool
  <2> QED BY <1>a, <1>b, <1>c, <1>d DEF Take, At, ExitCritical, GoTo
<1>2. Cpu[t] \in Cpus /\ k \in Ctrls /\ (\A j \in Ctrls : ctrls[j].ready) /\ Len(heap) \in Nat
  BY <1>a, <1>1, StepFacts
<1>3. free \in Seq(PoolIds) /\ CtrlOk(k) /\ Once(free)
  BY <1>0, <1>b, <1>2 DEF Shapes, CtrlRecs, CtrlInv, CtrlOk
<1>4. /\ p \in Members(free) /\ Tail(free) \in Seq(PoolIds)
      /\ Members(Tail(free)) = Members(free) \ {p} /\ Once(Tail(free))
  BY <1>c, <1>1, <1>3, TailMembers
<1>5. p \in PoolIds
  BY <1>3, <1>4, MembersOf
<1>6. pools[p].ctrl = k /\ n > 0 /\ Owned(p)
  <2>1. p \in Members(ctrls[k].free_pools)
    BY <1>b, <1>4
  <2>2. pools[p].ctrl = k /\ pools[p].free_num > 0
    BY <1>3, <1>5, <2>1 DEF CtrlOk
  <2>3. n = pools[p].free_num
    BY <1>c
  <2>4. k # NoCtrl
    BY <1>2, PoolNullsAssumption
  <2> QED BY <2>2, <2>3, <2>4 DEF Owned
<1>7. /\ pools[p] \in PoolRecs /\ num \in Nat /\ n \in Nat /\ id \in Nat /\ i \in Nat
      /\ pools[p].base_adr \in Pointers
  BY <1>0, <1>c, <1>5 DEF Shapes, PoolRecs
<1>8. PoolInv(p)
  BY <1>0, <1>5, <1>6 DEF PoolsInv
<1>9. pools[p].base_adr = BlockPtr(b)
  BY <1>0, <1>c, <1>5, <1>6, <1>7 DEF OwnInv, BlockPtr, Pointers
<1>10. /\ b \in 1 .. Len(heap) /\ num > 0 /\ num <= 1024
       /\ id = PoolWord(app.ctrls[k].type, p) /\ ListOk(num, i, n, heap[b], Held(p), id)
  BY <1>c, <1>6, <1>8 DEF PoolInv, Block
<1>11. i \in 0 .. num - 1 /\ heap[b] \in [0 .. num - 1 -> Nat]
  <2>1. heap[b] \in [0 .. num - 1 -> Nat]
    BY <1>10 DEF ListOk, WordsOk
  <2>2. PICK words, held : words = heap[b] /\ held = Held(p)
    OBVIOUS
  <2>3. PICK L : ChainOk(num, i, n, words, held, L)
    BY <1>10, <2>2 DEF ListOk
  <2>4. i \in 0 .. num - 1
    BY <1>6, <1>7, <2>3, ChainFirst
  <2> QED BY <2>1, <2>4
<1>12. PICK words, held, new : words = heap[b] /\ held = Held(p) /\ new = TakenWords(words, i, id)
  OBVIOUS
<1>13. /\ i \notin held /\ word \in Nat /\ ResId(word, id) \in Nat
       /\ ListOk(num, NextId(word), n - 1, new, held \cup {i}, id)
  <2>1. ListOk(num, i, n, words, held, id) /\ word = words[i]
    BY <1>c, <1>10, <1>12
  <2>2. /\ i \notin held /\ words[i] \in Nat /\ ResId(words[i], id) \in Nat
        /\ ListOk(num, NextId(words[i]), n - 1, TakenWords(words, i, id), held \cup {i}, id)
    <3>1. num \in Nat /\ num > 0 /\ num <= 1024 /\ n \in Nat /\ n > 0 /\ id \in Nat
      BY <1>6, <1>7, <1>10
    <3>2. ListOk(num, i, n, words, held, id)
      BY <2>1
    <3> QED BY <3>1, <3>2, ListTake
  <2> QED BY <1>12, <2>1, <2>2
<1>14. NextId(word) \in Nat
  BY <1>13 DEF ListOk, Short
<1>15. /\ heap' \in Seq(Blocks) /\ Len(heap') = Len(heap) /\ heap'[b] = new
       /\ \A c \in 1 .. Len(heap) : c # b => heap'[c] = heap[c]
  <2>1. PICK w \in Nat : w = ResId(word, id)
    BY <1>13
  <2>2. heap \in Seq(Blocks) /\ heap' = Stored(heap, b, i, w)
    BY <1>0, <1>1, <2>1 DEF Shapes, Stored
  <2>3. /\ heap' \in Seq(Blocks) /\ Len(heap') = Len(heap) /\ heap'[b] = SetWord(heap[b], i, w)
        /\ \A c \in 1 .. Len(heap) : c # b => heap'[c] = heap[c]
    <3>1. PICK c \in 1 .. Len(heap) : c = b
      BY <1>10
    <3>2. PICK m \in Nat : m = num
      BY <1>7
    <3>3. PICK r \in 0 .. m - 1 : r = i
      BY <1>11, <3>2
    <3>4. heap[c] \in [0 .. m - 1 -> Nat] /\ heap \in Seq(Blocks) /\ heap' = Stored(heap, c, r, w)
      BY <1>11, <2>2, <3>1, <3>2, <3>3
    <3>5. /\ heap' \in Seq(Blocks) /\ Len(heap') = Len(heap) /\ heap'[c] = SetWord(heap[c], r, w)
          /\ \A d \in 1 .. Len(heap) : d # c => heap'[d] = heap[d]
      BY <3>4, HeapStore
    <3> QED BY <3>1, <3>3, <3>5
  <2>4. new = SetWord(heap[b], i, w)
    BY <1>c, <1>12, <2>1 DEF TakenWords, SetWord
  <2> QED BY <2>3, <2>4
<1>16. /\ pools' \in [PoolIds -> PoolRecs] /\ \A q \in PoolIds \ {p} : pools'[q] = pools[q]
       /\ pools'[p].ctrl = k /\ pools'[p].base_adr = BlockPtr(b) /\ pools'[p].num = num
       /\ pools'[p].id = id /\ pools'[p].res_free = NextId(word) /\ pools'[p].free_num = n - 1
  <2>1. NextId(word) \in Nat /\ n - 1 \in Nat
    BY <1>6, <1>7, <1>14
  <2>2. pools' = [pools EXCEPT ![p] = [pools[p] EXCEPT !.res_free = NextId(word), !.free_num = n - 1]]
    BY <1>1
  <2>3. pools[p].num = num /\ pools[p].id = id
    BY <1>c
  <2> QED BY <1>0, <1>5, <1>6, <1>7, <1>9, <2>1, <2>2, <2>3 DEF Shapes, PoolRecs
<1> DEFINE left == IF n - 1 = 0 THEN Tail(free) ELSE free
<1>17. /\ ctrls' \in [Ctrls -> CtrlRecs] /\ ctrls'[k].free_pools = left /\ ctrls'[k].lock = NoThread
       /\ ctrls'[k].num = ctrls[k].num /\ ctrls'[k].total_pools = ctrls[k].total_pools
       /\ ctrls'[k].num_per_pool = ctrls[k].num_per_pool /\ ctrls'[k].ready = ctrls[k].ready
       /\ \A j \in Ctrls \ {k} : ctrls'[j] = ctrls[j]
  <2>1. left \in Seq(PoolIds) /\ StillFree(free, n - 1) = left
    BY <1>3, <1>4 DEF StillFree
  <2>2. ctrls' = [ctrls EXCEPT ![k].free_pools = StillFree(free, n - 1), ![k].lock = NoThread]
    <3>1. pool.free_num = n - 1
      BY <1>7 DEF PoolRecs
    <3> QED BY <1>b, <1>1, <3>1
  <2> HIDE DEF left
  <2> QED BY <1>0, <1>2, <2>1, <2>2 DEF Shapes, CtrlRecs
<1>18. /\ pc' \in [Threads -> Places] /\ pc'[t] = "rest" /\ \A u \in Threads \ {t} : pc'[u] = pc[u]
  BY <1>0, <1>1 DEF Shapes, Places
<1>19. Shapes'
  <2>1. crit' \in [Cpus -> Threads \cup {NoThread}]
    BY <1>0, <1>1, <1>2 DEF Shapes
  <2>2. CreatorsExclude(app)'
    BY <1>0, <1>1 DEF Shapes, CreatorsExclude, Cpu
  <2>3. live' \subseteq Pointers \X Nat
    BY <1>0, <1>1, <1>7, <1>9 DEF Shapes
  <2>4. app \in Apps /\ free_pool \in Pointers /\ reg \in [Threads -> Regs] /\ calls \in [Threads -> 0 .. MaxCalls]
    BY <1>0 DEF Shapes
  <2> QED BY <1>1, <1>15, <1>16, <1>17, <1>18, <2>1, <2>2, <2>3, <2>4 DEF Shapes
<1>20. Held(p)' = held \cup {i}
  <2>1. Held(p)' = {r \in 0 .. num - 1 : <<BlockPtr(b), r>> \in live'}
    BY <1>16 DEF Held
  <2>2. held = {r \in 0 .. num - 1 : <<BlockPtr(b), r>> \in live}
    BY <1>c, <1>9, <1>12 DEF Held
  <2> QED BY <1>1, <1>11, <2>1, <2>2
<1>21. PoolInv(p)'
  <2>1. Block(p)' = b /\ b \in 1 .. Len(heap')
    BY <1>10, <1>15, <1>16 DEF Block, BlockPtr
  <2>2. pools'[p].id = PoolWord(app'.ctrls[pools'[p].ctrl].type, p)
    BY <1>1, <1>10, <1>16
  <2>3. ListOk(pools'[p].num, pools'[p].res_free, pools'[p].free_num, heap'[b], Held(p)', pools'[p].id)
    BY <1>13, <1>15, <1>16, <1>20
  <2>4. pools'[p].num > 0 /\ pools'[p].num <= 1024
    BY <1>10, <1>16
  <2> QED BY <2>1, <2>2, <2>3, <2>4 DEF PoolInv
<1>22. OwnInv' /\ PoolsInv' /\ LiveInv'
  <2>1. \A res : res[1] # pools[p].base_adr => (res \in live' <=> res \in live)
    BY <1>1, <1>9
  <2>2. \A res \in live' :
          res \in live \/ (res[1] = pools[p].base_adr /\ res[2] \in 0 .. pools[p].num - 1)
    <3>1. \A res \in live' : res \in live \/ res = <<pools[p].base_adr, i>>
      BY <1>1, <1>9
    <3> QED BY <1>c, <1>11, <3>1
  <2>3. \A j \in Ctrls : ctrls'[j].total_pools = ctrls[j].total_pools
    BY <1>17
  <2>4. Block(p) = b /\ pools[p].num = num
    BY <1>c DEF Block
  <2> QED BY <1>0, <1>1, <1>2, <1>5, <1>6, <1>9, <1>15, <1>16, <1>21, <2>1, <2>2, <2>3, <2>4, OnePool
<1>23. CtrlInv'
  <2>1. CtrlOk(k)'
    <3>1. \A q \in PoolIds : q \in Members(left) <=> pools'[q].ctrl = k /\ pools'[q].free_num > 0
      <4>1. CASE n - 1 = 0
        <5>1. \A q \in PoolIds : q \in Members(Tail(free)) <=> q \in Members(free) /\ q # p
          BY <1>4
        <5>2. pools'[p].free_num = 0
          BY <1>16, <4>1
        <5> QED BY <1>b, <1>3, <1>16, <4>1, <5>1, <5>2 DEF CtrlOk
      <4>2. CASE n - 1 # 0
        <5>1. pools'[p].free_num > 0
          BY <1>6, <1>7, <1>16, <4>2
        <5> QED BY <1>b, <1>3, <1>4, <1>16, <4>2, <5>1 DEF CtrlOk
      <4> QED BY <4>1, <4>2
    <3>2. Once(left)
      BY <1>3, <1>4
    <3> HIDE DEF left
    <3> QED BY <1>1, <1>3, <1>17, <3>1, <3>2 DEF CtrlOk
  <2>2. ASSUME NEW j \in Ctrls, j # k PROVE CtrlOk(j)'
    <3>1. CtrlOk(j) /\ ctrls'[j] = ctrls[j]
      BY <1>0, <1>17, <2>2 DEF CtrlInv
    <3>2. \A q \in PoolIds : /\ pools'[q].ctrl = j <=> pools[q].ctrl = j
                             /\ pools'[q].ctrl = j => pools'[q].free_num = pools[q].free_num
      BY <1>6, <1>16, <2>2
    <3>3. \A q \in PoolIds : q \in Members(ctrls'[j].free_pools) <=> pools'[q].ctrl = j /\ pools'[q].free_num > 0
      BY <3>1, <3>2 DEF CtrlOk
    <3>4. app' = app
      BY <1>1
    <3> QED BY <3>1, <3>3, <3>4 DEF CtrlOk
  <2> QED BY <2>1, <2>2 DEF CtrlInv
<1>24. BootInv'
  BY <1>2, <1>17 DEF BootInv
<1>25. \A q \in PoolIds : ~Owned(q) => pools'[q] = pools[q]
  BY <1>6, <1>16
<1>26. ChainInv'
  <2>1. \A q \in PoolIds : pools[q] = PoolsInit[q] => pools'[q] = pools[q]
    BY <1>25 DEF PoolsInit, Owned
  <2> QED BY <1>0, <1>1, <2>1 DEF ChainInv, Unused
<1>27. ctrls[k].lock = t
  BY <1>0, <1>a, <1>1 DEF CallInv, CallOk, Creating
<1>28. CallInv'
  <2>1. CallOk(t)'
    BY <1>18 DEF CallOk, Getting, Creating, Releasing
  <2>2. \A c \in Cpus \ {Cpu[t]} : crit'[c] = crit[c]
    BY <1>0, <1>1, <1>2 DEF Shapes
  <2>3. \A u \in Threads \ {t}, j \in Ctrls : ctrls[j].lock = u => ctrls'[j].lock = u
    BY <1>17, <1>27
  <2>4. \A j \in Ctrls : ctrls'[j].num = ctrls[j].num
    BY <1>17
  <2>5. \A q \in PoolIds : Owned(q) => /\ pools'[q].ctrl = pools[q].ctrl
                                       /\ pools'[q].base_adr = pools[q].base_adr
                                       /\ pools'[q].num = pools[q].num
    BY <1>c, <1>6, <1>9, <1>16
  <2>6. \A u \in Threads \ {t} : pc[u] \in Releasing => reg[u].res \in live'
    BY <1>0, <1>1 DEF CallInv, CallOk
  <2>7. \A u \in Threads \ {t} : CallOk(u)'
    BY <1>0, <1>1, <1>18, <1>25, <2>2, <2>3, <2>4, <2>5, <2>6, OthersKeep
  <2> QED BY <2>1, <2>7 DEF CallInv
<1>29. ReleaseOnce'
  BY <1>0, <1>1, <1>18 DEF ReleaseOnce, Releasing
<1> QED BY <1>19, <1>22, <1>23, <1>24, <1>26, <1>28, <1>29 DEF IInv

(* A pool that is already in free_pools is not put in again. *)
LEMMA RequeuedMembers ==
  ASSUME NEW S, NEW q \in Seq(S), NEW p \in S, Once(q)
  PROVE  /\ Requeued(q, p) \in Seq(S) /\ Once(Requeued(q, p))
         /\ Members(Requeued(q, p)) = Members(q) \cup {p}
<1>1. DOMAIN q = 1 .. Len(q)
  BY LenProperties
<1>2. p \in Members(q) <=> \E i \in DOMAIN q : q[i] = p
  BY <1>1, MembersOf
<1>3. CASE p \in Members(q)
  <2>1. Requeued(q, p) = q
    BY <1>2, <1>3 DEF Requeued
  <2> QED BY <1>3, <2>1
<1>4. CASE p \notin Members(q)
  <2>1. Requeued(q, p) = Append(q, p)
    BY <1>2, <1>4 DEF Requeued
  <2>2. Append(q, p) \in Seq(S) /\ Members(Append(q, p)) = Members(q) \cup {p} /\ Once(Append(q, p))
    BY <1>4, AppendMembers
  <2> QED BY <2>1, <2>2
<1> QED BY <1>3, <1>4

(* acoral_release_res puts a resource back. *)
LEMMA ReleaseBodyKeeps ==
  ASSUME IInv, NEW t \in Threads, ReleaseBody(t)
  PROVE  IInv'
<1>0. /\ Shapes /\ OwnInv /\ PoolsInv /\ LiveInv /\ CtrlInv
      /\ BootInv /\ ChainInv /\ CallInv /\ ReleaseOnce
  BY DEF IInv
<1>a. PICK res, p : res = reg[t].res /\ p = reg[t].pool
  OBVIOUS
<1>b. PICK k, b, r, first, n, num, id :
        /\ k = pools[p].ctrl /\ b = pools[p].base_adr.n /\ r = res[2] /\ first = pools[p].res_free
        /\ n = pools[p].free_num /\ num = pools[p].num /\ id = pools[p].id
  OBVIOUS
<1>c. PICK free, words, held : free = ctrls[k].free_pools /\ words = heap[b] /\ held = Held(p)
  OBVIOUS
<1>1. pc[t] = "releasing" /\ CanRun(t)
  BY DEF ReleaseBody, At
<1>2. res \in live /\ Home(res, p) /\ ctrls[k].lock = t
  BY <1>0, <1>a, <1>b, <1>1 DEF CallInv, CallOk, Releasing
<1>3. p \in PoolIds /\ Owned(p) /\ pools[p].base_adr = res[1] /\ r \in 0 .. num - 1
  BY <1>b, <1>2 DEF Home
<1>4. /\ pools[p] \in PoolRecs /\ num \in Nat /\ n \in Nat /\ id \in Nat /\ first \in Nat
      /\ pools[p].base_adr \in Pointers /\ k \in Ctrls
  BY <1>0, <1>b, <1>3 DEF Shapes, PoolRecs, Owned
<1>5. pools[p].base_adr = BlockPtr(b) /\ res[1].n = b /\ res = <<BlockPtr(b), r>>
  <2>1. pools[p].base_adr = BlockPtr(b)
    BY <1>0, <1>b, <1>3, <1>4 DEF OwnInv, BlockPtr, Pointers
  <2>2. res = <<res[1], res[2]>>
    BY <1>0, <1>2 DEF Shapes
  <2> QED BY <1>b, <1>3, <2>1, <2>2
<1>6. PICK old \in OldIn(num, first, words, r) : heap' = [heap EXCEPT ![b][r] = Released(r, old)]
  <2>1. r < num
    BY <1>3, <1>4
  <2>2. pools[p].base_adr = res[1] /\ res[2] < pools[p].num
    BY <1>b, <1>3, <2>1
  <2>3. OldWords(p, res) = OldIn(num, first, words, r)
    BY <1>b, <1>c, <1>5 DEF WordAt, OldWords, OldIn
  <2>4. \E old \in OldWords(p, res) : heap' = [heap EXCEPT ![res[1].n][res[2]] = Released(res[2], old)]
    BY <1>a, <2>2 DEF ReleaseBody
  <2> QED BY <1>b, <1>5, <2>3, <2>4
<1>w. PICK w : w = Released(r, old)
  OBVIOUS
<1>7. /\ pools' = [pools EXCEPT ![p].res_free = r, ![p].free_num = @ + 1]
      /\ heap' = [heap EXCEPT ![b][r] = w]
      /\ ctrls' = [ctrls EXCEPT ![k].free_pools = Requeued(@, p), ![k].lock = NoThread]
  <2>1. r < num
    BY <1>3, <1>4
  <2>2. pools[p].base_adr = res[1] /\ res[2] < pools[p].num
    BY <1>b, <1>3, <2>1
  <2>3. /\ pools' = [pools EXCEPT ![p].res_free = r, ![p].free_num = @ + 1]
        /\ ctrls' = [ctrls EXCEPT ![k].free_pools = Requeued(@, p), ![k].lock = NoThread]
    BY <1>a, <1>b, <2>2 DEF ReleaseBody
  <2> QED BY <1>6, <1>w, <2>3
<1>8. /\ live' = live \ {res} /\ pc' = [pc EXCEPT ![t] = "rest"]
      /\ crit' = [crit EXCEPT ![Cpu[t]] = NoThread] \/ crit' = crit
      /\ UNCHANGED <<app, free_pool, reg, calls>>
  BY <1>a DEF ReleaseBody, ExitCritical, GoTo
<1>9. Cpu[t] \in Cpus /\ (\A j \in Ctrls : ctrls[j].ready) /\ Len(heap) \in Nat
  BY <1>1, StepFacts
<1>10. free \in Seq(PoolIds) /\ CtrlOk(k) /\ Once(free)
  BY <1>0, <1>c, <1>4 DEF Shapes, CtrlRecs, CtrlInv, CtrlOk
<1>11. PICK more : more = Requeued(free, p)
  OBVIOUS
<1>12. more \in Seq(PoolIds) /\ Once(more) /\ Members(more) = Members(free) \cup {p}
  BY <1>3, <1>10, <1>11, RequeuedMembers
<1>13. PICK ty \in Nat : ty = app.ctrls[k].type /\ ty < 16
  BY <1>0, <1>4, AppFacts DEF Shapes
<1>14. /\ b \in 1 .. Len(heap) /\ num > 0 /\ num <= 1024
       /\ id = PoolWord(ty, p) /\ ListOk(num, first, n, words, held, id)
  <2>1. PoolInv(p)
    BY <1>0, <1>3 DEF PoolsInv
  <2> QED BY <1>b, <1>c, <1>13, <2>1 DEF PoolInv, Block
<1>15. words \in [0 .. num - 1 -> Nat]
  BY <1>14 DEF ListOk, WordsOk
<1>16. r \in held
  BY <1>b, <1>c, <1>0, <1>2, LiveWord
<1>17. PICK new : new = PutWords(words, r, old)
  OBVIOUS
<1>18. ListOk(num, r, n + 1, new, held \ {r}, id)
  <2>1. num \in Nat /\ num > 0 /\ num <= 1024 /\ n \in Nat /\ p \in Nat /\ p < 1024
    BY <1>3, <1>4, <1>14, PoolIdsFit
  <2>2. ListOk(num, first, n, words, held, PoolWord(ty, p))
    BY <1>14
  <2>3. ListOk(num, r, n + 1, PutWords(words, r, old), held \ {r}, PoolWord(ty, p))
    BY <1>3, <1>6, <1>13, <1>16, <2>1, <2>2, ListPut
  <2> QED BY <1>14, <1>17, <2>3
<1>19. new = SetWord(words, r, w)
  BY <1>w, <1>17 DEF PutWords, SetWord
<1>20. w \in Nat
  <2>1. new \in [0 .. num - 1 -> Nat]
    BY <1>18 DEF ListOk, WordsOk
  <2>2. new[r] = w
    BY <1>3, <1>15, <1>19 DEF SetWord
  <2> QED BY <1>3, <2>1, <2>2

<1>21. /\ heap' \in Seq(Blocks) /\ Len(heap') = Len(heap) /\ heap'[b] = new
       /\ \A c \in 1 .. Len(heap) : c # b => heap'[c] = heap[c]
  <2>1. PICK c \in 1 .. Len(heap) : c = b
    BY <1>14
  <2>2. heap[c] \in [0 .. num - 1 -> Nat] /\ heap \in Seq(Blocks) /\ heap' = Stored(heap, c, r, w)
    BY <1>0, <1>c, <1>7, <1>15, <2>1 DEF Shapes, Stored
  <2>3. /\ heap' \in Seq(Blocks) /\ Len(heap') = Len(heap) /\ heap'[c] = SetWord(heap[c], r, w)
        /\ \A d \in 1 .. Len(heap) : d # c => heap'[d] = heap[d]
    BY <1>3, <1>4, <1>20, <2>2, HeapStore
  <2> QED BY <1>c, <1>19, <2>1, <2>3
<1>22. /\ pools' \in [PoolIds -> PoolRecs] /\ \A q \in PoolIds \ {p} : pools'[q] = pools[q]
       /\ pools'[p].ctrl = k /\ pools'[p].base_adr = BlockPtr(b) /\ pools'[p].num = num
       /\ pools'[p].id = id /\ pools'[p].res_free = r /\ pools'[p].free_num = n + 1
  <2>1. r \in Nat /\ n + 1 \in Nat
    BY <1>3, <1>4
  <2>2. pools' = [pools EXCEPT ![p] = [pools[p] EXCEPT !.res_free = r, !.free_num = n + 1]]
    BY <1>0, <1>b, <1>3, <1>4, <1>7 DEF Shapes, PoolRecs
  <2>3. pools[p].num = num /\ pools[p].id = id /\ pools[p].ctrl = k
    BY <1>b
  <2> QED BY <1>0, <1>3, <1>4, <1>5, <2>1, <2>2, <2>3 DEF Shapes, PoolRecs
<1>23. /\ ctrls' \in [Ctrls -> CtrlRecs] /\ ctrls'[k].free_pools = more /\ ctrls'[k].lock = NoThread
       /\ ctrls'[k].num = ctrls[k].num /\ ctrls'[k].total_pools = ctrls[k].total_pools
       /\ ctrls'[k].num_per_pool = ctrls[k].num_per_pool /\ ctrls'[k].ready = ctrls[k].ready
       /\ \A j \in Ctrls \ {k} : ctrls'[j] = ctrls[j]
  <2>1. ctrls' = [ctrls EXCEPT ![k].free_pools = more, ![k].lock = NoThread]
    BY <1>c, <1>7, <1>11
  <2> QED BY <1>0, <1>4, <1>12, <2>1 DEF Shapes, CtrlRecs
<1>24. /\ pc' \in [Threads -> Places] /\ pc'[t] = "rest" /\ \A u \in Threads \ {t} : pc'[u] = pc[u]
  BY <1>0, <1>8 DEF Shapes, Places
<1>25. Shapes'
  <2>1. crit' \in [Cpus -> Threads \cup {NoThread}]
    BY <1>0, <1>8, <1>9 DEF Shapes
  <2>2. CreatorsExclude(app)'
    BY <1>0, <1>8 DEF Shapes, CreatorsExclude, Cpu
  <2>3. live' \subseteq Pointers \X Nat
    BY <1>0, <1>8 DEF Shapes
  <2>4. app \in Apps /\ free_pool \in Pointers /\ reg \in [Threads -> Regs] /\ calls \in [Threads -> 0 .. MaxCalls]
    BY <1>0 DEF Shapes
  <2> QED BY <1>8, <1>21, <1>22, <1>23, <1>24, <2>1, <2>2, <2>3, <2>4 DEF Shapes
<1>26. Held(p)' = held \ {r}
  <2>1. Held(p)' = {x \in 0 .. num - 1 : <<BlockPtr(b), x>> \in live'}
    BY <1>22 DEF Held
  <2>2. held = {x \in 0 .. num - 1 : <<BlockPtr(b), x>> \in live}
    BY <1>b, <1>c, <1>5 DEF Held
  <2> QED BY <1>5, <1>8, <2>1, <2>2
<1>27. PoolInv(p)'
  <2>1. Block(p)' = b /\ b \in 1 .. Len(heap')
    BY <1>14, <1>21, <1>22 DEF Block, BlockPtr
  <2>2. pools'[p].id = PoolWord(app'.ctrls[pools'[p].ctrl].type, p)
    BY <1>8, <1>13, <1>14, <1>22
  <2>3. ListOk(pools'[p].num, pools'[p].res_free, pools'[p].free_num, heap'[b], Held(p)', pools'[p].id)
    BY <1>18, <1>21, <1>22, <1>26
  <2>4. pools'[p].num > 0 /\ pools'[p].num <= 1024
    BY <1>14, <1>22
  <2> QED BY <2>1, <2>2, <2>3, <2>4 DEF PoolInv
<1>28. OwnInv' /\ PoolsInv' /\ LiveInv'
  <2>1. \A x : x[1] # pools[p].base_adr => (x \in live' <=> x \in live)
    BY <1>3, <1>8
  <2>2. \A x \in live' : x \in live \/ (x[1] = pools[p].base_adr /\ x[2] \in 0 .. pools[p].num - 1)
    BY <1>8
  <2>3. \A j \in Ctrls : ctrls'[j].total_pools = ctrls[j].total_pools
    BY <1>23
  <2>4. Block(p) = b /\ pools[p].num = num /\ pools[p].ctrl = k /\ app' = app
    BY <1>b, <1>8 DEF Block
  <2> QED BY <1>0, <1>3, <1>5, <1>9, <1>21, <1>22, <1>27, <2>1, <2>2, <2>3, <2>4, OnePool
<1>29. CtrlInv'
  <2>0. app' = app
    BY <1>8
  <2>1. CtrlOk(k)'
    <3>1. \A q \in PoolIds : q \in Members(more) <=> pools'[q].ctrl = k /\ pools'[q].free_num > 0
      <4>1. pools'[p].free_num > 0
        BY <1>4, <1>22
      <4> QED BY <1>c, <1>10, <1>12, <1>22, <4>1 DEF CtrlOk
    <3> QED BY <1>10, <1>12, <1>23, <2>0, <3>1 DEF CtrlOk
  <2>2. ASSUME NEW j \in Ctrls, j # k PROVE CtrlOk(j)'
    <3>1. CtrlOk(j) /\ ctrls'[j] = ctrls[j]
      BY <1>0, <1>23, <2>2 DEF CtrlInv
    <3>2. \A q \in PoolIds : /\ pools'[q].ctrl = j <=> pools[q].ctrl = j
                             /\ pools'[q].ctrl = j => pools'[q].free_num = pools[q].free_num
      BY <1>b, <1>22, <2>2
    <3>3. \A q \in PoolIds : q \in Members(ctrls'[j].free_pools) <=> pools'[q].ctrl = j /\ pools'[q].free_num > 0
      BY <3>1, <3>2 DEF CtrlOk
    <3> QED BY <2>0, <3>1, <3>3 DEF CtrlOk
  <2> QED BY <2>1, <2>2 DEF CtrlInv
<1>30. BootInv'
  BY <1>9, <1>23 DEF BootInv
<1>31. \A q \in PoolIds : ~Owned(q) => pools'[q] = pools[q]
  BY <1>3, <1>22
<1>32. ChainInv'
  <2>1. \A q \in PoolIds : pools[q] = PoolsInit[q] => pools'[q] = pools[q]
    BY <1>31 DEF PoolsInit, Owned
  <2>2. free_pool' = free_pool
    BY <1>8
  <2> QED BY <1>0, <2>1, <2>2 DEF ChainInv, Unused
<1>33. CallInv'
  <2>1. CallOk(t)'
    BY <1>24 DEF CallOk, Getting, Creating, Releasing
  <2>2. \A c \in Cpus \ {Cpu[t]} : crit'[c] = crit[c]
    BY <1>0, <1>8, <1>9 DEF Shapes
  <2>3. \A u \in Threads \ {t}, j \in Ctrls : ctrls[j].lock = u => ctrls'[j].lock = u
    BY <1>2, <1>23
  <2>4. \A j \in Ctrls : ctrls'[j].num = ctrls[j].num
    BY <1>23
  <2>5. \A q \in PoolIds : Owned(q) => /\ pools'[q].ctrl = pools[q].ctrl
                                       /\ pools'[q].base_adr = pools[q].base_adr
                                       /\ pools'[q].num = pools[q].num
    BY <1>b, <1>5, <1>22
  <2>6. \A u \in Threads \ {t} : pc[u] \in Releasing => reg[u].res \in live'
    BY <1>0, <1>a, <1>1, <1>8 DEF CallInv, CallOk, ReleaseOnce, Releasing
  <2>7. app' = app /\ free_pool' = free_pool /\ reg' = reg
    BY <1>8
  <2>8. \A u \in Threads \ {t} : CallOk(u)'
    BY <1>0, <1>1, <1>24, <1>31, <2>2, <2>3, <2>4, <2>5, <2>6, <2>7, OthersKeep
  <2> QED BY <2>1, <2>8 DEF CallInv
<1>34. ReleaseOnce'
  BY <1>0, <1>8, <1>24 DEF ReleaseOnce, Releasing
<1> QED BY <1>25, <1>28, <1>29, <1>30, <1>32, <1>33, <1>34 DEF IInv

(* acoral_sched_rdyqueue_add writes the CPU into the id of a thread. *)
LEMMA MarkKeeps ==
  ASSUME IInv, NEW res \in live, NEW bit \in app.bits, Mark(res, bit)
  PROVE  IInv'
<1>0. /\ Shapes /\ OwnInv /\ PoolsInv /\ LiveInv /\ CtrlInv
      /\ BootInv /\ ChainInv /\ CallInv /\ ReleaseOnce
  BY DEF IInv
<1>1. PICK p \in PoolIds : Home(res, p)
  BY <1>0 DEF LiveInv
<1>a. PICK k, b, r, first, n, num, id :
        /\ k = pools[p].ctrl /\ b = pools[p].base_adr.n /\ r = res[2] /\ first = pools[p].res_free
        /\ n = pools[p].free_num /\ num = pools[p].num /\ id = pools[p].id
  OBVIOUS
<1>b. PICK words, held : words = heap[b] /\ held = Held(p)
  OBVIOUS
<1>2. Owned(p) /\ pools[p].base_adr = res[1] /\ r \in 0 .. num - 1 /\ r \in held /\ k \in Ctrls
  BY <1>0, <1>1, <1>a, <1>b, LiveWord DEF Home
<1>3. num \in Nat /\ n \in Nat /\ p \in Nat /\ p < 1024
  BY <1>0, <1>1, <1>a, PoolIdsFit DEF Shapes, PoolRecs
<1>4. PICK ty \in Nat : ty = app.ctrls[k].type /\ ty < 16
  BY <1>0, <1>2, AppFacts DEF Shapes
<1>5. bit \in {0, 1}
  BY <1>0, AppFacts DEF Shapes
<1>6. /\ b \in 1 .. Len(heap) /\ num > 0 /\ num <= 1024
      /\ id = PoolWord(ty, p) /\ ListOk(num, first, n, words, held, PoolWord(ty, p))
  <2>1. PoolInv(p)
    BY <1>0, <1>1, <1>2 DEF PoolsInv
  <2> QED BY <1>a, <1>b, <1>4, <2>1 DEF PoolInv, Block
<1>7. words \in [0 .. num - 1 -> Nat]
  BY <1>6 DEF ListOk, WordsOk
<1>8. /\ UNCHANGED <<app, pools, free_pool, ctrls, crit, pc, reg, live, calls>>
      /\ heap' = [heap EXCEPT ![b][r] = Marked(words[r], bit)]
  <2>1. res[1].n = b /\ WordAt(res) = words[r]
    BY <1>a, <1>b, <1>2 DEF WordAt
  <2> QED BY <1>a, <2>1 DEF Mark
<1>9. PICK new : new = MarkedWords(words, r, bit)
  OBVIOUS
<1>10. Marked(words[r], bit) \in Nat /\ ListOk(num, first, n, new, held, PoolWord(ty, p))
  <2>1. num > 0 /\ num <= 1024 /\ ListOk(num, first, n, words, held, PoolWord(ty, p))
    BY <1>6
  <2>2. ty < 16 /\ p < 1024 /\ r \in held
    BY <1>2, <1>3, <1>4
  <2>3. PICK i \in 0 .. num - 1 : i = r
    BY <1>2
  <2>4. PICK c \in {0, 1} : c = bit
    BY <1>5
  <2>5. i \in held /\ new = MarkedWords(words, i, c)
    BY <1>9, <2>2, <2>3, <2>4
  <2>6. Marked(words[i], c) \in Nat /\ ListOk(num, first, n, MarkedWords(words, i, c), held, PoolWord(ty, p))
    BY <1>3, <2>1, <2>2, <2>5, ListMark
  <2> QED BY <2>3, <2>4, <2>5, <2>6
<1>11. /\ heap' \in Seq(Blocks) /\ Len(heap') = Len(heap) /\ Len(heap) \in Nat /\ heap'[b] = new
       /\ \A c \in 1 .. Len(heap) : c # b => heap'[c] = heap[c]
  <2>1. PICK w \in Nat : w = Marked(words[r], bit)
    BY <1>10
  <2>2. heap[b] \in [0 .. num - 1 -> Nat] /\ heap \in Seq(Blocks) /\ heap' = Stored(heap, b, r, w)
    BY <1>0, <1>b, <1>7, <1>8, <2>1 DEF Shapes, Stored
  <2>3. /\ heap' \in Seq(Blocks) /\ Len(heap') = Len(heap) /\ Len(heap) \in Nat
        /\ heap'[b] = SetWord(heap[b], r, w)
        /\ \A c \in 1 .. Len(heap) : c # b => heap'[c] = heap[c]
    BY <1>2, <1>3, <1>6, <2>2, HeapStore
  <2>4. new = SetWord(heap[b], r, w)
    BY <1>b, <1>9, <2>1 DEF SetWord, MarkedWords
  <2> QED BY <2>3, <2>4
<1>12. Shapes'
  BY <1>0, <1>8, <1>11 DEF Shapes, CreatorsExclude, Cpu
<1>13. PoolInv(p)'
  <2>1. Block(p)' = b /\ Held(p)' = held
    BY <1>a, <1>b, <1>8 DEF Block, Held
  <2>2. /\ pools'[p].num = num /\ pools'[p].res_free = first /\ pools'[p].free_num = n
        /\ pools'[p].id = PoolWord(ty, p) /\ app'.ctrls[pools'[p].ctrl].type = ty
    BY <1>a, <1>4, <1>6, <1>8
  <2> QED BY <1>6, <1>10, <1>11, <2>1, <2>2 DEF PoolInv
<1>14. OwnInv' /\ PoolsInv' /\ LiveInv'
  <2>1. ASSUME NEW q \in PoolIds, Owned(q)' PROVE PoolInv(q)'
    <3>1. CASE q = p
      BY <1>13, <3>1
    <3>2. CASE q # p
      <4>1. Owned(q) /\ PoolInv(q) /\ Held(q)' = Held(q) /\ pools'[q] = pools[q]
        BY <1>0, <1>8, <2>1 DEF Owned, Held, PoolsInv
      <4>2. Block(q) # b /\ Block(q) \in 1 .. Len(heap)
        <5>1. Block(p) = b
          BY <1>a DEF Block
        <5> QED BY <1>0, <1>1, <1>2, <3>2, <4>1, <5>1 DEF OwnInv, PoolInv
      <4>3. heap'[Block(q)] = heap[Block(q)]
        BY <1>11, <4>2
      <4>4. Len(heap') \in Nat /\ Len(heap') >= Len(heap) /\ app' = app
        BY <1>8, <1>11
      <4> QED BY <1>11, <4>1, <4>3, <4>4, PoolKept
    <3> QED BY <3>1, <3>2
  <2>2. PoolsInv'
    BY <2>1 DEF PoolsInv
  <2>3. OwnInv' /\ LiveInv'
    BY <1>0, <1>8 DEF OwnInv, Owned, Block, LiveInv, Home
  <2> QED BY <2>2, <2>3
<1>15. CtrlInv' /\ BootInv' /\ ChainInv' /\ ReleaseOnce'
  BY <1>0, <1>8 DEF CtrlInv, CtrlOk, BootInv, ChainInv, Unused, ReleaseOnce
<1>16. CallInv'
  BY <1>0, <1>8 DEF CallInv, CallOk, InCritical, Cpu, CtrlOf, Unused, Home, Owned
<1> QED BY <1>12, <1>14, <1>15, <1>16 DEF IInv

-----------------------------------------------------------------------------
(* Creating a pool. *)

(* What acoral_create_pool leaves in an unused pool when it gets a block   *)
(* for m resources, and when it does not.                                  *)
Made(pool, p, k, m) ==
  /\ pool \in PoolRecs /\ pool.id = PoolWord(app.ctrls[k].type, p) /\ pool.res_free = 0
  /\ pool.base_adr = BlockPtr(Len(heap) + 1) /\ pool.num = m /\ pool.free_num = m /\ pool.ctrl = k
Lost(pool) ==
  /\ pool \in PoolRecs /\ pool.res_free = 0
  /\ pool.base_adr = Null /\ pool.free_num = 0 /\ pool.ctrl = NoCtrl

LEMMA UnusedPool ==
  ASSUME NEW p, Unused(p)
  PROVE  /\ p \in PoolIds /\ ~Owned(p) /\ pools[p].ctrl = NoCtrl /\ pools[p].free_num = 0
         /\ pools[p].res_free = 0 /\ pools[p].id = p
<1>1. p \in PoolIds /\ p % 2 = 0 /\ pools[p] = PoolsInit[p]
  BY DEF Unused
<1>2. p # MaxPools - 1
  <2>1. p \in Nat /\ MaxPools \in Nat /\ MaxPools % 2 = 0 /\ p % 2 = 0
    BY <1>1, PoolIdsFit
  <2> QED BY <2>1
<1>3. pools[p].ctrl = NoCtrl /\ pools[p].free_num = 0 /\ pools[p].res_free = 0 /\ pools[p].id = p
  BY <1>1, <1>2 DEF PoolsInit
<1> QED BY <1>1, <1>3 DEF Owned

LEMMA NewPoolParts ==
  ASSUME Shapes, NEW p, Unused(p), NEW k \in Ctrls, NEW cb, NEW m \in Nat, m = cb.num_per_pool,
         Len(heap) \in Nat
  PROVE  Made(NewPool(p, k, cb, TRUE), p, k, m) /\ Lost(NewPool(p, k, cb, FALSE))
<1>1. pools[p].ctrl = NoCtrl /\ pools[p].free_num = 0 /\ pools[p].res_free = 0 /\ pools[p].id = p
  BY UnusedPool
<1>2. PICK id \in Nat : id = PoolWord(app.ctrls[k].type, p)
  <2>1. app.ctrls[k].type \in Nat /\ p \in Nat
    BY AppFacts, PoolIdsFit, UnusedPool DEF Shapes
  <2> QED BY <2>1, Powers DEF PoolWord
<1>3. PICK ptr \in Pointers : ptr = BlockPtr(Len(heap) + 1)
  <2>1. PICK b \in Nat : b = Len(heap) + 1
    OBVIOUS
  <2>2. BlockPtr(b) \in Pointers
    BY DEF BlockPtr, Pointers
  <2> QED BY <2>1, <2>2
<1>4. Null \in Pointers
  BY DEF Null, Pointers
<1> DEFINE marked == [pools[p] EXCEPT !.id = id, !.num = m]
<1>5. [pools[p] EXCEPT !.id = app.ctrls[k].type * 2^10 + @, !.num = cb.num_per_pool] = marked
  <2>1. app.ctrls[k].type * 2^10 + pools[p].id = id
    BY <1>1, <1>2 DEF PoolWord
  <2> QED BY <2>1
<1>6. /\ marked \in PoolRecs /\ marked.id = id /\ marked.num = m /\ marked.res_free = 0
      /\ marked.free_num = 0 /\ marked.ctrl = NoCtrl
  <2>1. pools[p] \in PoolRecs
    BY UnusedPool DEF Shapes
  <2> QED BY <1>1, <2>1 DEF PoolRecs
<1> HIDE DEF marked
<1>7. /\ NewPool(p, k, cb, TRUE) = [marked EXCEPT !.base_adr = ptr, !.res_free = 0, !.free_num = m, !.ctrl = k]
      /\ NewPool(p, k, cb, FALSE) = [marked EXCEPT !.base_adr = Null]
  BY <1>3, <1>5 DEF NewPool
<1>8. Made(NewPool(p, k, cb, TRUE), p, k, m)
  <2> DEFINE pool == [marked EXCEPT !.base_adr = ptr, !.res_free = 0, !.free_num = m, !.ctrl = k]
  <2>1. /\ pool \in PoolRecs /\ pool.id = id /\ pool.res_free = 0 /\ pool.base_adr = ptr
        /\ pool.num = m /\ pool.free_num = m /\ pool.ctrl = k
    BY <1>6 DEF PoolRecs
  <2> HIDE DEF pool
  <2>2. Made(pool, p, k, m)
    BY <1>2, <1>3, <2>1 DEF Made
  <2> QED BY <1>7, <2>2 DEF pool
<1>9. Lost(NewPool(p, k, cb, FALSE))
  <2> DEFINE pool == [marked EXCEPT !.base_adr = Null]
  <2>1. /\ pool \in PoolRecs /\ pool.res_free = 0 /\ pool.base_adr = Null
        /\ pool.free_num = 0 /\ pool.ctrl = NoCtrl
    BY <1>4, <1>6 DEF PoolRecs
  <2> HIDE DEF pool
  <2>2. Lost(pool)
    BY <2>1 DEF Lost
  <2> QED BY <1>7, <2>2 DEF pool
<1> QED BY <1>8, <1>9

(* acoral_malloc fails: the pool is lost, nothing else changes. *)
LEMMA PoolLost ==
  ASSUME Shapes, OwnInv, PoolsInv, LiveInv, CtrlInv, Len(heap) \in Nat,
         NEW p, Unused(p), NEW k \in Ctrls, NEW m \in Nat, m > 0, m <= 1024,
         app' = app, live' = live, heap' = heap,
         \A q \in PoolIds \ {p} : pools'[q] = pools[q], Lost(pools'[p]),
         \A j \in Ctrls \ {k} : SameLists(j),
         ctrls'[k].ready, ctrls'[k].num_per_pool = m, ctrls'[k].num = ctrls[k].num,
         ctrls'[k].total_pools = ctrls[k].total_pools, ctrls'[k].free_pools = ctrls[k].free_pools
  PROVE  OwnInv' /\ PoolsInv' /\ LiveInv' /\ CtrlInv'
<1>1. p \in PoolIds /\ ~Owned(p) /\ pools[p].ctrl = NoCtrl /\ pools[p].free_num = 0
  BY UnusedPool
<1>2. \A q \in PoolIds \ {p} : pools'[q] = pools[q]
  OBVIOUS
<1>3. /\ pools'[p].ctrl = NoCtrl /\ pools'[p].base_adr.to = "null"
      /\ pools'[p].free_num = 0 /\ pools'[p].res_free = 0
  BY DEF Lost, Null
<1>4. \A q \in PoolIds : pools'[q].ctrl = pools[q].ctrl /\ (Owned(q)' <=> Owned(q))
  BY <1>1, <1>2, <1>3 DEF Owned
<1>5. \A j \in Ctrls : /\ ctrls'[j].total_pools = ctrls[j].total_pools
                       /\ ctrls'[j].free_pools = ctrls[j].free_pools
                       /\ ctrls'[j].num = ctrls[j].num
  BY DEF SameLists
<1>6. \A q \in PoolIds : Owned(q) => q # p /\ pools'[q] = pools[q]
  BY <1>1, <1>2
<1>7. OwnInv'
  <2>1. (\A q \in PoolIds : Owned(q) <=> pools[q].base_adr.to = "block")'
    BY <1>1, <1>2, <1>3, <1>4 DEF OwnInv
  <2>2. (\A q \in PoolIds, j \in Ctrls : q \in Members(ctrls[j].total_pools) <=> pools[q].ctrl = j)'
    BY <1>4, <1>5 DEF OwnInv
  <2>3. (\A q \in PoolIds : ~Owned(q) => pools[q].free_num = 0 /\ pools[q].res_free = 0)'
    BY <1>2, <1>3, <1>4 DEF OwnInv
  <2>4. (\A q, r \in PoolIds : Owned(q) /\ Owned(r) /\ Block(q) = Block(r) => q = r)'
    BY <1>4, <1>6 DEF OwnInv, Block
  <2> QED BY <2>1, <2>2, <2>3, <2>4 DEF OwnInv
<1>8. PoolsInv'
  <2>1. ASSUME NEW q \in PoolIds, Owned(q)' PROVE PoolInv(q)'
    <3>1. Owned(q) /\ pools'[q] = pools[q]
      BY <1>4, <1>6, <2>1
    <3>2. PoolInv(q) /\ Held(q)' = Held(q)
      BY <3>1 DEF PoolsInv, Held
    <3> QED BY <3>1, <3>2, PoolKept
  <2> QED BY <2>1 DEF PoolsInv
<1>9. LiveInv'
  <2>1. ASSUME NEW res \in live PROVE \E q \in PoolIds : Home(res, q)'
    <3>1. PICK q \in PoolIds : Home(res, q)
      BY DEF LiveInv
    <3>2. Home(res, q)'
      BY <1>4, <1>6, <3>1 DEF Home
    <3> QED BY <3>2
  <2> QED BY <2>1 DEF LiveInv
<1>10. CtrlInv'
  <2>1. ASSUME NEW j \in Ctrls PROVE CtrlOk(j)'
    <3>1. CtrlOk(j)
      BY DEF CtrlInv
    <3>2. \A q \in PoolIds : q \in Members(ctrls'[j].free_pools) <=> pools'[q].ctrl = j /\ pools'[q].free_num > 0
      BY <1>1, <1>2, <1>3, <1>5, <3>1 DEF CtrlOk
    <3>3. IF ctrls'[j].ready THEN ctrls'[j].num_per_pool > 0 /\ ctrls'[j].num_per_pool <= 1024
          ELSE ctrls'[j].total_pools = << >>
      BY <3>1 DEF CtrlOk, SameLists
    <3> QED BY <1>5, <3>1, <3>2, <3>3 DEF CtrlOk
  <2> QED BY <2>1 DEF CtrlInv
<1> QED BY <1>7, <1>8, <1>9, <1>10


(* acoral_malloc succeeds: all m resources of the new pool are free. *)
LEMMA PoolCreated ==
  ASSUME Shapes, OwnInv, PoolsInv, LiveInv, CtrlInv, Len(heap) \in Nat,
         NEW p, Unused(p), NEW k \in Ctrls, NEW m \in Nat, m > 0, m <= 1024,
         ctrls[k].num < app.ctrls[k].max,
         app' = app, live' = live, heap' = Append(heap, PoolResInit(m)),
         \A q \in PoolIds \ {p} : pools'[q] = pools[q], Made(pools'[p], p, k, m),
         \A j \in Ctrls \ {k} : SameLists(j),
         ctrls'[k].ready, ctrls'[k].num_per_pool = m, ctrls'[k].num = ctrls[k].num + 1,
         ctrls'[k].total_pools = Append(ctrls[k].total_pools, p),
         ctrls'[k].free_pools = Append(ctrls[k].free_pools, p)
  PROVE  heap' \in Seq(Blocks) /\ OwnInv' /\ PoolsInv' /\ LiveInv' /\ CtrlInv'
<1>1. p \in PoolIds /\ ~Owned(p) /\ pools[p].ctrl = NoCtrl /\ pools[p].free_num = 0
  BY UnusedPool
<1>2. \A q \in PoolIds \ {p} : pools'[q] = pools[q]
  OBVIOUS
<1>3. PICK b : b = Len(heap) + 1
  OBVIOUS
<1>4. /\ pools'[p].ctrl = k /\ pools'[p].base_adr = BlockPtr(b) /\ pools'[p].num = m
      /\ pools'[p].free_num = m /\ pools'[p].res_free = 0
      /\ pools'[p].id = PoolWord(app.ctrls[k].type, p)
  BY <1>3 DEF Made
<1>5. pools'[p].base_adr.to = "block" /\ Block(p)' = b /\ Owned(p)' /\ pools'[p].free_num > 0
  BY <1>4, PoolNullsAssumption DEF BlockPtr, Block, Owned
<1>6. \A q \in PoolIds \ {p} : (Owned(q)' <=> Owned(q)) /\ Block(q)' = Block(q)
  BY <1>2 DEF Owned, Block
<1>7. \A q \in PoolIds : Owned(q) => q # p /\ pools'[q] = pools[q]
  BY <1>1, <1>2
<1>8. ASSUME NEW q \in PoolIds, Owned(q) PROVE PoolInv(q) /\ Block(q) \in 1 .. Len(heap) /\ Block(q) # b
  <2>1. PoolInv(q)
    BY <1>8 DEF PoolsInv
  <2>2. Block(q) \in 1 .. Len(heap)
    BY <2>1 DEF PoolInv
  <2> QED BY <1>3, <2>1, <2>2
<1>9. ListOk(m, 0, m, PoolResInit(m), {}, PoolWord(app.ctrls[k].type, p))
  BY ListNew
<1>10. PICK words : words = PoolResInit(m)
  OBVIOUS
<1>11. /\ heap' \in Seq(Blocks) /\ Len(heap') = Len(heap) + 1 /\ heap'[b] = words
       /\ \A c \in 1 .. Len(heap) : heap'[c] = heap[c]
  <2>1. words \in Blocks
    <3>1. words \in [0 .. m - 1 -> Nat]
      BY <1>9, <1>10 DEF ListOk, WordsOk
    <3> QED BY <3>1 DEF Blocks
  <2>2. heap \in Seq(Blocks) /\ heap' = Append(heap, words)
    BY <1>10 DEF Shapes
  <2> QED BY <1>3, <2>1, <2>2, AppendProperties
<1>12. OwnInv'
  <2>1. (\A q \in PoolIds : Owned(q) <=> pools[q].base_adr.to = "block")'
    BY <1>2, <1>5, <1>6 DEF OwnInv
  <2>2. (\A q \in PoolIds, j \in Ctrls : q \in Members(ctrls[j].total_pools) <=> pools[q].ctrl = j)'
    <3>1. ASSUME NEW q \in PoolIds, NEW j \in Ctrls
          PROVE  q \in Members(ctrls'[j].total_pools) <=> pools'[q].ctrl = j
      <4>1. q \in Members(ctrls[j].total_pools) <=> pools[q].ctrl = j
        BY DEF OwnInv
      <4>2. CASE j # k
        BY <1>1, <1>2, <1>4, <4>1, <4>2, PoolNullsAssumption DEF SameLists
      <4>3. CASE j = k
        <5>1. Members(ctrls'[k].total_pools) = Members(ctrls[k].total_pools) \cup {p}
          <6>1. PICK total \in Seq(PoolIds) : total = ctrls[k].total_pools
            BY DEF Shapes, CtrlRecs
          <6>2. Members(Append(total, p)) = Members(total) \cup {p}
            BY <1>1, AppendMembers
          <6>3. ctrls'[k].total_pools = Append(total, p)
            BY <6>1
          <6> QED BY <6>1, <6>2, <6>3
        <5>2. CASE q = p
          BY <1>4, <4>3, <5>1, <5>2
        <5>3. CASE q # p
          <6>1. pools'[q].ctrl = pools[q].ctrl
            BY <1>2, <5>3
          <6>2. q \in Members(ctrls'[k].total_pools) <=> q \in Members(ctrls[k].total_pools)
            BY <5>1, <5>3
          <6>3. q \in Members(ctrls[k].total_pools) <=> pools[q].ctrl = k
            BY <4>1, <4>3
          <6>4. q \in Members(ctrls'[k].total_pools) <=> pools'[q].ctrl = k
            BY <6>1, <6>2, <6>3
          <6> QED BY <4>3, <6>4
        <5> QED BY <5>2, <5>3
      <4> QED BY <4>2, <4>3
    <3> QED BY <3>1
  <2>3. (\A q \in PoolIds : ~Owned(q) => pools[q].free_num = 0 /\ pools[q].res_free = 0)'
    BY <1>2, <1>5, <1>6 DEF OwnInv
  <2>4. (\A q, r \in PoolIds : Owned(q) /\ Owned(r) /\ Block(q) = Block(r) => q = r)'
    <3>1. ASSUME NEW q \in PoolIds, NEW r \in PoolIds, Owned(q)', Owned(r)', Block(q)' = Block(r)'
          PROVE  q = r
      BY <1>5, <1>6, <1>8, <3>1 DEF OwnInv
    <3> QED BY <3>1
  <2> QED BY <2>1, <2>2, <2>3, <2>4 DEF OwnInv
<1>13. Held(p)' = {}
  <2>1. ASSUME NEW i, <<BlockPtr(b), i>> \in live PROVE FALSE
    <3>1. PICK q \in PoolIds : Home(<<BlockPtr(b), i>>, q)
      BY <2>1 DEF LiveInv
    <3>2. Owned(q) /\ pools[q].base_adr = BlockPtr(b)
      BY <3>1 DEF Home
    <3>3. Block(q) = b
      BY <3>2 DEF Block, BlockPtr
    <3> QED BY <1>8, <3>2, <3>3
  <2> QED BY <1>4, <2>1 DEF Held
<1>14. PoolsInv'
  <2>1. PoolInv(p)'
    <3>1. Block(p)' \in 1 .. Len(heap') /\ heap'[Block(p)'] = PoolResInit(m)
      BY <1>3, <1>5, <1>10, <1>11
    <3>2. pools'[p].id = PoolWord(app'.ctrls[pools'[p].ctrl].type, p)
      BY <1>4
    <3>3. ListOk(pools'[p].num, pools'[p].res_free, pools'[p].free_num, heap'[Block(p)'], Held(p)', pools'[p].id)
      BY <1>4, <1>9, <1>13, <3>1
    <3>4. pools'[p].num > 0 /\ pools'[p].num <= 1024
      BY <1>4
    <3> QED BY <3>1, <3>2, <3>3, <3>4 DEF PoolInv
  <2>2. ASSUME NEW q \in PoolIds, q # p, Owned(q)' PROVE PoolInv(q)'
    <3>1. Owned(q) /\ pools'[q] = pools[q]
      BY <1>2, <1>6, <2>2
    <3>2. PoolInv(q) /\ heap'[Block(q)] = heap[Block(q)]
      BY <1>8, <1>11, <3>1
    <3>3. Held(q)' = Held(q) /\ Len(heap') \in Nat /\ Len(heap') >= Len(heap)
      BY <1>11, <3>1 DEF Held
    <3> QED BY <3>1, <3>2, <3>3, PoolKept
  <2> QED BY <2>1, <2>2 DEF PoolsInv
<1>15. LiveInv'
  <2>1. ASSUME NEW res \in live PROVE \E q \in PoolIds : Home(res, q)'
    <3>1. PICK q \in PoolIds : Home(res, q)
      BY DEF LiveInv
    <3>2. Home(res, q)'
      BY <1>6, <1>7, <3>1 DEF Home
    <3> QED BY <3>2
  <2> QED BY <2>1 DEF LiveInv
<1>16. CtrlInv'
  <2>1. CtrlOk(k)'
    <3>1. PICK total, free : total = ctrls[k].total_pools /\ free = ctrls[k].free_pools
      OBVIOUS
    <3>2. CtrlOk(k) /\ total \in Seq(PoolIds) /\ free \in Seq(PoolIds) /\ ctrls[k].num \in Nat
      BY <3>1 DEF CtrlInv, Shapes, CtrlRecs
    <3>3. app.ctrls[k].max \in Nat
      BY AppFacts DEF Shapes
    <3>4. p \notin Members(free)
      BY <1>1, <3>1, <3>2, PoolNullsAssumption DEF CtrlOk
    <3>5. Len(Append(total, p)) = Len(total) + 1
      BY <1>1, <3>2, AppendMembers
    <3>6. Members(Append(free, p)) = Members(free) \cup {p} /\ Once(Append(free, p))
      BY <1>1, <3>1, <3>2, <3>4, AppendMembers DEF CtrlOk
    <3>7. ctrls'[k].num = Len(ctrls'[k].total_pools) /\ ctrls'[k].num <= app'.ctrls[k].max
      BY <3>1, <3>2, <3>3, <3>5 DEF CtrlOk
    <3>8. \A q \in PoolIds : q \in Members(ctrls'[k].free_pools) <=> pools'[q].ctrl = k /\ pools'[q].free_num > 0
      BY <1>2, <1>4, <1>5, <3>1, <3>2, <3>6 DEF CtrlOk
    <3> QED BY <3>1, <3>6, <3>7, <3>8 DEF CtrlOk
  <2>2. ASSUME NEW j \in Ctrls, j # k PROVE CtrlOk(j)'
    <3>1. CtrlOk(j) /\ SameLists(j)
      BY <2>2 DEF CtrlInv
    <3>2. \A q \in PoolIds : /\ pools'[q].ctrl = j <=> pools[q].ctrl = j
                             /\ pools'[q].ctrl = j => pools'[q].free_num = pools[q].free_num
      BY <1>1, <1>2, <1>4, <2>2, PoolNullsAssumption
    <3>3. \A q \in PoolIds : q \in Members(ctrls'[j].free_pools) <=> pools'[q].ctrl = j /\ pools'[q].free_num > 0
      BY <3>1, <3>2 DEF CtrlOk, SameLists
    <3> QED BY <3>1, <3>3 DEF CtrlOk, SameLists
  <2> QED BY <2>1, <2>2 DEF CtrlInv
<1> QED BY <1>11, <1>12, <1>14, <1>15, <1>16


(* acoral_pool_ctrl_init asks for as many resources as the block holds. *)
LEMMA PerPool ==
  ASSUME app \in Apps, NEW k \in Ctrls
  PROVE  LET m == MallocSize(app.ctrls[k].size * app.ctrls[k].want) \div app.ctrls[k].size
         IN  m \in Nat /\ m > 0 /\ m <= 1024
<1>1. PICK s, w : s = app.ctrls[k].size /\ w = app.ctrls[k].want
  OBVIOUS
<1>2. s \in Nat /\ s > 0 /\ w \in Nat /\ w > 0 /\ s * w <= 2^Levels
  BY <1>1, PoolAppsAssumption
<1> DEFINE fits == {j \in 0 .. Levels : 2^j >= s * w}
           x == CHOOSE j \in fits : \A i \in fits : j <= i
<1>3. x \in fits
  <2>1. Levels \in fits
    BY <1>2, LevelsAssumption
  <2>2. fits \subseteq Nat
    BY LevelsAssumption
  <2> HIDE DEF fits
  <2>3. \E j \in fits : \A i \in fits : j <= i
    BY <2>1, <2>2, MinOfNats
  <2> QED BY <2>3
<1>4. PICK a : a = 2^x
  OBVIOUS
<1>5. a \in Nat /\ a <= 1024 /\ a >= s * w
  <2> HIDE DEF x
  <2>1. x \in 0 .. Levels /\ 2^x >= s * w
    BY <1>3
  <2>2. 2^x \in 1 .. 2^10
    BY <2>1, LevelsAssumption
  <2>3. PICK limit \in Nat : limit = 2^10 /\ limit <= 1024
    BY Powers
  <2>4. a \in 1 .. limit
    BY <1>4, <2>2, <2>3
  <2> QED BY <1>4, <2>1, <2>3, <2>4
<1>6. a \div s \in Nat /\ a \div s > 0 /\ a \div s <= 1024
  BY <1>2, <1>5
<1>7. MallocSize(s * w) = a
  BY <1>4 DEF MallocSize
<1> QED BY <1>1, <1>6, <1>7

(* The control block with one more pool. *)
Extended(cb, total, free, num) == [cb EXCEPT !.total_pools = total, !.free_pools = free, !.num = num]
IsExtended(new, cb, total, free, num) ==
  /\ new \in CtrlRecs /\ new.total_pools = total /\ new.free_pools = free /\ new.num = num
  /\ new.ready = cb.ready /\ new.num_per_pool = cb.num_per_pool /\ new.lock = cb.lock
LEMMA NewCtrlParts ==
  ASSUME NEW cb \in CtrlRecs, NEW total \in Seq(PoolIds), NEW free \in Seq(PoolIds), NEW num \in Nat,
         NEW new, new = Extended(cb, total, free, num)
  PROVE  IsExtended(new, cb, total, free, num)
<1> DEFINE S == Seq(PoolIds)
           T == Threads \cup {NoThread}
<1>1. /\ cb \in [num_per_pool : Nat, num : Nat, total_pools : S, free_pools : S, lock : T, ready : BOOLEAN]
      /\ total \in S /\ free \in S
  BY DEF CtrlRecs
<1> HIDE DEF S, T
<1>2. /\ new \in [num_per_pool : Nat, num : Nat, total_pools : S, free_pools : S, lock : T, ready : BOOLEAN]
      /\ new.total_pools = total /\ new.free_pools = free /\ new.num = num
      /\ new.ready = cb.ready /\ new.num_per_pool = cb.num_per_pool /\ new.lock = cb.lock
  BY <1>1 DEF Extended
<1>3. new \in CtrlRecs
  BY <1>2 DEF CtrlRecs, S, T
<1> QED BY <1>2, <1>3 DEF IsExtended

(* acoral_create_pool. *)
LEMMA CreatePoolKeeps ==
  ASSUME IInv, NEW t \in Threads, CreatePool(t)
  PROVE  IInv'
<1>0. /\ Shapes /\ OwnInv /\ PoolsInv /\ LiveInv /\ CtrlInv
      /\ BootInv /\ ChainInv /\ CallInv /\ ReleaseOnce
  BY DEF IInv
<1>a. PICK k, p : k = CtrlOf(t) /\ p = reg[t].pool
  OBVIOUS
<1>b. PICK cb, m : cb = ctrls[k] /\ m = cb.num_per_pool
  OBVIOUS
<1>1. /\ pc[t] = "create" /\ CanRun(t) /\ UNCHANGED <<app, free_pool, reg, live, calls>>
  BY DEF CreatePool, At
<1>2. PICK got \in BOOLEAN :
        /\ pools' = [pools EXCEPT ![p] = NewPool(p, k, cb, got)] /\ heap' = NewHeap(cb, got)
        /\ IF got THEN /\ ctrls' = [ctrls EXCEPT ![k] = NewCtrl(p, cb, got)]
                       /\ pc' = [pc EXCEPT ![t] = "locked"] /\ crit' = crit
           ELSE /\ ctrls' = [ctrls EXCEPT ![k] = [NewCtrl(p, cb, got) EXCEPT !.lock = NoThread]]
                /\ crit' = [crit EXCEPT ![Cpu[t]] = NoThread] /\ pc' = [pc EXCEPT ![t] = "rest"]
  BY <1>a, <1>b DEF CreatePool, GetFails, Unlocked, ExitCritical, GoTo
<1>3. /\ Cpu[t] \in Cpus /\ k \in Ctrls /\ (\A j \in Ctrls : ctrls[j].ready) /\ Len(heap) \in Nat
  BY <1>a, <1>1, StepFacts
<1>4. /\ app.role[t] = "get" /\ InCritical(t) /\ ctrls[k].lock = t /\ ctrls[k].num < app.ctrls[k].max
      /\ Unused(p) /\ (free_pool = Null \/ p < free_pool.n)
  BY <1>0, <1>a, <1>1 DEF CallInv, CallOk, Getting, Creating
<1>5. m \in Nat /\ m > 0 /\ m <= 1024 /\ cb \in CtrlRecs
  BY <1>0, <1>b, <1>3 DEF Shapes, CtrlRecs, CtrlInv, CtrlOk
<1>6. p \in PoolIds /\ ~Owned(p)
  BY <1>4, UnusedPool
<1>7. Made(NewPool(p, k, cb, TRUE), p, k, m) /\ Lost(NewPool(p, k, cb, FALSE))
  <2>1. Shapes /\ Unused(p) /\ k \in Ctrls /\ m \in Nat /\ m = cb.num_per_pool /\ Len(heap) \in Nat
    BY <1>0, <1>b, <1>3, <1>4, <1>5
  <2> QED BY <2>1, NewPoolParts
<1>8. /\ pools' \in [PoolIds -> PoolRecs] /\ pools'[p] = NewPool(p, k, cb, got)
      /\ \A q \in PoolIds \ {p} : pools'[q] = pools[q]
  <2>1. NewPool(p, k, cb, got) \in PoolRecs
    BY <1>7 DEF Made, Lost
  <2> QED BY <1>0, <1>2, <1>6, <2>1 DEF Shapes
<1>9. /\ heap' \in Seq(Blocks) /\ OwnInv' /\ PoolsInv' /\ LiveInv' /\ CtrlInv'
      /\ ctrls' \in [Ctrls -> CtrlRecs] /\ ctrls'[k].ready /\ ctrls'[k].lock = (IF got THEN t ELSE NoThread)
      /\ \A j \in Ctrls \ {k} : ctrls'[j] = ctrls[j]
  <2>0. app' = app /\ live' = live
    BY <1>1
  <2>1. CASE got
    <3>1. Made(pools'[p], p, k, m) /\ heap' = Append(heap, PoolResInit(m))
      BY <1>b, <1>2, <1>7, <1>8, <2>1 DEF NewHeap
    <3>2. ctrls' = [ctrls EXCEPT ![k] = [cb EXCEPT !.total_pools = Append(@, p), !.free_pools = Append(@, p),
                                                   !.num = @ + 1]]
      BY <1>2, <2>1 DEF NewCtrl
    <3>3. PICK total, free : total = Append(cb.total_pools, p) /\ free = Append(cb.free_pools, p)
      OBVIOUS
    <3>4. total \in Seq(PoolIds) /\ free \in Seq(PoolIds)
      BY <1>5, <1>6, <3>3, AppendProperties DEF CtrlRecs
    <3>5. PICK num \in Nat : num = cb.num + 1
      BY <1>5 DEF CtrlRecs
    <3>a. PICK new : new = Extended(cb, total, free, num)
      OBVIOUS
    <3>6. /\ new \in CtrlRecs /\ new.total_pools = total /\ new.free_pools = free /\ new.num = num
          /\ new.ready = cb.ready /\ new.num_per_pool = cb.num_per_pool /\ new.lock = cb.lock
      <4>1. IsExtended(new, cb, total, free, num)
        BY <1>5, <3>a, <3>4, NewCtrlParts
      <4> QED BY <4>1 DEF IsExtended
    <3>7. ctrls' = [ctrls EXCEPT ![k] = new]
      BY <3>a, <3>2, <3>3, <3>5 DEF Extended
    <3>8. ctrls' \in [Ctrls -> CtrlRecs] /\ ctrls'[k] = new /\ \A j \in Ctrls \ {k} : ctrls'[j] = ctrls[j]
      BY <1>0, <1>3, <3>6, <3>7 DEF Shapes
    <3>9. \A j \in Ctrls \ {k} : SameLists(j)
      BY <3>8 DEF SameLists
    <3>10. /\ ctrls'[k].ready /\ ctrls'[k].num_per_pool = m /\ ctrls'[k].num = ctrls[k].num + 1
           /\ ctrls'[k].total_pools = Append(ctrls[k].total_pools, p)
           /\ ctrls'[k].free_pools = Append(ctrls[k].free_pools, p) /\ ctrls'[k].lock = t
      BY <1>b, <1>3, <1>4, <3>3, <3>5, <3>6, <3>8
    <3>11. heap' \in Seq(Blocks) /\ OwnInv' /\ PoolsInv' /\ LiveInv' /\ CtrlInv'
      BY <1>0, <1>3, <1>4, <1>5, <1>8, <2>0, <3>1, <3>9, <3>10, PoolCreated
    <3> QED BY <2>1, <3>8, <3>10, <3>11
  <2>2. CASE ~got
    <3>1. Lost(pools'[p]) /\ heap' = heap /\ heap \in Seq(Blocks)
      BY <1>0, <1>2, <1>7, <1>8, <2>2 DEF NewHeap, Shapes
    <3>2. ctrls' = [ctrls EXCEPT ![k] = [cb EXCEPT !.lock = NoThread]]
      BY <1>2, <2>2 DEF NewCtrl
    <3>3. PICK new : new = [cb EXCEPT !.lock = NoThread]
      OBVIOUS
    <3>4. /\ new \in CtrlRecs /\ new.total_pools = cb.total_pools /\ new.free_pools = cb.free_pools
          /\ new.num = cb.num /\ new.ready = cb.ready /\ new.num_per_pool = cb.num_per_pool
          /\ new.lock = NoThread
      BY <1>5, <3>3 DEF CtrlRecs
    <3>5. ctrls' \in [Ctrls -> CtrlRecs] /\ ctrls'[k] = new /\ \A j \in Ctrls \ {k} : ctrls'[j] = ctrls[j]
      BY <1>0, <1>3, <3>2, <3>3, <3>4 DEF Shapes
    <3>6. \A j \in Ctrls \ {k} : SameLists(j)
      BY <3>5 DEF SameLists
    <3>7. /\ ctrls'[k].ready /\ ctrls'[k].num_per_pool = m /\ ctrls'[k].num = ctrls[k].num
          /\ ctrls'[k].total_pools = ctrls[k].total_pools
          /\ ctrls'[k].free_pools = ctrls[k].free_pools /\ ctrls'[k].lock = NoThread
      BY <1>b, <1>3, <3>4, <3>5
    <3>8. OwnInv' /\ PoolsInv' /\ LiveInv' /\ CtrlInv'
      BY <1>0, <1>3, <1>4, <1>5, <1>8, <2>0, <3>1, <3>6, <3>7, PoolLost
    <3> QED BY <2>2, <3>1, <3>5, <3>7, <3>8
  <2> QED BY <2>1, <2>2
<1>10. /\ pc' \in [Threads -> Places] /\ pc'[t] = (IF got THEN "locked" ELSE "rest")
       /\ \A u \in Threads \ {t} : pc'[u] = pc[u]
  BY <1>0, <1>2 DEF Shapes, Places
<1>11. /\ crit' \in [Cpus -> Threads \cup {NoThread}] /\ (got => crit' = crit)
       /\ \A c \in Cpus \ {Cpu[t]} : crit'[c] = crit[c]
  BY <1>0, <1>2, <1>3 DEF Shapes
<1>12. Shapes'
  <2>1. CreatorsExclude(app)'
    BY <1>0, <1>1 DEF Shapes, CreatorsExclude, Cpu
  <2> QED BY <1>0, <1>1, <1>8, <1>9, <1>10, <1>11, <2>1 DEF Shapes
<1>13. BootInv'
  BY <1>3, <1>9 DEF BootInv
<1>14. free_pool' = free_pool /\ app' = app /\ reg' = reg /\ live' = live
  BY <1>1
<1>15. ChainInv'
  <2>1. CASE free_pool = Null
    BY <1>14, <2>1 DEF ChainInv
  <2>2. CASE free_pool # Null
    <3>1. PICK f : f = free_pool.n
      OBVIOUS
    <3>2. free_pool = PoolPtr(f) /\ Unused(f) /\ \A q \in PoolIds : q >= f => pools[q] = PoolsInit[q]
      BY <1>0, <2>2, <3>1 DEF ChainInv
    <3>3. p \in Nat /\ p < f /\ f \in Nat /\ \A q \in PoolIds : q \in Nat
      <4>1. f \in PoolIds /\ p < f
        BY <1>4, <2>2, <3>1, <3>2 DEF Unused
      <4> QED BY <1>6, <4>1, PoolIdsFit
    <3>4. \A q \in PoolIds : q >= f => q # p
      BY <3>3
    <3>5. \A q \in PoolIds : q >= f => pools'[q] = pools[q]
      BY <1>8, <3>4
    <3>6. Unused(f)'
      <4>1. f \in PoolIds /\ f % 2 = 0 /\ f >= f
        BY <3>2, <3>3 DEF Unused
      <4>2. pools[f] = PoolsInit[f]
        BY <3>2 DEF Unused
      <4>3. pools'[f] = PoolsInit[f]
        BY <3>5, <4>1, <4>2
      <4> QED BY <4>1, <4>3 DEF Unused
    <3>7. \A q \in PoolIds : q >= f => pools'[q] = PoolsInit[q]
      BY <3>2, <3>5
    <3> QED BY <1>14, <3>1, <3>2, <3>6, <3>7 DEF ChainInv
  <2> QED BY <2>1, <2>2
<1>16. CallInv'
  <2>1. CallOk(t)'
    <3>1. CASE got
      BY <1>4, <1>a, <1>9, <1>10, <1>11, <1>14, <3>1
         DEF CallOk, Getting, Creating, Releasing, InCritical, Cpu, CtrlOf
    <3>2. CASE ~got
      BY <1>10, <3>2 DEF CallOk, Getting, Creating, Releasing
    <3> QED BY <3>1, <3>2
  <2>2. \A u \in Threads \ {t}, j \in Ctrls : ctrls[j].lock = u => ctrls'[j].lock = u
    BY <1>4, <1>9
  <2>3. \A q \in PoolIds : Owned(q) => pools'[q] = pools[q]
    BY <1>6, <1>8
  <2>4. \A u \in Threads \ {t} : pc[u] \in Releasing => reg[u].res \in live'
    BY <1>0, <1>14 DEF CallInv, CallOk
  <2>5. pc[t] \in Creating
    BY <1>1 DEF Creating
  <2>6. \A u \in Threads \ {t} : CallOk(u)'
    BY <1>0, <1>1, <1>10, <1>11, <1>14, <2>2, <2>3, <2>4, <2>5, OthersKeep
  <2> QED BY <2>1, <2>6 DEF CallInv
<1>17. ReleaseOnce'
  BY <1>0, <1>10, <1>14 DEF ReleaseOnce, Releasing
<1> QED BY <1>9, <1>12, <1>13, <1>15, <1>16, <1>17 DEF IInv


(* acoral_pool_ctrl_init. *)
LEMMA CtrlInitKeeps ==
  ASSUME IInv, NEW k \in Ctrls, CtrlInit(k)
  PROVE  IInv'
<1>0. /\ Shapes /\ OwnInv /\ PoolsInv /\ LiveInv /\ CtrlInv
      /\ BootInv /\ ChainInv /\ CallInv /\ ReleaseOnce
  BY DEF IInv
<1>a. PICK p, m, next :
        /\ p = free_pool.n /\ next = Deref(pools[p].base_adr)
        /\ m = MallocSize(app.ctrls[k].size * app.ctrls[k].want) \div app.ctrls[k].size
  OBVIOUS
<1>b. PICK cb : cb = [ctrls[k] EXCEPT !.ready = TRUE, !.num_per_pool = m]
  OBVIOUS
<1>1. ~ctrls[k].ready /\ free_pool.to = "pool" /\ UNCHANGED <<app, crit, pc, reg, live, calls>>
  BY DEF CtrlInit
<1>2. PICK got \in BOOLEAN :
        /\ pools' = [pools EXCEPT ![p] = NewPool(p, k, cb, got)] /\ heap' = NewHeap(cb, got)
        /\ ctrls' = [ctrls EXCEPT ![k] = NewCtrl(p, cb, got)] /\ free_pool' = next
  BY <1>a, <1>b DEF CtrlInit
<1>3. app \in Apps /\ Len(heap) \in Nat /\ heap \in Seq(Blocks) /\ ctrls[k] \in CtrlRecs
  BY <1>0, LenProperties DEF Shapes
<1>4. m \in Nat /\ m > 0 /\ m <= 1024
  BY <1>a, <1>3, PerPool
<1>5. \A t \in Threads : pc[t] = "rest"
  BY <1>0, <1>1 DEF BootInv
<1>6. ctrls[k].num < app.ctrls[k].max
  <2>1. CtrlOk(k)
    BY <1>0 DEF CtrlInv
  <2>2. ctrls[k].num = Len(<< >>)
    BY <1>1, <2>1 DEF CtrlOk
  <2>3. app.ctrls[k].max \in Nat /\ app.ctrls[k].max > 0
    BY <1>3, AppFacts
  <2> QED BY <2>2, <2>3
<1>7. /\ Unused(p) /\ next \in Pointers
      /\ \/ next = Null
         \/ /\ next = PoolPtr(next.n) /\ Unused(next.n) /\ p < next.n
            /\ \A q \in PoolIds : q >= next.n => pools[q] = PoolsInit[q]
  BY <1>0, <1>a, <1>1, NextUnused
<1>8. p \in PoolIds /\ ~Owned(p)
  BY <1>7, UnusedPool
<1>9. /\ cb \in CtrlRecs /\ cb.ready /\ cb.num_per_pool = m /\ cb.num = ctrls[k].num
      /\ cb.total_pools = ctrls[k].total_pools /\ cb.free_pools = ctrls[k].free_pools
  BY <1>b, <1>3, <1>4 DEF CtrlRecs
<1>10. Made(NewPool(p, k, cb, TRUE), p, k, m) /\ Lost(NewPool(p, k, cb, FALSE))
  <2>1. Shapes /\ Unused(p) /\ m \in Nat /\ m = cb.num_per_pool /\ Len(heap) \in Nat
    BY <1>0, <1>3, <1>4, <1>7, <1>9
  <2> QED BY <2>1, NewPoolParts
<1>11. /\ pools' \in [PoolIds -> PoolRecs] /\ pools'[p] = NewPool(p, k, cb, got)
       /\ \A q \in PoolIds \ {p} : pools'[q] = pools[q]
  <2>1. NewPool(p, k, cb, got) \in PoolRecs
    BY <1>10 DEF Made, Lost
  <2> QED BY <1>0, <1>2, <1>8, <2>1 DEF Shapes
<1>12. /\ heap' \in Seq(Blocks) /\ OwnInv' /\ PoolsInv' /\ LiveInv' /\ CtrlInv'
       /\ ctrls' \in [Ctrls -> CtrlRecs]
  <2>0. app' = app /\ live' = live
    BY <1>1
  <2>1. CASE got
    <3>1. Made(pools'[p], p, k, m) /\ heap' = Append(heap, PoolResInit(m))
      BY <1>2, <1>9, <1>10, <1>11, <2>1 DEF NewHeap
    <3>2. ctrls' = [ctrls EXCEPT ![k] = [cb EXCEPT !.total_pools = Append(@, p), !.free_pools = Append(@, p),
                                                   !.num = @ + 1]]
      BY <1>2, <2>1 DEF NewCtrl
    <3>3. PICK total, free : total = Append(cb.total_pools, p) /\ free = Append(cb.free_pools, p)
      OBVIOUS
    <3>4. total \in Seq(PoolIds) /\ free \in Seq(PoolIds)
      <4>1. cb.total_pools \in Seq(PoolIds) /\ cb.free_pools \in Seq(PoolIds)
        BY <1>9 DEF CtrlRecs
      <4> QED BY <1>8, <3>3, <4>1, AppendProperties
    <3>5. PICK num \in Nat : num = cb.num + 1
      BY <1>9 DEF CtrlRecs
    <3>a. PICK new : new = Extended(cb, total, free, num)
      OBVIOUS
    <3>6. /\ new \in CtrlRecs /\ new.total_pools = total /\ new.free_pools = free /\ new.num = num
          /\ new.ready = cb.ready /\ new.num_per_pool = cb.num_per_pool
      <4>1. IsExtended(new, cb, total, free, num)
        BY <1>9, <3>a, <3>4, NewCtrlParts
      <4> QED BY <4>1 DEF IsExtended
    <3>7. ctrls' = [ctrls EXCEPT ![k] = new]
      BY <3>a, <3>2, <3>3, <3>5 DEF Extended
    <3>8. ctrls' \in [Ctrls -> CtrlRecs] /\ ctrls'[k] = new /\ \A j \in Ctrls \ {k} : ctrls'[j] = ctrls[j]
      BY <1>0, <3>6, <3>7 DEF Shapes
    <3>9. \A j \in Ctrls \ {k} : SameLists(j)
      BY <3>8 DEF SameLists
    <3>10. /\ ctrls'[k].ready /\ ctrls'[k].num_per_pool = m /\ ctrls'[k].num = ctrls[k].num + 1
           /\ ctrls'[k].total_pools = Append(ctrls[k].total_pools, p)
           /\ ctrls'[k].free_pools = Append(ctrls[k].free_pools, p)
      BY <1>9, <3>3, <3>5, <3>6, <3>8
    <3>11. heap' \in Seq(Blocks) /\ OwnInv' /\ PoolsInv' /\ LiveInv' /\ CtrlInv'
      BY <1>0, <1>3, <1>4, <1>6, <1>7, <1>11, <2>0, <3>1, <3>9, <3>10, PoolCreated
    <3> QED BY <3>8, <3>11
  <2>2. CASE ~got
    <3>1. Lost(pools'[p]) /\ heap' = heap
      BY <1>2, <1>10, <1>11, <2>2 DEF NewHeap
    <3>2. ctrls' = [ctrls EXCEPT ![k] = cb]
      BY <1>2, <2>2 DEF NewCtrl
    <3>3. ctrls' \in [Ctrls -> CtrlRecs] /\ ctrls'[k] = cb /\ \A j \in Ctrls \ {k} : ctrls'[j] = ctrls[j]
      BY <1>0, <1>9, <3>2 DEF Shapes
    <3>4. \A j \in Ctrls \ {k} : SameLists(j)
      BY <3>3 DEF SameLists
    <3>5. OwnInv' /\ PoolsInv' /\ LiveInv' /\ CtrlInv'
      BY <1>0, <1>3, <1>4, <1>7, <1>9, <1>11, <2>0, <3>1, <3>3, <3>4, PoolLost
    <3> QED BY <1>3, <3>1, <3>3, <3>5
  <2> QED BY <2>1, <2>2
<1>13. Shapes'
  <2>1. CreatorsExclude(app)'
    BY <1>0, <1>1 DEF Shapes, CreatorsExclude, Cpu
  <2> QED BY <1>0, <1>1, <1>2, <1>7, <1>11, <1>12, <2>1 DEF Shapes
<1>14. BootInv'
  BY <1>1, <1>5 DEF BootInv
<1>15. ChainInv'
  <2>1. CASE next = Null
    BY <1>2, <2>1 DEF ChainInv
  <2>2. CASE next # Null
    <3>1. PICK f : f = next.n
      OBVIOUS
    <3>2. next = PoolPtr(f) /\ Unused(f) /\ p < f /\ \A q \in PoolIds : q >= f => pools[q] = PoolsInit[q]
      BY <1>7, <2>2, <3>1
    <3>3. f \in PoolIds /\ f % 2 = 0
      BY <3>2 DEF Unused
    <3>4. p \in Nat /\ f \in Nat /\ \A q \in PoolIds : q \in Nat
      BY <1>8, <3>3, PoolIdsFit
    <3>5. \A q \in PoolIds : q >= f => q # p
      BY <3>2, <3>4
    <3>6. \A q \in PoolIds : q >= f => pools'[q] = PoolsInit[q]
      BY <1>11, <3>2, <3>5
    <3>7. Unused(f)'
      <4>1. f >= f
        BY <3>4
      <4> QED BY <3>3, <3>6, <4>1 DEF Unused
    <3> QED BY <1>2, <3>1, <3>2, <3>6, <3>7 DEF ChainInv
  <2> QED BY <2>1, <2>2
<1>16. CallInv'
  <2>1. ASSUME NEW t \in Threads PROVE CallOk(t)'
    <3>1. pc'[t] = "rest"
      BY <1>1, <1>5
    <3> QED BY <3>1 DEF CallOk, Getting, Creating, Releasing
  <2> QED BY <2>1 DEF CallInv
<1>17. ReleaseOnce'
  BY <1>1, <1>5 DEF ReleaseOnce, Releasing
<1> QED BY <1>12, <1>13, <1>14, <1>15, <1>16, <1>17 DEF IInv


-----------------------------------------------------------------------------
(* The invariant holds from the start and in every step. *)

LEMMA InitInv ==
  ASSUME Init, CreatorsExclude(app)
  PROVE  IInv
<1>1. /\ app \in Apps /\ pools = PoolsInit /\ free_pool = PoolPtr(0) /\ heap = << >> /\ live = {}
      /\ crit = [c \in Cpus |-> NoThread] /\ pc = [t \in Threads |-> "rest"]
      /\ reg = [t \in Threads |-> [pool |-> 0, res |-> <<Null, 0>>]]
      /\ calls = [t \in Threads |-> 0]
  BY DEF Init
<1>2. 0 \in PoolIds /\ MaxPools \in Nat /\ (\A p \in PoolIds : p \in Nat) /\ 0 # MaxPools - 1
  <2>1. MaxPools \in Nat /\ MaxPools > 0 /\ MaxPools % 2 = 0 /\ \A p \in PoolIds : p \in Nat
    BY PoolIdsFit
  <2> QED BY <2>1 DEF PoolIds
<1>3. /\ pools \in [PoolIds -> PoolRecs]
      /\ \A p \in PoolIds : /\ pools[p].ctrl = NoCtrl /\ pools[p].free_num = 0 /\ pools[p].res_free = 0
                            /\ pools[p].base_adr.to # "block"
  <2>1. ASSUME NEW p \in PoolIds
        PROVE  /\ PoolsInit[p] \in PoolRecs /\ PoolsInit[p].ctrl = NoCtrl /\ PoolsInit[p].free_num = 0
               /\ PoolsInit[p].res_free = 0 /\ PoolsInit[p].base_adr.to # "block"
    <3>1. PICK ptr \in Pointers :
            ptr = (IF p = MaxPools - 1 THEN Null ELSE PoolPtr(p + 1)) /\ ptr.to # "block"
      <4>1. PICK next \in Nat : next = p + 1
        BY <1>2
      <4>2. /\ Null \in Pointers /\ PoolPtr(next) \in Pointers
            /\ Null.to # "block" /\ PoolPtr(next).to # "block"
        BY DEF Null, PoolPtr, Pointers
      <4> QED BY <4>1, <4>2
    <3>2. PICK id \in Nat : id = IF p = MaxPools - 1 THEN 0 ELSE p
      BY <1>2
    <3>3. PoolsInit[p] = [base_adr |-> ptr, id |-> id, res_free |-> 0, num |-> 0, free_num |-> 0, ctrl |-> NoCtrl]
      BY <3>1, <3>2 DEF PoolsInit
    <3> QED BY <3>1, <3>3 DEF PoolRecs
  <2>2. PoolsInit \in [PoolIds -> PoolRecs]
    <3>1. PoolsInit = [p \in PoolIds |-> PoolsInit[p]]
      BY DEF PoolsInit
    <3> QED BY <2>1, <3>1
  <2> QED BY <1>1, <2>1, <2>2
<1>4. << >> \in Seq(PoolIds) /\ << >> \in Seq(Blocks) /\ Len(<< >>) = 0 /\ Members(<< >>) = {} /\ Once(<< >>)
  <2>1. << >> \in Seq(PoolIds) /\ << >> \in Seq(Blocks) /\ Len(<< >>) = 0
    BY EmptySeq
  <2>2. Members(<< >>) = {}
    BY <2>1, NoMembers
  <2> QED BY <2>1, <2>2 DEF Once
<1>5. ASSUME NEW k \in Ctrls
      PROVE  /\ ctrls[k] \in CtrlRecs /\ ctrls[k].num = 0 /\ ctrls[k].total_pools = << >>
             /\ ctrls[k].free_pools = << >> /\ ~ctrls[k].ready
  <2>1. PICK m \in Nat : m = app.ctrls[k].want
    BY <1>1, PoolAppsAssumption
  <2>2. ctrls[k] = [num_per_pool |-> m, num |-> 0, total_pools |-> << >>,
                    free_pools |-> << >>, lock |-> NoThread, ready |-> FALSE]
    BY <2>1 DEF Init
  <2> DEFINE S == Seq(PoolIds)
  <2>3. << >> \in S
    BY <1>4
  <2>4. CtrlRecs = [num_per_pool : Nat, num : Nat, total_pools : S, free_pools : S,
                    lock : Threads \cup {NoThread}, ready : BOOLEAN]
    BY DEF CtrlRecs
  <2> HIDE DEF S
  <2> QED BY <2>2, <2>3, <2>4
<1>6. Shapes
  <2>1. ctrls \in [Ctrls -> CtrlRecs]
    <3>1. ctrls = [k \in Ctrls |-> ctrls[k]]
      BY DEF Init
    <3> QED BY <1>5, <3>1
  <2>2. free_pool \in Pointers /\ Null \in Pointers
    BY <1>1 DEF PoolPtr, Null, Pointers
  <2>3. reg \in [Threads -> Regs]
    <3>1. [pool |-> 0, res |-> <<Null, 0>>] \in Regs
      BY <1>2, <2>2 DEF Regs
    <3> QED BY <1>1, <3>1
  <2>4. crit \in [Cpus -> Threads \cup {NoThread}] /\ pc \in [Threads -> Places]
    BY <1>1 DEF Places
  <2>5. calls \in [Threads -> 0 .. MaxCalls]
    BY <1>1, PoolCallsAssumption
  <2>6. heap \in Seq(Blocks) /\ live \subseteq Pointers \X Nat
    BY <1>1, <1>4
  <2> QED BY <1>1, <1>3, <2>1, <2>2, <2>3, <2>4, <2>5, <2>6 DEF Shapes
<1>7. OwnInv
  <2>1. \A p \in PoolIds : ~Owned(p)
    BY <1>3 DEF Owned
  <2>2. \A p \in PoolIds, k \in Ctrls : p \in Members(ctrls[k].total_pools) <=> pools[p].ctrl = k
    BY <1>3, <1>4, <1>5, PoolNullsAssumption
  <2> QED BY <1>3, <2>1, <2>2 DEF OwnInv
<1>8. PoolsInv /\ LiveInv
  BY <1>1, <1>3 DEF PoolsInv, LiveInv, Owned
<1>9. CtrlInv
  <2>1. ASSUME NEW k \in Ctrls PROVE CtrlOk(k)
    <3>1. app.ctrls[k].max \in Nat
      BY <1>1, AppFacts
    <3>2. \A p \in PoolIds : p \in Members(ctrls[k].free_pools) <=> pools[p].ctrl = k /\ pools[p].free_num > 0
      BY <1>3, <1>4, <1>5
    <3> QED BY <1>4, <1>5, <3>1, <3>2 DEF CtrlOk
  <2> QED BY <2>1 DEF CtrlInv
<1>10. BootInv /\ CallInv /\ ReleaseOnce
  <2>1. \A t \in Threads : pc[t] = "rest"
    BY <1>1
  <2> QED BY <2>1 DEF BootInv, CallInv, CallOk, ReleaseOnce, Getting, Creating, Releasing
<1>11. ChainInv
  <2>1. free_pool.n = 0 /\ 0 % 2 = 0
    BY <1>1 DEF PoolPtr
  <2> QED BY <1>1, <1>2, <2>1 DEF ChainInv, Unused
<1> QED BY <1>6, <1>7, <1>8, <1>9, <1>10, <1>11 DEF IInv

LEMMA StutterKeeps ==
  ASSUME IInv, UNCHANGED vars
  PROVE  IInv'
<1>1. UNCHANGED <<app, pools, free_pool, heap, ctrls, crit, pc, reg, live, calls>>
  BY DEF vars
<1>0. /\ Shapes /\ OwnInv /\ PoolsInv /\ LiveInv /\ CtrlInv
      /\ BootInv /\ ChainInv /\ CallInv /\ ReleaseOnce
  BY DEF IInv
<1>2. Shapes'
  BY <1>0, <1>1 DEF Shapes, CreatorsExclude, Cpu
<1>3. OwnInv' /\ PoolsInv' /\ LiveInv' /\ CtrlInv'
  <2>1. Len(heap) \in Nat
    BY <1>0, LenProperties DEF Shapes
  <2> QED BY <1>0, <1>1, <2>1, LocksOnly DEF SameLists
<1>4. BootInv' /\ ChainInv' /\ ReleaseOnce'
  BY <1>0, <1>1 DEF BootInv, ChainInv, Unused, ReleaseOnce
<1>5. CallInv'
  BY <1>0, <1>1 DEF CallInv, CallOk, InCritical, Cpu, CtrlOf, Unused, Home, Owned
<1> QED BY <1>2, <1>3, <1>4, <1>5 DEF IInv

LEMMA NextKeeps ==
  ASSUME IInv, [Next]_vars
  PROVE  IInv'
<1>1. CASE \E k \in Ctrls : CtrlInit(k)
  BY <1>1, CtrlInitKeeps
<1>2. CASE \E t \in Threads : Get(t)
  BY <1>2, GetKeeps
<1>3. CASE \E t \in Threads : GetStep(t)
  <2>1. PICK t \in Threads : GetStep(t)
    BY <1>3
  <2>2. CASE GetLock(t)
    BY <2>2, GetLockKeeps
  <2>3. CASE NoMorePools(t)
    BY <2>3, NoMorePoolsKeeps
  <2>4. CASE ReadFreePool(t)
    BY <2>4, ReadFreePoolKeeps
  <2>5. CASE PopFreePool(t)
    BY <2>5, PopFreePoolKeeps
  <2>6. CASE CreatePool(t)
    BY <2>6, CreatePoolKeeps
  <2>7. CASE Take(t)
    BY <2>7, TakeKeeps
  <2> QED BY <2>1, <2>2, <2>3, <2>4, <2>5, <2>6, <2>7 DEF GetStep
<1>4. CASE \E t \in Threads : ReleaseStep(t)
  <2>1. PICK t \in Threads : ReleaseStep(t)
    BY <1>4
  <2>2. CASE ReleaseLock(t)
    BY <2>2, ReleaseLockKeeps
  <2>3. CASE ReleaseBody(t)
    BY <2>3, ReleaseBodyKeeps
  <2> QED BY <2>1, <2>2, <2>3 DEF ReleaseStep
<1>5. CASE \E t \in Threads : \E res \in live : Release(t, res)
  BY <1>5, ReleaseKeeps
<1>6. CASE UNCHANGED vars
  BY <1>6, StutterKeeps
<1>7. CASE \E res \in live : \E bit \in app.bits : Mark(res, bit)
  BY <1>7, MarkKeeps
<1> QED BY <1>1, <1>2, <1>3, <1>4, <1>5, <1>6, <1>7 DEF Next

LEMMA IInvHolds == Spec /\ CreatorsExclude(app) => []IInv
<1>1. Init /\ CreatorsExclude(app) => IInv
  BY InitInv
<1>2. IInv /\ [Next]_vars => IInv'
  BY NextKeeps
<1> QED BY <1>1, <1>2, PTL DEF Spec


-----------------------------------------------------------------------------
(* The properties. *)

(* A list without repetitions is as long as the set it holds. *)
LEMMA OnceCounts ==
  ASSUME NEW S, NEW q \in Seq(S), Once(q)
  PROVE  Cardinality(Members(q)) = Len(q)
<1>1. Len(q) \in Nat /\ DOMAIN q = 1 .. Len(q) /\ q \in [1 .. Len(q) -> S]
  BY LenProperties
<1>2. \A x : x \in Members(q) <=> \E i \in 1 .. Len(q) : q[i] = x
  BY MembersOf
<1>3. q \in Bijection(1 .. Len(q), Members(q))
  <2>1. q \in [1 .. Len(q) -> Members(q)]
    BY <1>1, <1>2
  <2>2. \A x \in Members(q) : \E i \in 1 .. Len(q) : q[i] = x
    BY <1>2
  <2>3. \A i, j \in 1 .. Len(q) : q[i] = q[j] => i = j
    BY DEF Once
  <2> QED BY <2>1, <2>2, <2>3 DEF Bijection, Injection, Surjection, IsInjective
<1>4. IsFiniteSet(1 .. Len(q)) /\ Cardinality(1 .. Len(q)) = Len(q)
  BY <1>1, FS_Interval
<1>5. ExistsBijection(1 .. Len(q), Members(q))
  BY <1>3 DEF ExistsBijection
<1> QED BY <1>4, <1>5, FS_Bijection

(* The free list of a pool that has an owner, and its length. *)
LEMMA PoolExact ==
  ASSUME Shapes, PoolsInv, NEW p \in PoolIds, Owned(p)
  PROVE  /\ Members(FreeAt(p)) = (0 .. pools[p].num - 1) \ Held(p)
         /\ pools[p].free_num + Cardinality(Held(p)) = pools[p].num
         /\ pools[p].free_num \in 0 .. pools[p].num
         /\ Short(pools[p].res_free)
         /\ pools[p].free_num > 0 => pools[p].res_free < pools[p].num
<1>1. PICK n, num, first, words, held :
        /\ n = pools[p].free_num /\ num = pools[p].num /\ first = pools[p].res_free
        /\ words = heap[Block(p)] /\ held = Held(p)
  OBVIOUS
<1>2. n \in Nat /\ num \in Nat
  BY <1>1 DEF Shapes, PoolRecs
<1>3. num > 0 /\ ListOk(num, first, n, words, held, pools[p].id)
  BY <1>1 DEF PoolsInv, PoolInv
<1>4. PICK L : ChainOk(num, first, n, words, held, L)
  BY <1>3 DEF ListOk
<1>5. Short(first) /\ (n > 0 => first < num)
  <2>1. Short(first)
    BY <1>3 DEF ListOk
  <2>2. n > 0 => first \in 0 .. num - 1
    BY <1>2, <1>4, ChainFirst
  <2> QED BY <1>2, <2>1, <2>2
<1>6. held \subseteq 0 .. num - 1
  BY <1>1 DEF Held
<1>7. Members(L) = (0 .. num - 1) \ held /\ n + Cardinality(held) = num
  <2>1. num \in Nat /\ num > 0
    BY <1>2, <1>3
  <2>2. IsRest(L, n, num, held)
    BY <1>2, <1>4, <1>6, <2>1, ListCount
  <2> QED BY <2>2 DEF IsRest
<1>8. FreeAt(p) = L
  <2>1. ChainOk(num, pools[p].res_free, pools[p].free_num, heap[Block(p)], held, L)
    BY <1>1, <1>4
  <2>2. pools[p].free_num \in Nat
    BY <1>1, <1>2
  <2> QED BY <1>2, <2>1, <2>2, WalkMeetsList
<1>9. Cardinality(held) \in Nat
  <2>1. IsFiniteSet(0 .. num - 1)
    BY <1>2, FS_Interval
  <2>2. IsFiniteSet(held)
    BY <1>6, <2>1, FS_Subset
  <2> QED BY <2>2, FS_CardinalityType
<1>10. n \in 0 .. num
  BY <1>2, <1>7, <1>9
<1> QED BY <1>1, <1>5, <1>7, <1>8, <1>10

LEMMA TypeFollows ==
  ASSUME IInv
  PROVE  TypeOK
<1>0. Shapes /\ OwnInv /\ PoolsInv /\ CtrlInv
  BY DEF IInv
<1>1. ASSUME NEW p \in PoolIds
      PROVE  /\ pools[p].base_adr \in Pointers /\ pools[p].ctrl \in Ctrls \cup {NoCtrl}
             /\ pools[p].free_num \in 0 .. pools[p].num
             /\ pools[p].res_free \in Nat /\ pools[p].res_free < 2^16
             /\ pools[p].free_num > 0 => pools[p].res_free < pools[p].num
  <2>0. 2^16 = 65536
    BY Powers
  <2>1. /\ pools[p].base_adr \in Pointers /\ pools[p].ctrl \in Ctrls \cup {NoCtrl}
        /\ pools[p].num \in Nat
    BY <1>0 DEF Shapes, PoolRecs
  <2>2. CASE Owned(p)
    BY <1>0, <2>0, <2>1, <2>2, PoolExact DEF Short
  <2>3. CASE ~Owned(p)
    <3>1. pools[p].free_num = 0 /\ pools[p].res_free = 0
      BY <1>0, <2>3 DEF OwnInv
    <3> QED BY <2>0, <2>1, <3>1
  <2> QED BY <2>2, <2>3
<1>2. ASSUME NEW k \in Ctrls
      PROVE  /\ ctrls[k].free_pools \in Seq(PoolIds) /\ ctrls[k].total_pools \in Seq(PoolIds)
             /\ ctrls[k].num = Len(ctrls[k].total_pools) /\ ctrls[k].num <= app.ctrls[k].max
             /\ ctrls[k].lock \in Threads \cup {NoThread}
  BY <1>0 DEF Shapes, CtrlRecs, CtrlInv, CtrlOk
<1> QED BY <1>0, <1>1, <1>2 DEF TypeOK, Shapes

LEMMA ListsFollow ==
  ASSUME IInv
  PROVE  FreeListsExact
<1>0. Shapes /\ OwnInv /\ PoolsInv /\ CtrlInv
  BY DEF IInv
<1>1. ASSUME NEW p \in Created
      PROVE  LET held == {i \in 0 .. pools[p].num - 1 : <<pools[p].base_adr, i>> \in live}
             IN  /\ Members(FreeAt(p)) = (0 .. pools[p].num - 1) \ held
                 /\ pools[p].free_num + Cardinality(held) = pools[p].num
  <2>1. p \in PoolIds /\ Owned(p)
    BY <1>0 DEF Created, OwnInv
  <2>2. /\ Members(FreeAt(p)) = (0 .. pools[p].num - 1) \ Held(p)
        /\ pools[p].free_num + Cardinality(Held(p)) = pools[p].num
    BY <1>0, <2>1, PoolExact
  <2> QED BY <2>2 DEF Held
<1>2. ASSUME NEW k \in Ctrls
      PROVE  LET free == ctrls[k].free_pools
             IN  /\ Members(free) = {p \in Members(ctrls[k].total_pools) : pools[p].free_num > 0}
                 /\ Cardinality(Members(free)) = Len(free)
  <2>1. PICK free, total : free = ctrls[k].free_pools /\ total = ctrls[k].total_pools
    OBVIOUS
  <2>2. free \in Seq(PoolIds) /\ total \in Seq(PoolIds)
    BY <1>0, <2>1 DEF Shapes, CtrlRecs
  <2>3. Members(free) \subseteq PoolIds /\ Members(total) \subseteq PoolIds
    BY <2>2, MembersOf
  <2>4. /\ \A p \in PoolIds : p \in Members(free) <=> pools[p].ctrl = k /\ pools[p].free_num > 0
        /\ Once(free)
    BY <1>0, <2>1 DEF CtrlInv, CtrlOk
  <2>5. \A p \in PoolIds : p \in Members(total) <=> pools[p].ctrl = k
    BY <1>0, <2>1 DEF OwnInv
  <2>6. Members(free) = {p \in Members(total) : pools[p].free_num > 0}
    BY <2>3, <2>4, <2>5
  <2>7. Cardinality(Members(free)) = Len(free)
    BY <2>2, <2>4, OnceCounts
  <2> QED BY <2>1, <2>6, <2>7
<1>3. TypeOK
  BY TypeFollows
<1> QED BY <1>1, <1>2, <1>3 DEF FreeListsExact

LEMMA IdsFollow ==
  ASSUME IInv
  PROVE  IdFindsResource
<1>0. Shapes /\ OwnInv /\ PoolsInv /\ LiveInv
  BY DEF IInv
<1>1. ASSUME NEW res \in live
      PROVE  /\ acoral_get_res_by_id(WordAt(res)) = res
             /\ \E k \in Ctrls : /\ PoolIndex(WordAt(res)) \in Members(ctrls[k].total_pools)
                                 /\ ResType(WordAt(res)) = app.ctrls[k].type
  <2>1. PICK p \in PoolIds : Home(res, p)
    BY <1>0 DEF LiveInv
  <2>2. PICK w : w = WordAt(res)
    OBVIOUS
  <2>3. /\ res = <<pools[p].base_adr, res[2]>> /\ PoolIndex(w) = p /\ ResIndex(w) = res[2]
        /\ ResType(w) = app.ctrls[pools[p].ctrl].type /\ pools[p].ctrl \in Ctrls
    BY <1>0, <2>1, <2>2, LiveWord
  <2>4. acoral_get_res_by_id(w) = res
    BY <2>3 DEF acoral_get_res_by_id
  <2>5. p \in Members(ctrls[pools[p].ctrl].total_pools)
    BY <1>0, <2>3 DEF OwnInv
  <2> QED BY <2>2, <2>3, <2>4, <2>5
<1> QED BY <1>1 DEF IdFindsResource

LEMMA FreePoolFollows ==
  ASSUME IInv
  PROVE  FreePoolIsFree
<1>0. Shapes /\ OwnInv /\ ChainInv /\ CallInv
  BY DEF IInv
<1>1. free_pool.to \in {"null", "pool"}
  BY <1>0 DEF ChainInv, Null, PoolPtr
<1>2. ASSUME free_pool.to = "pool"
      PROVE  /\ pools[free_pool.n].ctrl = NoCtrl
             /\ \A k \in Ctrls : free_pool.n \notin Members(ctrls[k].total_pools)
             /\ \A t \in Threads : pc[t] = "create" => reg[t].pool # free_pool.n
  <2>1. PICK f : f = free_pool.n
    OBVIOUS
  <2>2. free_pool # Null /\ Unused(f)
    BY <1>0, <1>2, <2>1 DEF ChainInv, Null
  <2>3. f \in PoolIds /\ pools[f].ctrl = NoCtrl
    BY <2>2, UnusedPool
  <2>4. \A k \in Ctrls : f \notin Members(ctrls[k].total_pools)
    BY <1>0, <2>3, PoolNullsAssumption DEF OwnInv
  <2>5. ASSUME NEW t \in Threads, pc[t] = "create" PROVE reg[t].pool # f
    <3>1. reg[t].pool \in PoolIds /\ reg[t].pool < f
      BY <1>0, <2>1, <2>2, <2>5 DEF CallInv, CallOk, Unused
    <3>2. reg[t].pool \in Nat /\ f \in Nat
      BY <2>3, <3>1, PoolIdsFit
    <3> QED BY <3>1, <3>2
  <2> QED BY <2>1, <2>3, <2>4, <2>5
<1>3. \A t, u \in Threads : ~(pc[t] \in {"pop", "create"} /\ pc[u] \in {"pop", "create"} /\ t # u)
  BY <1>0, OneCreator DEF Creating
<1> QED BY <1>1, <1>2, <1>3 DEF FreePoolIsFree

(* However acoral_get_res and acoral_release_res interleave on any number  *)
(* of CPUs, the free list of every pool holds its unused resources and the *)
(* free_pools of every control block its pools that have one, each once.   *)
THEOREM FreeListsAlwaysExact == Spec /\ CreatorsExclude(app) => []FreeListsExact
<1>1. IInv => FreeListsExact
  BY ListsFollow
<1> QED BY <1>1, IInvHolds, PTL

(* The id that acoral_get_res gives a resource always leads back to it, so *)
(* acoral_release_res finds the pool that the resource came from.          *)
THEOREM IdsAlwaysFindResources == Spec /\ CreatorsExclude(app) => []IdFindsResource
<1>1. IInv => IdFindsResource
  BY IdsFollow
<1> QED BY <1>1, IInvHolds, PTL

(* acoral_get_free_pool never hands out a pool that is in use or that      *)
(* another thread is creating.                                             *)
THEOREM FreePoolAlwaysFree == Spec /\ CreatorsExclude(app) => []FreePoolIsFree
<1>1. IInv => FreePoolIsFree
  BY FreePoolFollows
<1> QED BY <1>1, IInvHolds, PTL

=============================================================================
