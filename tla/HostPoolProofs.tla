--------------------------- MODULE HostPoolProofs ---------------------------
(***************************************************************************)
(* While instances go youngest first the bump allocator is a stack: the     *)
(* blocks in use tile the pool from 0 to s_ptr, the address of a block says *)
(* how old it is, and the block deleted next is the one on top.             *)
(***************************************************************************)
EXTENDS HostPool, TLAPS

USE PoolAssumption

-----------------------------------------------------------------------------
(* A pool of blocks as a stack.                                             *)

Block == [at : Nat, words : Nat \ {0}]

(* The blocks of L tile the words below p.                                  *)
Tiles(L, p) ==
  /\ p \in Nat
  /\ L \subseteq Block
  /\ \A b \in L : b.at + b.words <= p
  /\ \A b, c \in L : b = c \/ b.at + b.words <= c.at \/ c.at + c.words <= b.at
  /\ \A w \in 0 .. p - 1 : \E b \in L : b.at <= w /\ w < b.at + b.words

(* inv_sys_malloc_create on such a pool.                                    *)
LEMMA Push ==
  ASSUME NEW L, NEW p, Tiles(L, p), NEW n \in Nat \ {0}
  PROVE  Tiles(L \cup { [at |-> p, words |-> n] }, p + n)
<1> DEFINE x == [at |-> p, words |-> n]
           M == L \cup {x}
<1>1. p \in Nat /\ x \in Block /\ x.at = p /\ x.words = n
  BY DEF Tiles, Block
<1>2. \A b \in L : b.at \in Nat /\ b.words \in Nat \ {0} /\ b.at + b.words <= p
  BY DEF Tiles, Block
<1>3. \A b \in M : b.at + b.words <= p + n
  BY <1>1, <1>2
<1>4. \A b, c \in M : b = c \/ b.at + b.words <= c.at \/ c.at + c.words <= b.at
  BY <1>1, <1>2 DEF Tiles
<1>5. ASSUME NEW w \in 0 .. (p + n) - 1
      PROVE  \E b \in M : b.at <= w /\ w < b.at + b.words
  <2>1. CASE w < p
    BY <1>1, <2>1 DEF Tiles
  <2>2. CASE ~ (w < p)
    BY <1>1, <2>2
  <2> QED BY <2>1, <2>2
<1> QED BY <1>1, <1>3, <1>4, <1>5 DEF Tiles

(* inv_sys_malloc_delete of the block with the highest address.             *)
LEMMA Pop ==
  ASSUME NEW L, NEW p, Tiles(L, p), NEW x \in L, \A b \in L : b.at <= x.at
  PROVE  x.at < p /\ Tiles(L \ {x}, x.at)
<1>1. \A b \in L : b.at \in Nat /\ b.words \in Nat \ {0} /\ b.at + b.words <= p
  BY DEF Tiles, Block
<1>2. \A b \in L \ {x} : b.at + b.words <= x.at
  BY <1>1 DEF Tiles
<1>3. ASSUME NEW w \in 0 .. x.at - 1
      PROVE  \E b \in L \ {x} : b.at <= w /\ w < b.at + b.words
  <2>1. p \in Nat /\ w \in 0 .. p - 1
    BY <1>1 DEF Tiles
  <2>2. PICK b \in L : b.at <= w /\ w < b.at + b.words
    BY <2>1 DEF Tiles
  <2> QED BY <1>1, <2>2
<1> QED BY <1>1, <1>2, <1>3 DEF Tiles

-----------------------------------------------------------------------------
(* The inductive invariant.                                                 *)

Places == { "none", "obj", "ipc_list", "ipc", "req", "ack", "up", "crashed", "free_ack",
            "free_req", "free_ipc", "free_ipc_list", "free_obj", "free_list" }
Exists(i) == pc[i] \notin { "none", "obj", "free_list" }
Has(i, k) == block[i][k] # Null

List == [at : Nat \cup {Null}, chain : SUBSET Inst]

BlockTypes ==
  /\ s_ptr \in 0 .. PoolWords
  /\ block \in [Inst -> [Kind -> Nat \cup {Null}]]
  /\ pc \in [Inst -> Places]
  /\ \A i \in Inst : \A k \in Kind : Has(i, k) => block[i][k] + Words(k) <= PoolWords
ListTypes ==
  /\ obj_list \in List /\ (obj_list.at # Null => obj_list.at + ListWords <= PoolWords)
  /\ ipc_list \in List /\ (ipc_list.at # Null => ipc_list.at + ListWords <= PoolWords)
  /\ order \in Seq(Inst) /\ in_order \in BOOLEAN /\ creates \in Nat
Types == BlockTypes /\ ListTypes

(* What an instance holds at each place of inv478x_create and _delete.      *)
Holding(i) ==
  /\ Has(i, "obj") <=> Exists(i)
  /\ pc[i] \in { "req", "ack", "up", "free_ack", "free_req", "free_ipc" } => Has(i, "ipc")
  /\ Has(i, "ipc") =>
       pc[i] \in { "req", "ack", "up", "free_ack", "free_req", "free_ipc", "crashed" }
  /\ pc[i] \in { "ack", "up", "free_ack", "free_req" } => Has(i, "req")
  /\ Has(i, "req") => pc[i] \in { "ack", "up", "free_ack", "free_req", "crashed" }
  /\ pc[i] \in { "up", "free_ack" } => Has(i, "ack")
  /\ Has(i, "ack") => pc[i] \in { "up", "free_ack", "crashed" }
  /\ Has(i, "temp") => pc[i] = "up"

(* One instance at a time is created, deleted or in a call-back.            *)
OneBusy == \A i, j \in Inst : i # j => Settled(i) \/ Settled(j)

ListsMatch ==
  /\ obj_list.chain = { i \in Inst : Exists(i) }
  /\ ipc_list.chain = { i \in Inst : Has(i, "ipc") }
  /\ obj_list.at = Null => \A i \in Inst : pc[i] = "none"
  /\ ipc_list.at = Null => \A i \in Inst :
       pc[i] \notin { "ipc", "req", "ack", "up", "free_ack", "free_req", "free_ipc", "free_ipc_list" }
  /\ \A i \in Inst : pc[i] = "free_list" => obj_list.chain = {}
  /\ \A i \in Inst : pc[i] = "free_ipc_list" => ipc_list.chain = {}
  /\ \A i \in Inst : pc[i] = "free_obj" /\ ipc_list.at # Null => ipc_list.chain # {}

Shape == Types /\ (\A i \in Inst : Holding(i)) /\ OneBusy /\ ListsMatch

(* The address of a block says how old it is: within an instance in the     *)
(* order of inv478x_create, between instances in the order of their creation,*)
(* the message of a call-back last, and the lists came with the first.      *)
Rank(k) == CASE k = "obj" -> 1 [] k = "ipc" -> 2 [] k = "req" -> 3 [] k = "ack" -> 4 [] OTHER -> 5

OrderMatches ==
  /\ \A m, n \in DOMAIN order : order[m] = order[n] => m = n
  /\ \A i \in Inst : Exists(i) <=> \E n \in DOMAIN order : order[n] = i
  /\ \A n \in DOMAIN order : n < Len(order) => pc[order[n]] \in { "up", "crashed" }

InstancesByAge ==
  /\ \A i \in Inst : \A k, l \in Kind :
       Has(i, k) /\ Has(i, l) /\ Rank(k) < Rank(l) => block[i][k] < block[i][l]
  /\ \A m, n \in DOMAIN order : \A k, l \in Kind \ {"temp"} :
       m < n /\ Has(order[m], k) /\ Has(order[n], l) => block[order[m]][k] < block[order[n]][l]
  /\ \A i, j \in Inst : \A k \in Kind :
       i # j /\ Has(i, "temp") /\ Has(j, k) => block[j][k] < block[i]["temp"]

ListsByAge ==
  /\ obj_list.at # Null =>
       /\ ipc_list.at # Null => obj_list.at < ipc_list.at
       /\ \A i \in Inst : \A k \in Kind : Has(i, k) => obj_list.at < block[i][k]
  /\ ipc_list.at # Null =>
       /\ obj_list.at # Null
       /\ order # << >> /\ (Has(order[1], "obj") => block[order[1]]["obj"] < ipc_list.at)
       /\ \A i \in Inst : \A k \in Kind :
            Has(i, k) /\ (k # "obj" \/ i # order[1]) => ipc_list.at < block[i][k]

Aged == OrderMatches /\ InstancesByAge /\ ListsByAge

Stack == in_order => Tiles(Live, s_ptr) /\ Aged

IInv == Shape /\ Stack

-----------------------------------------------------------------------------
(* The pieces of a step.                                                     *)

LEMMA WordsOf == \A k \in Kind : Words(k) \in Nat \ {0}
  BY DEF Kind, Words

LEMMA OtherMessage == FirstMessage = "ack" /\ LastMessage = "req"
  BY DEF FirstMessage, LastMessage

LEMMA GoToSets ==
  ASSUME BlockTypes, NEW i \in Inst, NEW l \in Places, GoTo(i, l)
  PROVE  pc' \in [Inst -> Places] /\ pc'[i] = l /\ \A j \in Inst \ {i} : pc'[j] = pc[j]
  BY DEF BlockTypes, GoTo

LEMMA BlockSets ==
  ASSUME BlockTypes, NEW i \in Inst, NEW k \in Kind, NEW v \in Nat \cup {Null},
         block' = [block EXCEPT ![i][k] = v]
  PROVE  /\ block' \in [Inst -> [Kind -> Nat \cup {Null}]]
         /\ block'[i][k] = v
         /\ \A l \in Kind \ {k} : block'[i][l] = block[i][l]
         /\ \A j \in Inst \ {i} : block'[j] = block[j]
  BY DEF BlockTypes

LEMMA AllocateSets ==
  ASSUME BlockTypes, NEW i \in Inst, NEW k \in Kind, NEW next \in Places, Allocate(i, k, next)
  PROVE  /\ s_ptr' \in 0 .. PoolWords
         /\ pc' \in [Inst -> Places]
         /\ block' \in [Inst -> [Kind -> Nat \cup {Null}]]
         /\ \A j \in Inst \ {i} : pc'[j] = pc[j] /\ block'[j] = block[j]
         /\ \A l \in Kind \ {k} : block'[i][l] = block[i][l]
         /\ \/ /\ pc'[i] = next /\ block'[i][k] = s_ptr /\ block'[i][k] # Null
               /\ s_ptr' = s_ptr + Words(k) /\ s_ptr' <= PoolWords
            \/ pc'[i] = "crashed" /\ block' = block /\ s_ptr' = s_ptr
<1>1. Words(k) \in Nat \ {0} /\ s_ptr \in Nat /\ s_ptr \in Nat \cup {Null}
  BY WordsOf DEF BlockTypes
<1>2. CASE Fits(Words(k))
  <2>1. /\ block' = [block EXCEPT ![i][k] = s_ptr] /\ GoTo(i, next)
        /\ s_ptr' = s_ptr + Words(k) /\ s_ptr' < PoolWords
    BY <1>2 DEF Allocate, Malloc, Fits
  <2>2. s_ptr' \in 0 .. PoolWords /\ s_ptr # Null
    BY <1>1, <2>1 DEF Null
  <2>3. pc' \in [Inst -> Places] /\ pc'[i] = next /\ \A j \in Inst \ {i} : pc'[j] = pc[j]
    BY <2>1, GoToSets
  <2>4. /\ block' \in [Inst -> [Kind -> Nat \cup {Null}]] /\ block'[i][k] = s_ptr
        /\ \A l \in Kind \ {k} : block'[i][l] = block[i][l]
        /\ \A j \in Inst \ {i} : block'[j] = block[j]
    BY <1>1, <2>1, BlockSets, ZenonT(30)
  <2> QED BY <1>1, <2>1, <2>2, <2>3, <2>4
<1>3. CASE ~ Fits(Words(k))
  <2>1. GoTo(i, "crashed") /\ block' = block /\ s_ptr' = s_ptr /\ "crashed" \in Places
    BY <1>3 DEF Allocate, Places
  <2> QED BY <2>1, GoToSets DEF BlockTypes
<1> QED BY <1>2, <1>3

(* The types a step on one block of one instance has to keep.                *)
LEMMA TypesKept ==
  ASSUME BlockTypes, NEW i \in Inst, NEW k \in Kind,
         s_ptr' \in 0 .. PoolWords, pc' \in [Inst -> Places],
         block' \in [Inst -> [Kind -> Nat \cup {Null}]],
         \A j \in Inst \ {i} : block'[j] = block[j],
         \A l \in Kind \ {k} : block'[i][l] = block[i][l],
         Has(i, k)' => block'[i][k] + Words(k) <= PoolWords
  PROVE  BlockTypes'
<1>1. ASSUME NEW j \in Inst, NEW l \in Kind, Has(j, l)'
      PROVE  block'[j][l] + Words(l) <= PoolWords
  <2>1. CASE j = i /\ l = k
    BY <1>1, <2>1
  <2>2. CASE ~ (j = i /\ l = k)
    BY <1>1, <2>2 DEF BlockTypes, Has
  <2> QED BY <2>1, <2>2
<1> QED BY <1>1 DEF BlockTypes, Has

LEMMA AllocateTypes ==
  ASSUME BlockTypes, NEW i \in Inst, NEW k \in Kind, NEW next \in Places, Allocate(i, k, next)
  PROVE  BlockTypes'
<1>1. Has(i, k)' => block'[i][k] + Words(k) <= PoolWords
  BY AllocateSets DEF BlockTypes, Has
<1> QED BY <1>1, AllocateSets, TypesKept

LEMMA ReleaseSets ==
  ASSUME BlockTypes, NEW i \in Inst, NEW k \in Kind, NEW next \in Places, Release(i, k, next), Has(i, k)
  PROVE  /\ s_ptr' \in 0 .. PoolWords /\ s_ptr' = block[i][k]
         /\ pc' \in [Inst -> Places] /\ pc'[i] = next
         /\ block' \in [Inst -> [Kind -> Nat \cup {Null}]]
         /\ \A j \in Inst \ {i} : pc'[j] = pc[j] /\ block'[j] = block[j]
         /\ \A l \in Kind \ {k} : block'[i][l] = block[i][l]
         /\ block'[i][k] = Null
<1>1. /\ s_ptr' = block[i][k] /\ block' = [block EXCEPT ![i][k] = Null] /\ GoTo(i, next)
  BY DEF Release, FreeBlock
<1>2. block[i][k] \in Nat /\ block[i][k] + Words(k) <= PoolWords
  BY DEF BlockTypes, Has
<1>3. s_ptr' \in 0 .. PoolWords
  BY <1>1, <1>2, WordsOf
<1>4. pc' \in [Inst -> Places] /\ pc'[i] = next /\ \A j \in Inst \ {i} : pc'[j] = pc[j]
  BY <1>1, GoToSets
<1>5. /\ block' \in [Inst -> [Kind -> Nat \cup {Null}]] /\ block'[i][k] = Null
      /\ \A l \in Kind \ {k} : block'[i][l] = block[i][l]
      /\ \A j \in Inst \ {i} : block'[j] = block[j]
  BY <1>1, BlockSets, ZenonT(30)
<1> QED BY <1>1, <1>3, <1>4, <1>5

(* What another instance holds, and whether it is settled, is not touched.   *)
LEMMA OthersHold ==
  ASSUME Shape, NEW i \in Inst, MayRun(i),
         \A j \in Inst \ {i} : pc'[j] = pc[j] /\ block'[j] = block[j]
  PROVE  /\ \A j \in Inst \ {i} : Holding(j)' /\ Settled(j)'
         /\ OneBusy'
<1>1. \A j \in Inst \ {i} : Holding(j)' /\ Settled(j)'
  BY DEF Shape, Holding, Has, Exists, MayRun, Settled
<1> QED BY <1>1 DEF OneBusy

(* A step that creates or deletes messages leaves the lists as they match.    *)
LEMMA ListsKept ==
  ASSUME Shape, NEW i \in Inst, UNCHANGED << obj_list, ipc_list >>,
         \A j \in Inst \ {i} : pc'[j] = pc[j] /\ block'[j] = block[j],
         block'[i]["ipc"] = block[i]["ipc"],
         pc[i] \in { "req", "ack", "up", "free_ack", "free_req" },
         pc'[i] \in { "ack", "up", "free_ack", "free_req", "free_ipc", "crashed" }
  PROVE  ListsMatch'
<1>1. \A j \in Inst : (Exists(j)' <=> Exists(j)) /\ (Has(j, "ipc")' <=> Has(j, "ipc"))
  BY DEF Exists, Has
<1>2. obj_list'.chain = {j \in Inst : Exists(j)'} /\ ipc_list'.chain = {j \in Inst : Has(j, "ipc")'}
  BY <1>1 DEF Shape, ListsMatch
<1>3. obj_list.at # Null /\ ipc_list.at # Null
  BY DEF Shape, ListsMatch
<1> QED BY <1>2, <1>3 DEF Shape, ListsMatch

LEMMA ReleaseTypes ==
  ASSUME BlockTypes, NEW i \in Inst, NEW k \in Kind, NEW next \in Places, Release(i, k, next), Has(i, k)
  PROVE  BlockTypes'
  BY ReleaseSets, TypesKept DEF Has

-----------------------------------------------------------------------------
(* The shape is kept, whether or not instances go youngest first.            *)

LEMMA ShapeCreateBegin ==
  ASSUME Shape, NEW i \in Inst, CreateBegin(i)
  PROVE  Shape'
<1>1. /\ MayRun(i) /\ pc[i] = "none" /\ UNCHANGED << ipc_list, block, order, in_order >>
      /\ "obj" \in Places /\ creates' \in Nat /\ BlockTypes
  BY DEF CreateBegin, Shape, Types, ListTypes, Places
<1>2. CASE obj_list.at # Null
  <2>1. GoTo(i, "obj") /\ UNCHANGED << s_ptr, obj_list >>
    BY <1>2 DEF CreateBegin
  <2>2. Types'
    BY <1>1, <2>1, GoToSets DEF Shape, Types, BlockTypes, ListTypes, Has
  <2>3. \A j \in Inst : Holding(j)'
    BY <1>1, <2>1, GoToSets, OthersHold DEF Shape, Holding, Has, Exists
  <2>4. ListsMatch'
    BY <1>1, <1>2, <2>1, GoToSets DEF Shape, ListsMatch, Has, Exists
  <2> QED BY <1>1, <2>1, <2>2, <2>3, <2>4, GoToSets, OthersHold DEF Shape
<1>3. CASE obj_list.at = Null /\ Fits(ListWords)
  <2>1. /\ GoTo(i, "obj") /\ s_ptr' = s_ptr + ListWords
        /\ obj_list' = [at |-> s_ptr, chain |-> {}]
    BY <1>3 DEF CreateBegin, Malloc
  <2>2. s_ptr' \in 0 .. PoolWords /\ s_ptr \in Nat /\ s_ptr # Null
    BY <1>1, <1>3, <2>1 DEF Fits, BlockTypes, Null
  <2>3. Types'
    BY <1>1, <2>1, <2>2, GoToSets DEF Shape, Types, BlockTypes, ListTypes, List, Has
  <2>4. \A j \in Inst : Holding(j)'
    BY <1>1, <2>1, GoToSets, OthersHold DEF Shape, Holding, Has, Exists
  <2>5. \A j \in Inst : pc[j] = "none"
    BY <1>3 DEF Shape, ListsMatch
  <2>6. ListsMatch'
    BY <1>1, <2>1, <2>2, <2>5, GoToSets DEF Shape, ListsMatch, Has, Exists
  <2> QED BY <1>1, <2>1, <2>3, <2>4, <2>6, GoToSets, OthersHold DEF Shape
<1>4. CASE obj_list.at = Null /\ ~ Fits(ListWords)
  <2>1. UNCHANGED << s_ptr, obj_list, pc >>
    BY <1>4 DEF CreateBegin
  <2> QED BY <1>1, <2>1 DEF Shape, Types, BlockTypes, ListTypes, Holding, OneBusy, Settled,
                            ListsMatch, Has, Exists
<1> QED BY <1>2, <1>3, <1>4

LEMMA ShapeObjCreate ==
  ASSUME Shape, NEW i \in Inst, ObjCreate(i)
  PROVE  Shape'
<1>1. /\ MayRun(i) /\ pc[i] = "obj" /\ UNCHANGED << ipc_list, creates, in_order >>
      /\ {"none", "ipc_list"} \subseteq Places /\ "obj" \in Kind /\ BlockTypes
      /\ obj_list.at \in Nat /\ obj_list.at # Null
  BY DEF ObjCreate, Shape, Types, ListTypes, List, Places, Kind, ListsMatch
<1>2. CASE Fits(ObjWords)
  <2>1. /\ GoTo(i, "ipc_list") /\ s_ptr' = s_ptr + ObjWords
        /\ block' = [block EXCEPT ![i]["obj"] = s_ptr]
        /\ obj_list' = [obj_list EXCEPT !.chain = @ \cup {i}]
        /\ order' = IF in_order THEN Append(order, i) ELSE order
    BY <1>2 DEF ObjCreate, Malloc
  <2>2. s_ptr' \in 0 .. PoolWords /\ s_ptr \in Nat /\ s_ptr # Null /\ Words("obj") = ObjWords
    BY <1>1, <1>2, <2>1 DEF Fits, BlockTypes, Null, Words
  <2>3. /\ block' \in [Inst -> [Kind -> Nat \cup {Null}]] /\ block'[i]["obj"] = s_ptr
        /\ \A l \in Kind \ {"obj"} : block'[i][l] = block[i][l]
        /\ \A j \in Inst \ {i} : block'[j] = block[j]
    <3>1. s_ptr \in Nat \cup {Null}
      BY <2>2
    <3> QED BY <1>1, <2>1, <3>1, BlockSets, ZenonT(30)
  <2>4. /\ pc' \in [Inst -> Places] /\ pc'[i] = "ipc_list"
        /\ \A j \in Inst \ {i} : pc'[j] = pc[j]
    BY <1>1, <2>1, GoToSets
  <2>5. ListTypes'
    BY <1>1, <2>1 DEF Shape, Types, ListTypes, List
  <2>6. BlockTypes'
    BY <1>1, <2>1, <2>2, <2>3, <2>4, TypesKept
  <2>7. \A j \in Inst : Holding(j)'
    BY <1>1, <2>2, <2>3, <2>4, OthersHold DEF Shape, Holding, Has, Exists, Kind
  <2>8. ListsMatch'
    <3>1. obj_list'.at = obj_list.at /\ obj_list'.chain = obj_list.chain \cup {i}
      BY <2>1 DEF Shape, Types, ListTypes, List
    <3>2. \A j \in Inst : /\ Exists(j)' <=> Exists(j) \/ j = i
                          /\ Has(j, "ipc")' <=> Has(j, "ipc")
      BY <1>1, <2>3, <2>4 DEF Exists, Has, Kind
    <3>3. \A j \in Inst \ {i} : pc'[j] \in { "none", "up" }
      BY <1>1, <2>4 DEF MayRun, Settled
    <3>4. ipc_list' = ipc_list /\ (ipc_list.at = Null => \A j \in Inst \ {i} : pc[j] # "up")
      BY <1>1 DEF Shape, ListsMatch
    <3>5. obj_list'.chain = {j \in Inst : Exists(j)'} /\ ipc_list'.chain = {j \in Inst : Has(j, "ipc")'}
      BY <3>1, <3>2, <3>4 DEF Shape, ListsMatch
    <3> QED BY <1>1, <2>4, <3>1, <3>3, <3>4, <3>5 DEF Shape, ListsMatch
  <2> QED BY <1>1, <2>3, <2>4, <2>5, <2>6, <2>7, <2>8, OthersHold DEF Shape, Types
<1>3. CASE ~ Fits(ObjWords)
  <2>1. GoTo(i, "none") /\ EmptyListFreed /\ UNCHANGED << block, order >>
    BY <1>3 DEF ObjCreate
  <2>2. /\ pc' \in [Inst -> Places] /\ pc'[i] = "none"
        /\ \A j \in Inst \ {i} : pc'[j] = pc[j]
    BY <1>1, <2>1, GoToSets
  <2>3. \/ obj_list.chain = {} /\ s_ptr' = obj_list.at /\ obj_list' = [at |-> Null, chain |-> {}]
        \/ obj_list.chain # {} /\ UNCHANGED << s_ptr, obj_list >>
    BY <2>1 DEF EmptyListFreed, FreeBlock, NoList
  <2>4. Types'
    BY <1>1, <2>1, <2>2, <2>3 DEF Shape, Types, BlockTypes, ListTypes, List, Has
  <2>5. \A j \in Inst : Holding(j)'
    BY <1>1, <2>1, <2>2, OthersHold DEF Shape, Holding, Has, Exists
  <2>6. obj_list.chain = {} => \A j \in Inst : pc'[j] = "none"
    BY <1>1, <2>2 DEF Shape, ListsMatch, Exists, MayRun, Settled
  <2>7. ListsMatch'
    BY <1>1, <2>1, <2>2, <2>3, <2>6 DEF Shape, ListsMatch, Has, Exists
  <2> QED BY <1>1, <2>1, <2>2, <2>4, <2>5, <2>7, OthersHold DEF Shape
<1> QED BY <1>2, <1>3

LEMMA ShapeIpcListCreate ==
  ASSUME Shape, NEW i \in Inst, IpcListCreate(i)
  PROVE  Shape'
<1>1. /\ MayRun(i) /\ pc[i] = "ipc_list" /\ UNCHANGED << obj_list, block, order, creates, in_order >>
      /\ {"ipc", "crashed"} \subseteq Places /\ BlockTypes
  BY DEF IpcListCreate, Shape, Types, Places
<1>2. /\ \E l \in {"ipc", "crashed"} : GoTo(i, l)
      /\ \/ UNCHANGED << s_ptr, ipc_list >> /\ (ipc_list.at = Null => GoTo(i, "crashed"))
         \/ /\ ipc_list.at = Null /\ s_ptr + ListWords < PoolWords
            /\ s_ptr' = s_ptr + ListWords /\ ipc_list' = [at |-> s_ptr, chain |-> {}]
  BY DEF IpcListCreate, Fits, Malloc
<1>3. PICK l \in {"ipc", "crashed"} : GoTo(i, l)
  BY <1>2
<1>4. /\ pc' \in [Inst -> Places] /\ pc'[i] = l
      /\ \A j \in Inst \ {i} : pc'[j] = pc[j]
  BY <1>1, <1>3, GoToSets
<1>5. Types'
  BY <1>1, <1>2, <1>4 DEF Shape, Types, BlockTypes, ListTypes, List, Has, Null
<1>6. \A j \in Inst : Holding(j)'
  BY <1>1, <1>4, OthersHold DEF Shape, Holding, Has, Exists
<1>7. UNCHANGED << s_ptr, ipc_list >> /\ ipc_list.at = Null => pc'[i] = "crashed"
  BY <1>1, <1>2, GoToSets DEF Shape, Types, BlockTypes, Null
<1>8. ListsMatch'
  <2>1. \A j \in Inst : (Exists(j)' <=> Exists(j)) /\ (Has(j, "ipc")' <=> Has(j, "ipc"))
    BY <1>1, <1>4 DEF Exists, Has
  <2>2. CASE UNCHANGED << s_ptr, ipc_list >>
    BY <1>1, <1>4, <1>7, <2>1, <2>2 DEF Shape, ListsMatch
  <2>3. CASE ipc_list.at = Null /\ ipc_list' = [at |-> s_ptr, chain |-> {}]
    <3>1. \A j \in Inst : ~ Has(j, "ipc") \/ pc[j] = "crashed"
      BY <2>3 DEF Shape, ListsMatch, Holding
    <3>2. \A j \in Inst : ~ Has(j, "ipc")
      BY <1>1, <3>1 DEF MayRun
    <3>3. s_ptr # Null
      BY <1>1 DEF BlockTypes, Null
    <3>4. \A j \in Inst \ {i} : pc'[j] \in { "none", "up" }
      BY <1>1, <1>4 DEF MayRun, Settled
    <3> QED BY <1>1, <1>4, <2>1, <2>3, <3>2, <3>3, <3>4 DEF Shape, ListsMatch
  <2> QED BY <1>2, <2>2, <2>3
<1> QED BY <1>1, <1>4, <1>5, <1>6, <1>8, OthersHold DEF Shape

LEMMA ShapeIpcCreate ==
  ASSUME Shape, NEW i \in Inst, IpcCreate(i)
  PROVE  Shape'
<1>1. /\ MayRun(i) /\ pc[i] = "ipc" /\ UNCHANGED << obj_list, order, creates, in_order >>
      /\ {"req", "crashed"} \subseteq Places /\ "ipc" \in Kind /\ BlockTypes /\ Words("ipc") = IpcWords
      /\ Allocate(i, "ipc", "req")
      /\ ipc_list' = IF Fits(IpcWords) THEN [ipc_list EXCEPT !.chain = @ \cup {i}] ELSE ipc_list
  BY DEF IpcCreate, Shape, Types, Places, Kind, Words
<1>2. Types'
  BY <1>1, AllocateTypes DEF Shape, Types, ListTypes, List
<1>3. \A j \in Inst : Holding(j)'
  BY <1>1, AllocateSets, OthersHold DEF Shape, Holding, Has, Exists, Kind
<1>4. IF Fits(IpcWords) THEN block'[i]["ipc"] # Null /\ pc'[i] = "req"
                        ELSE block' = block /\ pc'[i] = "crashed"
  <2>1. CASE Fits(IpcWords)
    <3>1. GoTo(i, "req") /\ block' = [block EXCEPT ![i]["ipc"] = s_ptr]
      BY <1>1, <2>1 DEF Allocate
    <3>2. s_ptr \in Nat \cup {Null} /\ s_ptr # Null
      BY <1>1 DEF BlockTypes, Null
    <3> QED BY <1>1, <2>1, <3>1, <3>2, GoToSets, BlockSets
  <2>2. CASE ~ Fits(IpcWords)
    BY <1>1, <2>2, GoToSets DEF Allocate
  <2> QED BY <2>1, <2>2
<1>5. ListsMatch'
  <2>0. \A j \in Inst \ {i} : pc'[j] = pc[j] /\ block'[j] = block[j]
    BY <1>1, AllocateSets
  <2>1. CASE Fits(IpcWords)
    <3>1. ipc_list'.at = ipc_list.at /\ ipc_list'.chain = ipc_list.chain \cup {i}
      BY <1>1, <2>1 DEF Shape, Types, ListTypes, List
    <3>2. \A j \in Inst : /\ Exists(j)' <=> Exists(j)
                          /\ Has(j, "ipc")' <=> Has(j, "ipc") \/ j = i
      BY <1>1, <1>4, <2>1, AllocateSets DEF Exists, Has
    <3>3. obj_list'.chain = {j \in Inst : Exists(j)'} /\ ipc_list'.chain = {j \in Inst : Has(j, "ipc")'}
      BY <1>1, <3>1, <3>2 DEF Shape, ListsMatch
    <3>4. \A j \in Inst \ {i} : pc'[j] \in { "none", "up" }
      BY <1>1, <2>0 DEF MayRun, Settled
    <3> QED BY <1>1, <1>4, <2>0, <2>1, <3>1, <3>3, <3>4 DEF Shape, ListsMatch
  <2>2. CASE ~ Fits(IpcWords)
    <3>1. ipc_list' = ipc_list /\ block' = block /\ pc'[i] = "crashed"
      BY <1>1, <1>4, <2>2
    <3>2. \A j \in Inst : (Exists(j)' <=> Exists(j)) /\ (Has(j, "ipc")' <=> Has(j, "ipc"))
      BY <1>1, <2>0, <3>1 DEF Exists, Has
    <3>3. obj_list'.chain = {j \in Inst : Exists(j)'} /\ ipc_list'.chain = {j \in Inst : Has(j, "ipc")'}
      BY <1>1, <3>1, <3>2 DEF Shape, ListsMatch
    <3> QED BY <1>1, <2>0, <3>1, <3>3 DEF Shape, ListsMatch
  <2> QED BY <2>1, <2>2
<1> QED BY <1>1, <1>2, <1>3, <1>5, AllocateSets, OthersHold DEF Shape

LEMMA ShapeMessagesCreate ==
  ASSUME Shape, NEW i \in Inst, MessagesCreate(i)
  PROVE  Shape'
<1>1. /\ MayRun(i) /\ UNCHANGED << obj_list, ipc_list, order, creates, in_order >>
      /\ {"req", "ack"} \subseteq Kind /\ {"ack", "up"} \subseteq Places /\ BlockTypes
      /\ \/ pc[i] = "req" /\ Allocate(i, "req", "ack")
         \/ pc[i] = "ack" /\ Allocate(i, "ack", "up")
  BY DEF MessagesCreate, Kind, Places, Shape, Types
<1>2. Types'
  BY <1>1, AllocateTypes DEF Shape, Types, ListTypes
<1>3. \A j \in Inst : Holding(j)'
  <2>1. Holding(i)'
    BY <1>1, AllocateSets DEF Shape, Holding, Has, Exists, Kind
  <2>2. \A j \in Inst \ {i} : pc'[j] = pc[j] /\ block'[j] = block[j]
    BY <1>1, AllocateSets
  <2> QED BY <1>1, <2>1, <2>2, OthersHold
<1>4. ListsMatch'
  <2>1. /\ \A j \in Inst \ {i} : pc'[j] = pc[j] /\ block'[j] = block[j]
        /\ pc'[i] \in {"ack", "up", "crashed"} /\ block'[i]["ipc"] = block[i]["ipc"]
    BY <1>1, AllocateSets DEF Kind
  <2> QED BY <1>1, <2>1, ListsKept
<1> QED BY <1>1, <1>2, <1>3, <1>4, AllocateSets, OthersHold DEF Shape

LEMMA ShapeCallBackBegins ==
  ASSUME Shape, NEW i \in Inst, CallBackBegins(i)
  PROVE  Shape'
<1>1. /\ MayRun(i) /\ UNCHANGED << obj_list, ipc_list, order, creates, in_order >>
      /\ "temp" \in Kind /\ "up" \in Places /\ BlockTypes
      /\ pc[i] = "up" /\ Allocate(i, "temp", "up") /\ block[i]["temp"] = Null
  BY DEF CallBackBegins, Kind, Places, Shape, Types
<1>2. Types'
  BY <1>1, AllocateTypes DEF Shape, Types, ListTypes
<1>3. \A j \in Inst : Holding(j)'
  <2>1. Holding(i)'
    BY <1>1, AllocateSets DEF Shape, Holding, Has, Exists, Kind
  <2>2. \A j \in Inst \ {i} : pc'[j] = pc[j] /\ block'[j] = block[j]
    BY <1>1, AllocateSets
  <2> QED BY <1>1, <2>1, <2>2, OthersHold
<1>4. ListsMatch'
  <2>1. /\ \A j \in Inst \ {i} : pc'[j] = pc[j] /\ block'[j] = block[j]
        /\ pc'[i] \in {"up", "crashed"} /\ block'[i]["ipc"] = block[i]["ipc"]
    BY <1>1, AllocateSets DEF Kind
  <2> QED BY <1>1, <2>1, ListsKept
<1> QED BY <1>1, <1>2, <1>3, <1>4, AllocateSets, OthersHold DEF Shape

LEMMA ShapeCallBackEnds ==
  ASSUME Shape, NEW i \in Inst, CallBackEnds(i)
  PROVE  Shape'
<1>1. /\ MayRun(i) /\ UNCHANGED << obj_list, ipc_list, pc, order, creates, in_order >>
      /\ "temp" \in Kind /\ BlockTypes /\ Has(i, "temp")
      /\ s_ptr' = block[i]["temp"] /\ block' = [block EXCEPT ![i]["temp"] = Null]
  BY DEF CallBackEnds, MessageDeleted, FreeBlock, Kind, Shape, Types, Has
<1>2. /\ block' \in [Inst -> [Kind -> Nat \cup {Null}]] /\ block'[i]["temp"] = Null
      /\ \A l \in Kind \ {"temp"} : block'[i][l] = block[i][l]
      /\ \A j \in Inst \ {i} : block'[j] = block[j]
  BY <1>1, BlockSets, ZenonT(30)
<1>3. s_ptr' \in 0 .. PoolWords
  BY <1>1, WordsOf DEF BlockTypes, Has
<1>4. Types'
  BY <1>1, <1>2, <1>3, TypesKept DEF Shape, Types, BlockTypes, ListTypes, Has
<1>5. \A j \in Inst : Holding(j)'
  BY <1>1, <1>2, OthersHold DEF Shape, Holding, Has, Exists, Kind
<1>6. ListsMatch'
  <2>1. pc[i] = "up" /\ block'[i]["ipc"] = block[i]["ipc"]
    BY <1>1, <1>2 DEF Shape, Holding, Kind
  <2> QED BY <1>1, <1>2, <2>1, ListsKept
<1> QED BY <1>1, <1>2, <1>4, <1>5, <1>6, OthersHold DEF Shape

LEMMA ShapeDeleteBegin ==
  ASSUME Shape, NEW i \in Inst, DeleteBegin(i)
  PROVE  Shape'
<1>1. /\ MayRun(i) /\ UNCHANGED << s_ptr, obj_list, ipc_list, block, order, creates >>
      /\ "free_ack" \in Places /\ BlockTypes /\ in_order' \in BOOLEAN
      /\ pc[i] = "up" /\ block[i]["temp"] = Null /\ GoTo(i, "free_ack")
  BY DEF DeleteBegin, Places, Shape, Types
<1>2. Types'
  BY <1>1, GoToSets DEF Shape, Types, BlockTypes, ListTypes, Has
<1>3. \A j \in Inst : Holding(j)'
  BY <1>1, GoToSets, OthersHold DEF Shape, Holding, Has, Exists
<1>4. ListsMatch'
  BY <1>1, GoToSets, ListsKept
<1> QED BY <1>1, <1>2, <1>3, <1>4, GoToSets, OthersHold DEF Shape

LEMMA ShapeMessagesDelete ==
  ASSUME Shape, NEW i \in Inst, MessagesDelete(i)
  PROVE  Shape'
<1>1. /\ MayRun(i) /\ UNCHANGED << obj_list, ipc_list, order, creates, in_order >>
      /\ {"req", "ack"} \subseteq Kind /\ {"free_req", "free_ipc"} \subseteq Places /\ BlockTypes
      /\ \/ pc[i] = "free_ack" /\ Release(i, "ack", "free_req") /\ Has(i, "ack")
         \/ pc[i] = "free_req" /\ Release(i, "req", "free_ipc") /\ Has(i, "req")
  BY OtherMessage DEF MessagesDelete, Kind, Places, Shape, Types, Holding
<1>2. Types'
  BY <1>1, ReleaseTypes DEF Shape, Types, ListTypes
<1>3. \A j \in Inst : Holding(j)'
  <2>1. Holding(i)'
    BY <1>1, ReleaseSets DEF Shape, Holding, Has, Exists, Kind
  <2>2. \A j \in Inst \ {i} : pc'[j] = pc[j] /\ block'[j] = block[j]
    BY <1>1, ReleaseSets
  <2> QED BY <1>1, <2>1, <2>2, OthersHold
<1>4. ListsMatch'
  <2>1. /\ \A j \in Inst \ {i} : pc'[j] = pc[j] /\ block'[j] = block[j]
        /\ pc'[i] \in {"free_req", "free_ipc"} /\ block'[i]["ipc"] = block[i]["ipc"]
    BY <1>1, ReleaseSets DEF Kind
  <2> QED BY <1>1, <2>1, ListsKept
<1> QED BY <1>1, <1>2, <1>3, <1>4, ReleaseSets, OthersHold DEF Shape

LEMMA ShapeIpcDelete ==
  ASSUME Shape, NEW i \in Inst, IpcDelete(i)
  PROVE  Shape'
<1>1. /\ MayRun(i) /\ UNCHANGED << obj_list, order, creates, in_order >>
      /\ "ipc" \in Kind /\ {"free_ipc_list", "free_obj"} \subseteq Places /\ BlockTypes
      /\ pc[i] = "free_ipc" /\ Has(i, "ipc")
      /\ ipc_list' = [ipc_list EXCEPT !.chain = @ \ {i}]
  BY DEF IpcDelete, Unlink, Kind, Places, Shape, Types, Holding
<1>2. PICK l \in {"free_ipc_list", "free_obj"} :
        /\ l = (IF ipc_list.chain = {i} THEN "free_ipc_list" ELSE "free_obj")
        /\ Release(i, "ipc", l)
  BY DEF IpcDelete
<1>3. /\ pc' \in [Inst -> Places] /\ pc'[i] = l
      /\ \A j \in Inst \ {i} : pc'[j] = pc[j] /\ block'[j] = block[j]
      /\ \A m \in Kind \ {"ipc"} : block'[i][m] = block[i][m]
      /\ block'[i]["ipc"] = Null
  BY <1>1, <1>2, ReleaseSets
<1>4. Types'
  BY <1>1, <1>2, ReleaseTypes DEF Shape, Types, ListTypes, List
<1>5. \A j \in Inst : Holding(j)'
  BY <1>1, <1>3, OthersHold DEF Shape, Holding, Has, Exists, Kind
<1>6. ListsMatch'
  <2>1. ipc_list'.at = ipc_list.at /\ ipc_list'.chain = ipc_list.chain \ {i}
    BY <1>1 DEF Shape, Types, ListTypes, List
  <2>2. \A j \in Inst : /\ Exists(j)' <=> Exists(j)
                        /\ Has(j, "ipc")' <=> Has(j, "ipc") /\ j # i
    BY <1>1, <1>3 DEF Exists, Has
  <2>3. \A j \in Inst \ {i} : pc'[j] \in { "none", "up" }
    BY <1>1, <1>3 DEF MayRun, Settled
  <2>4. i \in ipc_list.chain
    BY <1>1 DEF Shape, ListsMatch
  <2>5. ipc_list.chain # {i} => ipc_list'.chain # {}
    BY <2>1, <2>4
  <2>6. obj_list'.chain = {j \in Inst : Exists(j)'} /\ ipc_list'.chain = {j \in Inst : Has(j, "ipc")'}
    BY <1>1, <2>1, <2>2 DEF Shape, ListsMatch
  <2>7. ipc_list.at # Null /\ obj_list'.at # Null
    BY <1>1 DEF Shape, ListsMatch
  <2> QED BY <1>1, <1>2, <1>3, <2>1, <2>3, <2>5, <2>6, <2>7 DEF ListsMatch
<1> QED BY <1>1, <1>3, <1>4, <1>5, <1>6, OthersHold DEF Shape

LEMMA ShapeIpcListDelete ==
  ASSUME Shape, NEW i \in Inst, IpcListDelete(i)
  PROVE  Shape'
<1>1. /\ MayRun(i) /\ UNCHANGED << obj_list, block, order, creates, in_order >>
      /\ "free_obj" \in Places /\ BlockTypes
      /\ pc[i] = "free_ipc_list" /\ GoTo(i, "free_obj") /\ s_ptr' = ipc_list.at
      /\ ipc_list' = [at |-> Null, chain |-> {}] /\ ipc_list.at # Null /\ ipc_list.chain = {}
  BY DEF IpcListDelete, FreeBlock, NoList, Places, Shape, Types, ListsMatch
<1>2. Types'
  BY <1>1, GoToSets DEF Shape, Types, BlockTypes, ListTypes, List, Has
<1>3. \A j \in Inst : Holding(j)'
  BY <1>1, GoToSets, OthersHold DEF Shape, Holding, Has, Exists
<1>4. \A j \in Inst \ {i} : pc'[j] = "none"
  BY <1>1, GoToSets DEF Shape, ListsMatch, MayRun, Settled, Holding
<1>5. ListsMatch'
  BY <1>1, <1>4, GoToSets DEF Shape, ListsMatch, Has, Exists
<1> QED BY <1>1, <1>2, <1>3, <1>5, GoToSets, OthersHold DEF Shape

LEMMA ShapeObjDelete ==
  ASSUME Shape, NEW i \in Inst, ObjDelete(i)
  PROVE  Shape'
<1>1. /\ MayRun(i) /\ UNCHANGED << ipc_list, creates, in_order >>
      /\ "obj" \in Kind /\ {"free_list", "none"} \subseteq Places /\ BlockTypes
      /\ pc[i] = "free_obj" /\ Has(i, "obj")
      /\ obj_list' = [obj_list EXCEPT !.chain = @ \ {i}]
      /\ order' = IF in_order THEN Front(order) ELSE order
  BY DEF ObjDelete, Unlink, Kind, Places, Shape, Types, Holding, Exists
<1>2. PICK l \in {"free_list", "none"} :
        /\ l = (IF obj_list.chain = {i} THEN "free_list" ELSE "none")
        /\ Release(i, "obj", l)
  BY DEF ObjDelete
<1>3. /\ pc' \in [Inst -> Places] /\ pc'[i] = l
      /\ \A j \in Inst \ {i} : pc'[j] = pc[j] /\ block'[j] = block[j]
      /\ \A m \in Kind \ {"obj"} : block'[i][m] = block[i][m]
      /\ block'[i]["obj"] = Null
  BY <1>1, <1>2, ReleaseSets
<1>4. order' \in Seq(Inst)
  BY <1>1 DEF Shape, Types, ListTypes, Front
<1>5. Types'
  BY <1>1, <1>2, <1>4, ReleaseTypes DEF Shape, Types, ListTypes, List
<1>6. \A j \in Inst : Holding(j)'
  BY <1>1, <1>3, OthersHold DEF Shape, Holding, Has, Exists, Kind
<1>7. ListsMatch'
  <2>1. obj_list'.at = obj_list.at /\ obj_list'.chain = obj_list.chain \ {i}
    BY <1>1 DEF Shape, Types, ListTypes, List
  <2>2. \A j \in Inst : /\ Exists(j)' <=> Exists(j) /\ j # i
                        /\ Has(j, "ipc")' <=> Has(j, "ipc")
    BY <1>1, <1>3 DEF Exists, Has, Kind
  <2> QED BY <1>1, <1>2, <1>3, <2>1, <2>2 DEF Shape, ListsMatch
<1> QED BY <1>1, <1>3, <1>5, <1>6, <1>7, OthersHold DEF Shape

LEMMA ShapeObjListDelete ==
  ASSUME Shape, NEW i \in Inst, ObjListDelete(i)
  PROVE  Shape'
<1>1. /\ MayRun(i) /\ UNCHANGED << ipc_list, block, order, creates, in_order >>
      /\ "none" \in Places /\ BlockTypes
      /\ pc[i] = "free_list" /\ GoTo(i, "none") /\ s_ptr' = obj_list.at
      /\ obj_list' = [at |-> Null, chain |-> {}] /\ obj_list.at # Null /\ obj_list.chain = {}
  BY DEF ObjListDelete, FreeBlock, NoList, Places, Shape, Types, ListsMatch
<1>2. Types'
  BY <1>1, GoToSets DEF Shape, Types, BlockTypes, ListTypes, List, Has
<1>3. \A j \in Inst : Holding(j)'
  BY <1>1, GoToSets, OthersHold DEF Shape, Holding, Has, Exists
<1>4. \A j \in Inst : pc'[j] = "none"
  BY <1>1, GoToSets DEF Shape, ListsMatch, MayRun, Settled, Exists
<1>5. ListsMatch'
  BY <1>1, <1>4, GoToSets DEF Shape, ListsMatch, Has, Exists
<1> QED BY <1>1, <1>2, <1>3, <1>5, GoToSets, OthersHold DEF Shape

LEMMA ShapeInit == Init => Shape
<1> SUFFICES ASSUME Init PROVE Shape
  OBVIOUS
<1>1. /\ s_ptr = 0 /\ obj_list = [at |-> Null, chain |-> {}] /\ ipc_list = [at |-> Null, chain |-> {}]
      /\ block = [i \in Inst |-> [k \in Kind |-> Null]] /\ pc = [i \in Inst |-> "none"]
      /\ order = << >> /\ in_order = TRUE /\ creates = 0
  BY DEF Init, NoList
<1>2. Types
  BY <1>1 DEF Types, BlockTypes, ListTypes, List, Places, Has
<1>3. \A i \in Inst : Holding(i) /\ Settled(i) /\ ~ Exists(i) /\ pc[i] = "none" /\ ~ Has(i, "ipc")
  BY <1>1 DEF Holding, Has, Exists, Settled, Kind
<1> QED BY <1>1, <1>2, <1>3 DEF Shape, OneBusy, ListsMatch

LEMMA ShapeStep == Shape /\ [Next]_vars => Shape'
<1> SUFFICES ASSUME Shape, [Next]_vars PROVE Shape'
  OBVIOUS
<1>1. CASE Next
  <2>1. PICK i \in Inst : Create(i) \/ CallBack(i) \/ Delete(i)
    BY <1>1 DEF Next
  <2>2. CASE Create(i)
    BY <2>2, ShapeCreateBegin, ShapeObjCreate, ShapeIpcListCreate, ShapeIpcCreate, ShapeMessagesCreate
       DEF Create
  <2>3. CASE CallBack(i)
    BY <2>3, ShapeCallBackBegins, ShapeCallBackEnds DEF CallBack
  <2>4. CASE Delete(i)
    BY <2>4, ShapeDeleteBegin, ShapeMessagesDelete, ShapeIpcDelete, ShapeIpcListDelete,
       ShapeObjDelete, ShapeObjListDelete DEF Delete
  <2> QED BY <2>1, <2>2, <2>3, <2>4
<1>2. CASE UNCHANGED vars
  BY <1>2 DEF vars, Shape, Types, BlockTypes, ListTypes, Holding, OneBusy, Settled, ListsMatch, Has, Exists
<1> QED BY <1>1, <1>2

-----------------------------------------------------------------------------
(* The blocks in use, one by one.                                            *)

ListBlock(l) == [at |-> l.at, words |-> ListWords]
InstBlock(i, k) == [at |-> block[i][k], words |-> Words(k)]
InUse(b) ==
  \/ obj_list.at # Null /\ b = ListBlock(obj_list)
  \/ ipc_list.at # Null /\ b = ListBlock(ipc_list)
  \/ \E j \in Inst : \E l \in Kind : Has(j, l) /\ b = InstBlock(j, l)

LEMMA LiveIs == (\A b : b \in Live <=> InUse(b)) /\ (\A b : b \in Live' <=> InUse(b)')
<1>1. \A b : b \in Live <=> InUse(b)
  BY DEF Live, ListBlocks, InstBlocks, InUse, ListBlock, InstBlock, Has
<1>2. \A b : b \in Live' <=> InUse(b)'
  BY DEF Live, ListBlocks, InstBlocks, InUse, ListBlock, InstBlock, Has
<1> QED BY <1>1, <1>2

(* Every block in use begins below s_ptr.                                    *)
LEMMA AllBelow ==
  ASSUME Shape, Tiles(Live, s_ptr)
  PROVE  /\ s_ptr \in Nat /\ s_ptr # Null
         /\ obj_list.at # Null => obj_list.at < s_ptr
         /\ ipc_list.at # Null => ipc_list.at < s_ptr
         /\ \A j \in Inst : \A l \in Kind : Has(j, l) => block[j][l] < s_ptr
<1>1. \A b \in Live : b.at < s_ptr
  BY DEF Tiles, Block
<1>2. obj_list.at # Null => ListBlock(obj_list) \in Live
  BY LiveIs DEF InUse
<1>3. ipc_list.at # Null => ListBlock(ipc_list) \in Live
  BY LiveIs DEF InUse
<1>4. \A j \in Inst : \A l \in Kind : Has(j, l) => InstBlock(j, l) \in Live
  BY LiveIs DEF InUse
<1>5. s_ptr \in Nat /\ s_ptr # Null
  BY DEF Tiles, Null
<1> QED BY <1>1, <1>2, <1>3, <1>4, <1>5 DEF ListBlock, InstBlock

(* A block allocated for an instance goes on top.                            *)
LEMMA TilesAllocate ==
  ASSUME Shape, Tiles(Live, s_ptr), NEW i \in Inst, NEW k \in Kind, ~ Has(i, k),
         block'[i][k] = s_ptr, s_ptr' = s_ptr + Words(k),
         \A j \in Inst \ {i} : block'[j] = block[j],
         \A l \in Kind \ {k} : block'[i][l] = block[i][l],
         obj_list'.at = obj_list.at, ipc_list'.at = ipc_list.at
  PROVE  Tiles(Live', s_ptr')
<1> DEFINE x == [at |-> s_ptr, words |-> Words(k)]
<1>1. s_ptr # Null
  BY AllBelow
<1>2. \A j \in Inst : \A l \in Kind : Has(j, l)' <=> Has(j, l) \/ (j = i /\ l = k)
  BY <1>1 DEF Has
<1>3. \A j \in Inst : \A l \in Kind : Has(j, l) => InstBlock(j, l)' = InstBlock(j, l)
  BY DEF Has, InstBlock
<1>4. InstBlock(i, k)' = x
  BY DEF InstBlock
<1>5. ListBlock(obj_list)' = ListBlock(obj_list) /\ ListBlock(ipc_list)' = ListBlock(ipc_list)
  BY DEF ListBlock
<1>6. ASSUME NEW b PROVE InUse(b)' <=> InUse(b) \/ b = x
  BY <1>2, <1>3, <1>4, <1>5 DEF InUse
<1>7. Live' = Live \cup {x}
  BY <1>6, LiveIs
<1> QED BY <1>7, Push, WordsOf

(* A block that is above all others is taken from the top.                   *)
LEMMA TilesRelease ==
  ASSUME Shape, Tiles(Live, s_ptr), NEW i \in Inst, NEW k \in Kind, Has(i, k),
         block'[i][k] = Null, s_ptr' = block[i][k],
         \A j \in Inst \ {i} : block'[j] = block[j],
         \A l \in Kind \ {k} : block'[i][l] = block[i][l],
         obj_list'.at = obj_list.at, ipc_list'.at = ipc_list.at,
         obj_list.at # Null => obj_list.at < block[i][k],
         ipc_list.at # Null => ipc_list.at < block[i][k],
         \A j \in Inst : \A l \in Kind :
           Has(j, l) /\ (j # i \/ l # k) => block[j][l] < block[i][k]
  PROVE  Tiles(Live', s_ptr')
<1> DEFINE x == InstBlock(i, k)
<1>1. x \in Live /\ x.at = block[i][k] /\ x.at \in Nat
  BY LiveIs DEF InUse, InstBlock, Shape, Types, BlockTypes, Has
<1>2. \A b \in Live : b = x \/ b.at < x.at
  BY <1>1, LiveIs DEF InUse, InstBlock, ListBlock
<1>3. \A j \in Inst : \A l \in Kind : Has(j, l)' <=> Has(j, l) /\ (j # i \/ l # k)
  BY DEF Has
<1>4. \A j \in Inst : \A l \in Kind : j # i \/ l # k => InstBlock(j, l)' = InstBlock(j, l)
  BY DEF InstBlock
<1>5. \A j \in Inst : \A l \in Kind : Has(j, l) /\ (j # i \/ l # k) => InstBlock(j, l) # x
  BY <1>1 DEF InstBlock, Shape, Types, BlockTypes, Has
<1>6. /\ ListBlock(obj_list)' = ListBlock(obj_list) /\ ListBlock(ipc_list)' = ListBlock(ipc_list)
      /\ obj_list.at # Null => ListBlock(obj_list) # x
      /\ ipc_list.at # Null => ListBlock(ipc_list) # x
  BY <1>1 DEF ListBlock, Shape, Types, ListTypes, List
<1>7. ASSUME NEW b PROVE InUse(b)' <=> InUse(b) /\ b # x
  BY <1>3, <1>4, <1>5, <1>6 DEF InUse
<1>8. Live' = Live \ {x}
  BY <1>7, LiveIs
<1>9. \A b \in Live : b.at <= x.at
  BY <1>1, <1>2 DEF Tiles, Block
<1>10. Tiles(Live \ {x}, x.at)
  <2> HIDE DEF x
  <2> QED BY <1>1, <1>9, Pop
<1> QED BY <1>1, <1>8, <1>10

-----------------------------------------------------------------------------
(* Age.                                                                      *)

(* An instance that is being created or deleted is the youngest one.         *)
LEMMA Youngest ==
  ASSUME Shape, OrderMatches, NEW i \in Inst, Exists(i), pc[i] \notin { "up", "crashed" }
  PROVE  /\ order \in Seq(Inst) /\ Len(order) \in Nat \ {0} /\ DOMAIN order = 1 .. Len(order)
         /\ order[Len(order)] = i
         /\ \A n \in DOMAIN order : order[n] = i => n = Len(order)
<1>1. order \in Seq(Inst) /\ Len(order) \in Nat /\ DOMAIN order = 1 .. Len(order)
  BY DEF Shape, Types, ListTypes
<1>2. PICK n \in DOMAIN order : order[n] = i
  BY DEF OrderMatches
<1>3. \A m \in DOMAIN order : order[m] = i => m = Len(order)
  BY <1>1 DEF OrderMatches
<1> QED BY <1>1, <1>2, <1>3

LEMMA OrderKept ==
  ASSUME Shape, OrderMatches, NEW i \in Inst, order' = order,
         \A j \in Inst \ {i} : pc'[j] = pc[j], Exists(i)' <=> Exists(i),
         pc[i] \in { "up", "crashed" } =>
           pc'[i] \in { "up", "crashed" } \/ \A n \in DOMAIN order : order[n] = i => n = Len(order)
  PROVE  OrderMatches'
<1>1. /\ order \in Seq(Inst) /\ Len(order) \in Nat /\ DOMAIN order = 1 .. Len(order)
      /\ \A n \in DOMAIN order : order[n] \in Inst
  BY DEF Shape, Types, ListTypes
<1>2. \A j \in Inst : Exists(j)' <=> Exists(j)
  BY DEF Exists
<1>3. ASSUME NEW n \in DOMAIN order, n < Len(order) PROVE pc'[order[n]] \in { "up", "crashed" }
  BY <1>1, <1>3 DEF OrderMatches
<1> QED BY <1>1, <1>2, <1>3 DEF OrderMatches

(* Blocks that go do not disturb the ages of the others.                     *)
LEMMA FewerBlocks ==
  ASSUME Shape, InstancesByAge, ListsByAge, order' = order,
         \A j \in Inst : \A l \in Kind : Has(j, l)' => Has(j, l) /\ block'[j][l] = block[j][l],
         obj_list'.at = obj_list.at, ipc_list'.at \in { ipc_list.at, Null }
  PROVE  InstancesByAge' /\ ListsByAge'
<1>1. order \in Seq(Inst) /\ \A n \in DOMAIN order : order[n] \in Inst
  BY DEF Shape, Types, ListTypes
<1>2. InstancesByAge'
  <2>1. ASSUME NEW j \in Inst, NEW l \in Kind, NEW m \in Kind, Has(j, l)', Has(j, m)', Rank(l) < Rank(m)
        PROVE  block'[j][l] < block'[j][m]
    BY <2>1 DEF InstancesByAge
  <2>2. ASSUME NEW m \in DOMAIN order, NEW n \in DOMAIN order,
               NEW l \in Kind \ {"temp"}, NEW o \in Kind \ {"temp"},
               m < n, Has(order[m], l)', Has(order[n], o)'
        PROVE  block'[order[m]][l] < block'[order[n]][o]
    <3>1. order[m] \in Inst /\ order[n] \in Inst /\ l \in Kind /\ o \in Kind
      BY <1>1
    <3>2. Has(order[m], l)' => Has(order[m], l) /\ block'[order[m]][l] = block[order[m]][l]
      BY <3>1
    <3>3. Has(order[n], o)' => Has(order[n], o) /\ block'[order[n]][o] = block[order[n]][o]
      BY <3>1
    <3>4. Has(order[m], l) /\ Has(order[n], o)
      BY <2>2, <3>2, <3>3
    <3> QED BY <2>2, <3>2, <3>3, <3>4 DEF InstancesByAge
  <2>3. ASSUME NEW j \in Inst, NEW j2 \in Inst, NEW l \in Kind, j # j2, Has(j, "temp")', Has(j2, l)'
        PROVE  block'[j2][l] < block'[j]["temp"]
    BY <2>3 DEF InstancesByAge, Kind
  <2> QED BY <2>1, <2>2, <2>3 DEF InstancesByAge
<1>3. ListsByAge'
  <2>1. order # << >> => order[1] \in Inst
    BY <1>1
  <2> QED BY <2>1 DEF ListsByAge, Kind
<1> QED BY <1>2, <1>3

(* A block allocated for the youngest instance, or for a call-back, is the   *)
(* youngest block.                                                           *)
LEMMA AgedAllocate ==
  ASSUME Shape, Tiles(Live, s_ptr), OrderMatches, InstancesByAge, ListsByAge,
         NEW i \in Inst, NEW k \in Kind \ {"obj"}, ~ Has(i, k),
         block'[i][k] = s_ptr, order' = order,
         \A j \in Inst \ {i} : block'[j] = block[j],
         \A l \in Kind \ {k} : block'[i][l] = block[i][l],
         obj_list'.at = obj_list.at, ipc_list'.at = ipc_list.at,
         \A l \in Kind : Has(i, l) => Rank(l) < Rank(k),
         \A j \in Inst : ~ Has(j, "temp"),
         k # "temp" => \A n \in DOMAIN order : order[n] = i => n = Len(order)
  PROVE  InstancesByAge' /\ ListsByAge'
<1>1. /\ order \in Seq(Inst) /\ Len(order) \in Nat /\ DOMAIN order = 1 .. Len(order)
      /\ \A n \in DOMAIN order : order[n] \in Inst
  BY DEF Shape, Types, ListTypes
<1>2. \A j \in Inst : \A l \in Kind : Has(j, l)' <=> Has(j, l) \/ (j = i /\ l = k)
  BY AllBelow DEF Has
<1>3. \A j \in Inst : \A l \in Kind : Has(j, l) => block'[j][l] = block[j][l] /\ block[j][l] < s_ptr
  BY AllBelow DEF Has
<1>4. \A l \in Kind : Rank(l) \in Nat
  BY DEF Rank, Kind
<1>5. ASSUME NEW j \in Inst, NEW l \in Kind, NEW m \in Kind, Has(j, l)', Has(j, m)', Rank(l) < Rank(m)
      PROVE  block'[j][l] < block'[j][m]
  BY <1>2, <1>3, <1>4, <1>5 DEF InstancesByAge
<1>6. ASSUME NEW m \in DOMAIN order, NEW n \in DOMAIN order,
             NEW l \in Kind \ {"temp"}, NEW o \in Kind \ {"temp"},
             m < n, Has(order[m], l)', Has(order[n], o)'
      PROVE  block'[order[m]][l] < block'[order[n]][o]
  <2>1. ~ (order[m] = i /\ l = k)
    BY <1>1, <1>6
  <2> QED BY <1>1, <1>2, <1>3, <1>6, <2>1 DEF InstancesByAge
<1>7. ASSUME NEW j \in Inst, NEW j2 \in Inst, NEW l \in Kind, j # j2, Has(j, "temp")', Has(j2, l)'
      PROVE  block'[j2][l] < block'[j]["temp"]
  <2>1. j = i /\ k = "temp" /\ Has(j2, l)
    BY <1>2, <1>7 DEF Kind
  <2> QED BY <1>3, <2>1
<1>8. InstancesByAge'
  BY <1>1, <1>5, <1>6, <1>7 DEF InstancesByAge
<1>9. ListsByAge'
  <2>1. /\ order # << >> => order[1] \in Inst
        /\ obj_list.at # Null => obj_list.at < s_ptr
        /\ ipc_list.at # Null => ipc_list.at < s_ptr
    BY <1>1, AllBelow
  <2>2. obj_list'.at # Null =>
          /\ ipc_list'.at # Null => obj_list'.at < ipc_list'.at
          /\ \A j \in Inst : \A l \in Kind : Has(j, l)' => obj_list'.at < block'[j][l]
    BY <1>2, <1>3, <2>1 DEF ListsByAge
  <2>3. ipc_list'.at # Null =>
          /\ obj_list'.at # Null
          /\ order' # << >> /\ (Has(order[1], "obj")' => block'[order[1]]["obj"] < ipc_list'.at)
    BY <1>2, <1>3, <2>1 DEF ListsByAge, Kind
  <2>4. ipc_list'.at # Null => \A j \in Inst : \A l \in Kind :
            Has(j, l)' /\ (l # "obj" \/ j # order[1]) => ipc_list'.at < block'[j][l]
    BY <1>2, <1>3, <2>1 DEF ListsByAge
  <2> QED BY <2>2, <2>3, <2>4 DEF ListsByAge
<1> QED BY <1>8, <1>9

(* The block an instance releases next is the youngest of all.                *)
LEMMA ReleaseTop ==
  ASSUME Shape, OrderMatches, InstancesByAge, ListsByAge, NEW i \in Inst, MayRun(i),
         NEW k \in Kind, Has(i, k),
         \A l \in Kind : Has(i, l) => l = k \/ Rank(l) < Rank(k),
         k # "temp" => pc[i] \notin { "up", "crashed" },
         k = "obj" => ipc_list.at = Null \/ order[1] # i
  PROVE  /\ obj_list.at # Null => obj_list.at < block[i][k]
         /\ ipc_list.at # Null => ipc_list.at < block[i][k]
         /\ \A j \in Inst : \A l \in Kind :
              Has(j, l) /\ (j # i \/ l # k) => block[j][l] < block[i][k]
<1>1. /\ obj_list.at # Null => obj_list.at < block[i][k]
      /\ ipc_list.at # Null => ipc_list.at < block[i][k]
  BY DEF ListsByAge
<1>2. ASSUME NEW l \in Kind, Has(i, l), l # k PROVE block[i][l] < block[i][k]
  BY <1>2 DEF InstancesByAge
<1>3. ASSUME NEW j \in Inst, NEW l \in Kind, Has(j, l), j # i PROVE block[j][l] < block[i][k]
  <2>1. CASE k = "temp"
    BY <1>3, <2>1 DEF InstancesByAge
  <2>2. CASE k # "temp"
    <3>1. Exists(i) /\ Exists(j) /\ l # "temp"
      BY <1>3, <2>2 DEF Shape, Holding, Exists, Has, MayRun, Settled, Kind
    <3>2. PICK m \in DOMAIN order : order[m] = j
      BY <3>1 DEF OrderMatches
    <3>3. /\ Len(order) \in DOMAIN order /\ order[Len(order)] = i /\ m < Len(order)
      BY <1>3, <2>2, <3>1, <3>2, Youngest
    <3> QED BY <1>3, <2>2, <3>1, <3>2, <3>3 DEF InstancesByAge
  <2> QED BY <2>1, <2>2
<1> QED BY <1>1, <1>2, <1>3

-----------------------------------------------------------------------------
(* The stack is kept.                                                        *)

LEMMA NothingMoves ==
  ASSUME UNCHANGED s_ptr, UNCHANGED block, Tiles(Live, s_ptr),
         obj_list'.at = obj_list.at, ipc_list'.at = ipc_list.at
  PROVE  Tiles(Live', s_ptr')
<1>1. ASSUME NEW b PROVE InUse(b)' <=> InUse(b)
  BY DEF InUse, ListBlock, InstBlock, Has
<1>2. Live' = Live
  BY <1>1, LiveIs
<1> QED BY <1>2

(* A call of inv_sys_malloc_create for an instance.                          *)
LEMMA StackAllocate ==
  ASSUME Shape, Tiles(Live, s_ptr), Aged, NEW i \in Inst, MayRun(i),
         NEW k \in Kind \ {"obj"}, NEW next \in Places, Allocate(i, k, next),
         ~ Has(i, k), \A l \in Kind : Has(i, l) => Rank(l) < Rank(k),
         Exists(i), next \notin { "none", "obj", "free_list" },
         IF k = "temp" THEN next = "up" ELSE pc[i] \notin { "up", "crashed" },
         order' = order, obj_list'.at = obj_list.at, ipc_list'.at = ipc_list.at
  PROVE  Tiles(Live', s_ptr') /\ Aged'
<1>1. /\ \A j \in Inst \ {i} : pc'[j] = pc[j] /\ block'[j] = block[j]
      /\ \A l \in Kind \ {k} : block'[i][l] = block[i][l]
      /\ \/ /\ pc'[i] = next /\ block'[i][k] = s_ptr /\ s_ptr' = s_ptr + Words(k)
         \/ pc'[i] = "crashed" /\ block' = block /\ s_ptr' = s_ptr
  BY AllocateSets DEF Shape, Types
<1>2. OrderMatches'
  <2>1. Exists(i)' <=> Exists(i)
    BY <1>1 DEF Exists
  <2>2. pc[i] \in { "up", "crashed" } => pc'[i] \in { "up", "crashed" }
    BY <1>1
  <2> QED BY <1>1, <2>1, <2>2, OrderKept DEF Aged
<1>3. CASE block'[i][k] = s_ptr /\ s_ptr' = s_ptr + Words(k)
  <2>1. Tiles(Live', s_ptr')
    BY <1>1, <1>3, TilesAllocate
  <2>2. \A j \in Inst : ~ Has(j, "temp")
    BY DEF MayRun, Settled, Has, Shape, Holding
  <2>3. k # "temp" => \A n \in DOMAIN order : order[n] = i => n = Len(order)
    BY Youngest DEF Aged
  <2>4. InstancesByAge' /\ ListsByAge'
    BY <1>1, <1>3, <2>2, <2>3, AgedAllocate DEF Aged
  <2> QED BY <1>2, <2>1, <2>4 DEF Aged
<1>4. CASE block' = block /\ s_ptr' = s_ptr
  <2>1. InstancesByAge' /\ ListsByAge'
    BY <1>4, FewerBlocks DEF Aged, Has
  <2> QED BY <1>2, <1>4, <2>1, NothingMoves DEF Aged
<1> QED BY <1>1, <1>3, <1>4

(* A call of inv_sys_malloc_delete for an instance.                          *)
LEMMA StackRelease ==
  ASSUME Shape, Tiles(Live, s_ptr), Aged, NEW i \in Inst, MayRun(i),
         NEW k \in Kind, Has(i, k), \A l \in Kind : Has(i, l) => l = k \/ Rank(l) < Rank(k),
         k # "temp" => pc[i] \notin { "up", "crashed" },
         k = "obj" => ipc_list.at = Null \/ order[1] # i,
         block'[i][k] = Null, s_ptr' = block[i][k],
         \A j \in Inst \ {i} : block'[j] = block[j],
         \A l \in Kind \ {k} : block'[i][l] = block[i][l],
         obj_list'.at = obj_list.at, ipc_list'.at = ipc_list.at
  PROVE  Tiles(Live', s_ptr') /\ (order' = order => InstancesByAge' /\ ListsByAge')
<1>1. Tiles(Live', s_ptr')
  BY ReleaseTop, TilesRelease DEF Aged
<1>2. ASSUME order' = order PROVE InstancesByAge' /\ ListsByAge'
  BY <1>2, FewerBlocks DEF Aged, Has
<1> QED BY <1>1, <1>2

LEMMA StackIpcCreate ==
  ASSUME Shape, Tiles(Live, s_ptr), Aged, NEW i \in Inst, IpcCreate(i)
  PROVE  Tiles(Live', s_ptr') /\ Aged'
<1>1. /\ MayRun(i) /\ pc[i] = "ipc" /\ order' = order /\ Allocate(i, "ipc", "req")
      /\ "ipc" \in Kind \ {"obj"} /\ "req" \in Places
      /\ obj_list'.at = obj_list.at /\ ipc_list'.at = ipc_list.at /\ Exists(i)
  BY DEF IpcCreate, Kind, Places, Exists, Shape, Types, ListTypes, List
<1>2. ~ Has(i, "ipc") /\ \A l \in Kind : Has(i, l) => Rank(l) < Rank("ipc")
  BY <1>1 DEF Shape, Holding, Kind, Rank
<1> QED BY <1>1, <1>2, StackAllocate

LEMMA StackMessagesCreate ==
  ASSUME Shape, Tiles(Live, s_ptr), Aged, NEW i \in Inst, MessagesCreate(i)
  PROVE  Tiles(Live', s_ptr') /\ Aged'
<1>1. /\ MayRun(i) /\ order' = order /\ {"req", "ack"} \subseteq Kind \ {"obj"}
      /\ {"ack", "up"} \subseteq Places
      /\ obj_list'.at = obj_list.at /\ ipc_list'.at = ipc_list.at
  BY DEF MessagesCreate, Kind, Places
<1>2. CASE pc[i] = "req" /\ Allocate(i, "req", "ack")
  <2>1. Exists(i) /\ ~ Has(i, "req") /\ \A l \in Kind : Has(i, l) => Rank(l) < Rank("req")
    BY <1>2 DEF Shape, Holding, Kind, Rank, Exists
  <2> QED BY <1>1, <1>2, <2>1, StackAllocate
<1>3. CASE pc[i] = "ack" /\ Allocate(i, "ack", "up")
  <2>1. Exists(i) /\ ~ Has(i, "ack") /\ \A l \in Kind : Has(i, l) => Rank(l) < Rank("ack")
    BY <1>3 DEF Shape, Holding, Kind, Rank, Exists
  <2> QED BY <1>1, <1>3, <2>1, StackAllocate
<1> QED BY <1>2, <1>3 DEF MessagesCreate

LEMMA StackCallBackBegins ==
  ASSUME Shape, Tiles(Live, s_ptr), Aged, NEW i \in Inst, CallBackBegins(i)
  PROVE  Tiles(Live', s_ptr') /\ Aged'
<1>1. /\ MayRun(i) /\ order' = order /\ pc[i] = "up" /\ Allocate(i, "temp", "up")
      /\ "temp" \in Kind \ {"obj"} /\ "up" \in Places /\ ~ Has(i, "temp")
      /\ obj_list'.at = obj_list.at /\ ipc_list'.at = ipc_list.at /\ Exists(i)
  BY DEF CallBackBegins, Kind, Places, Has, Exists
<1>2. \A l \in Kind : Has(i, l) => Rank(l) < Rank("temp")
  BY <1>1 DEF Kind, Rank
<1> QED BY <1>1, <1>2, StackAllocate

LEMMA StackCallBackEnds ==
  ASSUME Shape, Tiles(Live, s_ptr), Aged, NEW i \in Inst, CallBackEnds(i)
  PROVE  Tiles(Live', s_ptr') /\ Aged'
<1>1. /\ MayRun(i) /\ UNCHANGED << obj_list, ipc_list, pc, order >>
      /\ "temp" \in Kind /\ BlockTypes /\ Has(i, "temp")
      /\ s_ptr' = block[i]["temp"] /\ block' = [block EXCEPT ![i]["temp"] = Null]
  BY DEF CallBackEnds, MessageDeleted, FreeBlock, Kind, Shape, Types, Has
<1>2. /\ block'[i]["temp"] = Null
      /\ \A l \in Kind \ {"temp"} : block'[i][l] = block[i][l]
      /\ \A j \in Inst \ {i} : block'[j] = block[j]
  BY <1>1, BlockSets, ZenonT(30)
<1>3. \A l \in Kind : Has(i, l) => l = "temp" \/ Rank(l) < Rank("temp")
  BY <1>1 DEF Kind, Rank
<1>4. OrderMatches'
  BY <1>1 DEF Aged, OrderMatches, Exists
<1>5. Tiles(Live', s_ptr') /\ InstancesByAge' /\ ListsByAge'
  BY <1>1, <1>2, <1>3, StackRelease
<1> QED BY <1>4, <1>5 DEF Aged

LEMMA StackDeleteBegin ==
  ASSUME Shape, Tiles(Live, s_ptr), Aged, NEW i \in Inst, DeleteBegin(i), in_order'
  PROVE  Tiles(Live', s_ptr') /\ Aged'
<1>1. /\ UNCHANGED << s_ptr, obj_list, ipc_list, block, order >> /\ i = Last(order)
      /\ pc[i] = "up" /\ GoTo(i, "free_ack") /\ "free_ack" \in Places /\ BlockTypes
  BY DEF DeleteBegin, Shape, Types, Places
<1>2. \A n \in DOMAIN order : order[n] = i => n = Len(order)
  <2>1. /\ order \in Seq(Inst) /\ Len(order) \in Nat /\ DOMAIN order = 1 .. Len(order)
        /\ i = order[Len(order)]
    BY <1>1 DEF Shape, Types, ListTypes, Last
  <2> QED BY <2>1 DEF Aged, OrderMatches
<1>3. OrderMatches'
  <2>1. Exists(i)' <=> Exists(i)
    BY <1>1, GoToSets DEF Exists
  <2> QED BY <1>1, <1>2, <2>1, GoToSets, OrderKept DEF Aged
<1>4. InstancesByAge' /\ ListsByAge'
  BY <1>1, FewerBlocks DEF Aged, Has
<1> QED BY <1>1, <1>3, <1>4, NothingMoves DEF Aged

LEMMA StackMessagesDelete ==
  ASSUME Shape, Tiles(Live, s_ptr), Aged, NEW i \in Inst, MessagesDelete(i)
  PROVE  Tiles(Live', s_ptr') /\ Aged'
<1>1. /\ MayRun(i) /\ UNCHANGED << obj_list, ipc_list, order >> /\ BlockTypes
      /\ {"req", "ack"} \subseteq Kind /\ {"free_req", "free_ipc"} \subseteq Places
  BY DEF MessagesDelete, Kind, Places, Shape, Types
<1>2. PICK k \in {"req", "ack"}, l \in {"free_req", "free_ipc"} :
        /\ Release(i, k, l) /\ Has(i, k)
        /\ \/ k = "ack" /\ pc[i] = "free_ack" /\ l = "free_req"
           \/ k = "req" /\ pc[i] = "free_req" /\ l = "free_ipc"
  BY OtherMessage DEF MessagesDelete, Shape, Holding
<1>3. \A m \in Kind : Has(i, m) => m = k \/ Rank(m) < Rank(k)
  BY <1>2 DEF Shape, Holding, Kind, Rank
<1>4. /\ s_ptr' = block[i][k] /\ pc'[i] = l /\ block'[i][k] = Null
      /\ \A j \in Inst \ {i} : pc'[j] = pc[j] /\ block'[j] = block[j]
      /\ \A m \in Kind \ {k} : block'[i][m] = block[i][m]
  BY <1>1, <1>2, ReleaseSets
<1>5. OrderMatches'
  <2>1. Exists(i)' <=> Exists(i)
    BY <1>2, <1>4 DEF Exists
  <2> QED BY <1>1, <1>2, <1>4, <2>1, OrderKept DEF Aged
<1>6. Tiles(Live', s_ptr') /\ InstancesByAge' /\ ListsByAge'
  BY <1>1, <1>2, <1>3, <1>4, StackRelease
<1> QED BY <1>5, <1>6 DEF Aged

LEMMA StackIpcDelete ==
  ASSUME Shape, Tiles(Live, s_ptr), Aged, NEW i \in Inst, IpcDelete(i)
  PROVE  Tiles(Live', s_ptr') /\ Aged'
<1>1. /\ MayRun(i) /\ UNCHANGED << obj_list, order >> /\ BlockTypes
      /\ "ipc" \in Kind /\ {"free_ipc_list", "free_obj"} \subseteq Places
      /\ pc[i] = "free_ipc" /\ Has(i, "ipc") /\ ipc_list'.at = ipc_list.at
  BY DEF IpcDelete, Unlink, Kind, Places, Shape, Types, ListTypes, List, Holding
<1>2. PICK l \in {"free_ipc_list", "free_obj"} : Release(i, "ipc", l)
  BY DEF IpcDelete
<1>3. /\ s_ptr' = block[i]["ipc"] /\ pc'[i] = l /\ block'[i]["ipc"] = Null
      /\ \A j \in Inst \ {i} : pc'[j] = pc[j] /\ block'[j] = block[j]
      /\ \A m \in Kind \ {"ipc"} : block'[i][m] = block[i][m]
  BY <1>1, <1>2, ReleaseSets
<1>4. \A m \in Kind : Has(i, m) => m = "ipc" \/ Rank(m) < Rank("ipc")
  BY <1>1 DEF Shape, Holding, Kind, Rank
<1>5. OrderMatches'
  <2>1. Exists(i)' <=> Exists(i)
    BY <1>1, <1>3 DEF Exists
  <2> QED BY <1>1, <1>3, <2>1, OrderKept DEF Aged
<1>6. Tiles(Live', s_ptr') /\ InstancesByAge' /\ ListsByAge'
  BY <1>1, <1>3, <1>4, StackRelease
<1> QED BY <1>5, <1>6 DEF Aged

LEMMA StackCreateBegin ==
  ASSUME Shape, Tiles(Live, s_ptr), Aged, NEW i \in Inst, CreateBegin(i)
  PROVE  Tiles(Live', s_ptr') /\ Aged'
<1>1. /\ pc[i] = "none" /\ UNCHANGED << ipc_list, block, order >> /\ "obj" \in Places
      /\ BlockTypes /\ \/ pc' = pc
                       \/ GoTo(i, "obj")
  BY DEF CreateBegin, Places, Shape, Types
<1>2. (\A j \in Inst \ {i} : pc'[j] = pc[j]) /\ (pc'[i] = "none" \/ pc'[i] = "obj")
  BY <1>1, GoToSets
<1>3. OrderMatches'
  BY <1>1, <1>2, OrderKept DEF Aged, Exists
<1>4. CASE UNCHANGED << s_ptr, obj_list >>
  <2>1. InstancesByAge' /\ ListsByAge'
    BY <1>1, <1>4, FewerBlocks DEF Aged, Has
  <2> QED BY <1>1, <1>3, <1>4, <2>1, NothingMoves DEF Aged
<1>5. CASE /\ obj_list.at = Null /\ s_ptr' = s_ptr + ListWords
           /\ obj_list' = [at |-> s_ptr, chain |-> {}]
  <2> DEFINE x == [at |-> s_ptr, words |-> ListWords]
  <2>1. /\ ipc_list.at = Null /\ s_ptr # Null
        /\ \A j \in Inst : \A l \in Kind : ~ Has(j, l)
    BY <1>5, AllBelow DEF Aged, ListsByAge, Shape, ListsMatch, Holding, Exists, Kind
  <2>2. \A j \in Inst : \A l \in Kind : ~ Has(j, l)'
    BY <1>1, <2>1 DEF Has
  <2>3. ASSUME NEW b PROVE InUse(b)' <=> InUse(b) \/ b = x
    BY <1>1, <1>5, <2>1, <2>2 DEF InUse, ListBlock
  <2>4. Live' = Live \cup {x}
    BY <2>3, LiveIs
  <2>5. Tiles(Live', s_ptr')
    BY <1>5, <2>4, Push
  <2>6. InstancesByAge'
    <3>1. order \in Seq(Inst) /\ \A n \in DOMAIN order : order[n] \in Inst
      BY DEF Shape, Types, ListTypes
    <3> QED BY <1>1, <2>2, <3>1 DEF InstancesByAge, Kind
  <2>7. ListsByAge'
    BY <1>1, <2>1, <2>2 DEF ListsByAge
  <2> QED BY <1>3, <2>5, <2>6, <2>7 DEF Aged
<1> QED BY <1>4, <1>5 DEF CreateBegin, Malloc

(* Once the list of an instance that held nothing else is gone, so is all.    *)
LEMMA ListGone ==
  ASSUME Shape, Tiles(Live, s_ptr), Aged, NEW i \in Inst, MayRun(i),
         pc[i] \in { "obj", "free_list" }, obj_list.chain = {}, order' = order, block' = block,
         ipc_list' = ipc_list, GoTo(i, "none"), s_ptr' = obj_list.at,
         obj_list' = [at |-> Null, chain |-> {}]
  PROVE  Tiles(Live', s_ptr') /\ Aged'
<1>1. /\ \A j \in Inst : ~ Exists(j) /\ \A l \in Kind : ~ Has(j, l)
      /\ obj_list.at # Null /\ obj_list.at \in Nat /\ ipc_list.at = Null
  <2>1. \A j \in Inst : ~ Exists(j)
    BY DEF Shape, ListsMatch
  <2>2. \A j \in Inst : \A l \in Kind : ~ Has(j, l)
    BY <2>1 DEF Shape, Holding, Exists, Kind
  <2>3. order = << >>
    <3>1. order \in Seq(Inst) /\ (order # << >> => 1 \in DOMAIN order /\ order[1] \in Inst)
      BY DEF Shape, Types, ListTypes
    <3> QED BY <2>1, <3>1 DEF Aged, OrderMatches
  <2>4. obj_list.at # Null /\ obj_list.at \in Nat
    BY DEF Shape, ListsMatch, Types, ListTypes, List
  <2> QED BY <2>1, <2>2, <2>3, <2>4 DEF Aged, ListsByAge
<1>2. \A j \in Inst : \A l \in Kind : ~ Has(j, l)'
  BY <1>1 DEF Has
<1> DEFINE x == ListBlock(obj_list)
<1>3. \A b : InUse(b) <=> b = x
  BY <1>1 DEF InUse
<1>4. \A b : ~ InUse(b)'
  BY <1>1, <1>2 DEF InUse
<1>5. x \in Live /\ x.at = obj_list.at /\ Live' = Live \ {x} /\ \A b \in Live : b.at <= x.at
  BY <1>1, <1>3, <1>4, LiveIs DEF ListBlock
<1>6. Tiles(Live', s_ptr')
  <2>1. Tiles(Live \ {x}, x.at)
    <3> HIDE DEF x
    <3> QED BY <1>5, Pop
  <2> QED BY <1>5, <2>1
<1>7. OrderMatches'
  <2>1. "none" \in Places /\ BlockTypes
    BY DEF Places, Shape, Types
  <2> QED BY <2>1, GoToSets, OrderKept DEF Aged, Exists
<1>8. InstancesByAge'
  <2>1. order \in Seq(Inst) /\ \A n \in DOMAIN order : order[n] \in Inst
    BY DEF Shape, Types, ListTypes
  <2> QED BY <1>2, <2>1 DEF InstancesByAge, Kind
<1>9. ListsByAge'
  BY <1>1, <1>2 DEF ListsByAge
<1> QED BY <1>6, <1>7, <1>8, <1>9 DEF Aged

LEMMA StackObjListDelete ==
  ASSUME Shape, Tiles(Live, s_ptr), Aged, NEW i \in Inst, ObjListDelete(i)
  PROVE  Tiles(Live', s_ptr') /\ Aged'
  BY ListGone DEF ObjListDelete, FreeBlock, NoList, Shape, ListsMatch

LEMMA StackObjCreate ==
  ASSUME Shape, Tiles(Live, s_ptr), Aged, NEW i \in Inst, ObjCreate(i), in_order
  PROVE  Tiles(Live', s_ptr') /\ Aged'
<1>1. /\ MayRun(i) /\ pc[i] = "obj" /\ ipc_list' = ipc_list
      /\ {"none", "ipc_list"} \subseteq Places /\ "obj" \in Kind /\ BlockTypes
  BY DEF ObjCreate, Shape, Types, Places, Kind
<1>2. /\ order \in Seq(Inst) /\ Len(order) \in Nat /\ DOMAIN order = 1 .. Len(order)
      /\ \A n \in DOMAIN order : order[n] \in Inst
  BY DEF Shape, Types, ListTypes
<1>3. CASE Fits(ObjWords)
  <2>1. /\ GoTo(i, "ipc_list") /\ s_ptr' = s_ptr + ObjWords /\ Words("obj") = ObjWords
        /\ block' = [block EXCEPT ![i]["obj"] = s_ptr]
        /\ obj_list'.at = obj_list.at /\ order' = Append(order, i)
    BY <1>3 DEF ObjCreate, Malloc, Words, Shape, Types, ListTypes, List
  <2>2. s_ptr # Null /\ s_ptr \in Nat \cup {Null}
    BY AllBelow
  <2>3. /\ block'[i]["obj"] = s_ptr
        /\ \A l \in Kind \ {"obj"} : block'[i][l] = block[i][l]
        /\ \A j \in Inst \ {i} : block'[j] = block[j]
    BY <1>1, <2>1, <2>2, BlockSets, ZenonT(30)
  <2>4. pc'[i] = "ipc_list" /\ \A j \in Inst \ {i} : pc'[j] = pc[j]
    BY <1>1, <2>1, GoToSets
  <2>5. ~ Exists(i) /\ \A l \in Kind : ~ Has(i, l)
    BY <1>1 DEF Shape, Holding, Exists, Kind
  <2>6. Tiles(Live', s_ptr')
    BY <1>1, <2>1, <2>3, <2>5, TilesAllocate
  <2>7. /\ Len(order') = Len(order) + 1 /\ DOMAIN order' = 1 .. Len(order) + 1
        /\ order'[Len(order) + 1] = i
        /\ \A n \in DOMAIN order : order'[n] = order[n] /\ order[n] # i
    BY <1>2, <2>1, <2>5 DEF Aged, OrderMatches
  <2>8. OrderMatches'
    <3>1. \A m, n \in DOMAIN order' : order'[m] = order'[n] => m = n
      BY <1>2, <2>7 DEF Aged, OrderMatches
    <3>2. \A j \in Inst : Exists(j)' <=> Exists(j) \/ j = i
      BY <2>4 DEF Exists
    <3>3. ASSUME NEW j \in Inst PROVE Exists(j)' <=> \E n \in DOMAIN order' : order'[n] = j
      <4>1. (\E n \in DOMAIN order' : order'[n] = j) <=> (j = i \/ \E n \in DOMAIN order : order[n] = j)
        BY <1>2, <2>7
      <4> QED BY <3>2, <4>1 DEF Aged, OrderMatches
    <3>4. ASSUME NEW n \in DOMAIN order', n < Len(order') PROVE pc'[order'[n]] \in { "up", "crashed" }
      <4>1. n \in DOMAIN order /\ order'[n] = order[n] /\ order[n] \in Inst \ {i}
        BY <1>2, <2>7, <3>4
      <4>2. Exists(order[n])
        BY <4>1 DEF Aged, OrderMatches
      <4> QED BY <1>1, <2>4, <4>1, <4>2 DEF MayRun, Settled, Exists
    <3> QED BY <3>1, <3>3, <3>4 DEF OrderMatches
  <2>9. /\ \A j \in Inst : \A l \in Kind : Has(j, l)' <=> Has(j, l) \/ (j = i /\ l = "obj")
        /\ \A j \in Inst : \A l \in Kind :
             Has(j, l) => block'[j][l] = block[j][l] /\ block[j][l] < s_ptr
    BY <2>2, <2>3, <2>5, AllBelow DEF Has
  <2>10. InstancesByAge'
    <3>1. ASSUME NEW j \in Inst, NEW l \in Kind, NEW m \in Kind, Has(j, l)', Has(j, m)', Rank(l) < Rank(m)
          PROVE  block'[j][l] < block'[j][m]
      <4>1. CASE j = i
        BY <2>5, <2>9, <3>1, <4>1 DEF Rank
      <4>2. CASE j # i
        BY <2>9, <3>1, <4>2 DEF Aged, InstancesByAge
      <4> QED BY <4>1, <4>2
    <3>2. ASSUME NEW m \in DOMAIN order', NEW n \in DOMAIN order',
                 NEW l \in Kind \ {"temp"}, NEW o \in Kind \ {"temp"},
                 m < n, Has(order[m], l)', Has(order[n], o)'
          PROVE  block'[order'[m]][l] < block'[order'[n]][o]
      <4>1. m \in DOMAIN order /\ order'[m] = order[m] /\ order[m] \in Inst \ {i}
        BY <1>2, <2>7, <3>2
      <4>2. Has(order[m], l) /\ block'[order[m]][l] = block[order[m]][l] /\ block[order[m]][l] < s_ptr
        <5>1. l \in Kind /\ block'[order[m]][l] # Null
          BY <3>2, <4>1 DEF Has
        <5>2. Has(order[m], l) \/ (order[m] = i /\ l = "obj")
          BY <2>9, <4>1, <5>1 DEF Has
        <5> QED BY <2>9, <4>1, <5>1, <5>2
      <4>3. CASE n \in DOMAIN order
        <5>1. order'[n] = order[n] /\ order[n] \in Inst \ {i}
          BY <1>2, <2>7, <4>3
        <5>2. Has(order[n], o) /\ block'[order[n]][o] = block[order[n]][o]
          <6>1. o \in Kind /\ block'[order[n]][o] # Null
            BY <3>2, <5>1 DEF Has
          <6>2. Has(order[n], o) \/ (order[n] = i /\ o = "obj")
            BY <2>9, <5>1, <6>1 DEF Has
          <6> QED BY <2>9, <5>1, <6>1, <6>2
        <5> QED BY <3>2, <4>1, <4>2, <4>3, <5>1, <5>2 DEF Aged, InstancesByAge
      <4>4. CASE n \notin DOMAIN order
        <5>1. n = Len(order) + 1 /\ order'[n] = i
          BY <1>2, <2>7, <4>4
        <5>2. o = "obj"
          <6>1. o \in Kind /\ block'[i][o] # Null
            BY <3>2, <5>1 DEF Has
          <6> QED BY <2>5, <2>9, <6>1 DEF Has
        <5> QED BY <2>3, <4>1, <4>2, <5>1, <5>2
      <4> QED BY <4>3, <4>4
    <3>3. \A j \in Inst : ~ Has(j, "temp")'
      BY <1>1, <2>5, <2>9 DEF MayRun, Settled, Has, Kind
    <3> QED BY <3>1, <3>2, <3>3 DEF InstancesByAge
  <2>11. ListsByAge'
    <3>1. /\ obj_list.at # Null => obj_list.at < s_ptr
          /\ ipc_list.at # Null => ipc_list.at < s_ptr
          /\ order # << >> => order' # << >> /\ order'[1] = order[1] /\ order[1] \in Inst \ {i}
      BY <1>2, <2>7, AllBelow
    <3>2. obj_list'.at # Null =>
            /\ ipc_list'.at # Null => obj_list'.at < ipc_list'.at
            /\ \A j \in Inst : \A l \in Kind : Has(j, l)' => obj_list'.at < block'[j][l]
      BY <1>1, <2>1, <2>3, <2>9, <3>1 DEF Aged, ListsByAge
    <3>3. ipc_list'.at # Null =>
            /\ obj_list'.at # Null
            /\ order' # << >> /\ (Has(order[1], "obj")' => block'[order'[1]]["obj"] < ipc_list'.at)
      BY <1>1, <2>1, <2>9, <3>1 DEF Aged, ListsByAge
    <3>4. ipc_list'.at # Null => \A j \in Inst : \A l \in Kind :
            Has(j, l)' /\ (l # "obj" \/ j # order'[1]) => ipc_list'.at < block'[j][l]
      BY <1>1, <2>1, <2>3, <2>9, <3>1 DEF Aged, ListsByAge
    <3> QED BY <3>2, <3>3, <3>4 DEF ListsByAge
  <2> QED BY <2>6, <2>8, <2>10, <2>11 DEF Aged
<1>4. CASE ~ Fits(ObjWords)
  <2>1. GoTo(i, "none") /\ EmptyListFreed /\ UNCHANGED << block, order >>
    BY <1>4 DEF ObjCreate
  <2>2. CASE obj_list.chain = {}
    <3>1. s_ptr' = obj_list.at /\ obj_list' = [at |-> Null, chain |-> {}]
      BY <2>1, <2>2 DEF EmptyListFreed, FreeBlock, NoList
    <3> QED BY <1>1, <2>1, <2>2, <3>1, ListGone
  <2>3. CASE obj_list.chain # {}
    <3>1. UNCHANGED << s_ptr, obj_list >>
      BY <2>1, <2>3 DEF EmptyListFreed
    <3>2. InstancesByAge' /\ ListsByAge'
      BY <1>1, <2>1, <3>1, FewerBlocks DEF Aged, Has
    <3>3. OrderMatches'
      BY <1>1, <2>1, GoToSets, OrderKept DEF Aged, Exists
    <3> QED BY <1>1, <2>1, <3>1, <3>2, <3>3, NothingMoves DEF Aged
  <2> QED BY <2>2, <2>3
<1> QED BY <1>3, <1>4

(* With no list of IPC objects, or an empty one, there is one instance at    *)
(* most, and it holds its object and nothing else.                           *)
LEMMA OnlyObject ==
  ASSUME Shape, Aged, NEW i \in Inst, MayRun(i), pc[i] \in { "ipc_list", "free_ipc_list" },
         ipc_list.at = Null \/ ipc_list.chain = {}
  PROVE  /\ \A j \in Inst : \A l \in Kind : Has(j, l) <=> j = i /\ l = "obj"
         /\ order # << >> /\ order[1] = i
<1>1. \A j \in Inst \ {i} : pc[j] = "none"
  BY DEF MayRun, Settled, Shape, ListsMatch, Holding, Has
<1>2. \A j \in Inst \ {i} : \A l \in Kind : ~ Has(j, l)
  BY <1>1 DEF Shape, Holding, Exists, Kind
<1>3. \A l \in Kind : Has(i, l) <=> l = "obj"
  BY DEF Shape, Holding, Exists, Kind
<1>4. Exists(i) /\ pc[i] \notin { "up", "crashed" }
  BY DEF Exists
<1>5. /\ order \in Seq(Inst) /\ Len(order) \in Nat \ {0} /\ DOMAIN order = 1 .. Len(order)
  BY <1>4, Youngest DEF Aged
<1>6. 1 \in DOMAIN order /\ order[1] \in Inst /\ Exists(order[1])
  BY <1>5 DEF Aged, OrderMatches
<1>7. order[1] = i
  BY <1>1, <1>6 DEF Exists
<1> QED BY <1>2, <1>3, <1>5, <1>7

LEMMA StackIpcListCreate ==
  ASSUME Shape, Tiles(Live, s_ptr), Aged, NEW i \in Inst, IpcListCreate(i)
  PROVE  Tiles(Live', s_ptr') /\ Aged'
<1>1. /\ MayRun(i) /\ pc[i] = "ipc_list" /\ UNCHANGED << obj_list, block, order >>
      /\ {"ipc", "crashed"} \subseteq Places /\ BlockTypes
      /\ GoTo(i, "ipc") \/ GoTo(i, "crashed")
  BY DEF IpcListCreate, Places, Shape, Types
<1>2. (\A j \in Inst \ {i} : pc'[j] = pc[j]) /\ (pc'[i] = "ipc" \/ pc'[i] = "crashed")
  BY <1>1, GoToSets
<1>3. OrderMatches'
  BY <1>1, <1>2, OrderKept DEF Aged, Exists
<1>4. CASE UNCHANGED << s_ptr, ipc_list >>
  <2>1. InstancesByAge' /\ ListsByAge'
    BY <1>1, <1>4, FewerBlocks DEF Aged, Has
  <2> QED BY <1>1, <1>3, <1>4, <2>1, NothingMoves DEF Aged
<1>5. CASE /\ ipc_list.at = Null /\ s_ptr' = s_ptr + ListWords
           /\ ipc_list' = [at |-> s_ptr, chain |-> {}]
  <2> DEFINE x == [at |-> s_ptr, words |-> ListWords]
  <2>1. /\ \A j \in Inst : \A l \in Kind : Has(j, l) <=> j = i /\ l = "obj"
        /\ order # << >> /\ order[1] = i
    BY <1>1, <1>5, OnlyObject
  <2>2. /\ s_ptr # Null /\ obj_list.at # Null /\ obj_list.at < s_ptr
        /\ "obj" \in Kind /\ block[i]["obj"] < s_ptr
    BY <1>1, <2>1, AllBelow DEF Shape, ListsMatch, Kind
  <2>3. ASSUME NEW b PROVE InUse(b)' <=> InUse(b) \/ b = x
    BY <1>1, <1>5, <2>2 DEF InUse, ListBlock, InstBlock, Has
  <2>4. Live' = Live \cup {x}
    BY <2>3, LiveIs
  <2>5. Tiles(Live', s_ptr')
    BY <1>5, <2>4, Push
  <2>6. InstancesByAge'
    BY <1>1 DEF Aged, InstancesByAge, Has
  <2>7. \A j \in Inst : \A l \in Kind : Has(j, l)' <=> j = i /\ l = "obj"
    BY <1>1, <2>1 DEF Has
  <2>8. ListsByAge'
    BY <1>1, <1>5, <2>1, <2>2, <2>7 DEF Aged, ListsByAge
  <2> QED BY <1>3, <2>5, <2>6, <2>8 DEF Aged
<1> QED BY <1>4, <1>5 DEF IpcListCreate, Malloc

LEMMA StackIpcListDelete ==
  ASSUME Shape, Tiles(Live, s_ptr), Aged, NEW i \in Inst, IpcListDelete(i)
  PROVE  Tiles(Live', s_ptr') /\ Aged'
<1>1. /\ MayRun(i) /\ UNCHANGED << obj_list, block, order >>
      /\ "free_obj" \in Places /\ BlockTypes
      /\ pc[i] = "free_ipc_list" /\ GoTo(i, "free_obj") /\ s_ptr' = ipc_list.at
      /\ ipc_list' = [at |-> Null, chain |-> {}] /\ ipc_list.at # Null /\ ipc_list.chain = {}
      /\ ipc_list.at \in Nat /\ obj_list.at \in Nat \cup {Null}
  BY DEF IpcListDelete, FreeBlock, NoList, Places, Shape, Types, ListTypes, List, ListsMatch
<1>2. /\ \A j \in Inst : \A l \in Kind : Has(j, l) <=> j = i /\ l = "obj"
      /\ order # << >> /\ order[1] = i /\ "obj" \in Kind
  BY <1>1, OnlyObject DEF Kind
<1>3. OrderMatches'
  BY <1>1, GoToSets, OrderKept DEF Aged, Exists
<1>4. InstancesByAge' /\ ListsByAge'
  BY <1>1, FewerBlocks DEF Aged, Has
<1>5. obj_list.at # Null /\ obj_list.at < ipc_list.at /\ block[i]["obj"] < ipc_list.at
  BY <1>1, <1>2 DEF Aged, ListsByAge
<1> DEFINE x == ListBlock(ipc_list)
<1>6. x \in Live /\ x.at = ipc_list.at
  BY <1>1, LiveIs DEF InUse, ListBlock
<1>7. \A b \in Live : b = x \/ b.at < x.at
  BY <1>2, <1>5, <1>6, LiveIs DEF InUse, ListBlock, InstBlock
<1>8. InstBlock(i, "obj") # x /\ ListBlock(obj_list) # x
  <2>1. InstBlock(i, "obj").at = block[i]["obj"] /\ ListBlock(obj_list).at = obj_list.at
    BY DEF InstBlock, ListBlock
  <2>2. block[i]["obj"] # ipc_list.at /\ obj_list.at # ipc_list.at
    <3>1. block[i]["obj"] \in Nat
      BY <1>2 DEF Shape, Types, BlockTypes, Has
    <3> QED BY <1>1, <1>5, <3>1
  <2> QED BY <1>6, <2>1, <2>2
<1>9. ASSUME NEW b PROVE InUse(b)' <=> InUse(b) /\ b # x
  <2>1. InUse(b) <=> b = ListBlock(obj_list) \/ b = x \/ b = InstBlock(i, "obj")
    BY <1>1, <1>2, <1>5 DEF InUse
  <2>2. InUse(b)' <=> b = ListBlock(obj_list) \/ b = InstBlock(i, "obj")
    BY <1>1, <1>2, <1>5 DEF InUse, ListBlock, InstBlock, Has
  <2> QED BY <1>8, <2>1, <2>2
<1>10. Live' = Live \ {x}
  BY <1>9, LiveIs
<1>11. Tiles(Live \ {x}, x.at)
  <2>1. \A b \in Live : b.at <= x.at
    BY <1>1, <1>6, <1>7 DEF Tiles, Block
  <2> HIDE DEF x
  <2> QED BY <1>6, <2>1, Pop
<1> QED BY <1>1, <1>3, <1>4, <1>6, <1>10, <1>11 DEF Aged

LEMMA StackObjDelete ==
  ASSUME Shape, Tiles(Live, s_ptr), Aged, NEW i \in Inst, ObjDelete(i), in_order
  PROVE  Tiles(Live', s_ptr') /\ Aged'
<1>1. /\ MayRun(i) /\ ipc_list' = ipc_list /\ obj_list'.at = obj_list.at
      /\ "obj" \in Kind /\ {"free_list", "none"} \subseteq Places /\ BlockTypes
      /\ pc[i] = "free_obj" /\ Has(i, "obj") /\ order' = Front(order)
  BY DEF ObjDelete, Unlink, Kind, Places, Shape, Types, ListTypes, List, Holding, Exists
<1>2. PICK l \in {"free_list", "none"} : Release(i, "obj", l)
  BY DEF ObjDelete
<1>3. /\ s_ptr' = block[i]["obj"] /\ pc'[i] = l /\ block'[i]["obj"] = Null
      /\ \A j \in Inst \ {i} : pc'[j] = pc[j] /\ block'[j] = block[j]
      /\ \A m \in Kind \ {"obj"} : block'[i][m] = block[i][m]
  BY <1>1, <1>2, ReleaseSets
<1>4. \A m \in Kind : Has(i, m) <=> m = "obj"
  BY <1>1 DEF Shape, Holding, Kind
<1>5. /\ order \in Seq(Inst) /\ Len(order) \in Nat \ {0} /\ DOMAIN order = 1 .. Len(order)
      /\ order[Len(order)] = i /\ \A n \in DOMAIN order : order[n] = i => n = Len(order)
      /\ \A n \in DOMAIN order : order[n] \in Inst
  BY <1>1, Youngest DEF Aged, Exists
<1>6. /\ Len(order') = Len(order) - 1 /\ DOMAIN order' = 1 .. Len(order) - 1
      /\ \A n \in DOMAIN order' : order'[n] = order[n] /\ n \in DOMAIN order /\ order[n] \in Inst \ {i}
  BY <1>1, <1>5 DEF Front
<1>7. ipc_list.at # Null => order[1] # i /\ Len(order) > 1
  <2>1. SUFFICES ASSUME ipc_list.at # Null PROVE order[1] # i /\ Len(order) > 1
    OBVIOUS
  <2>2. PICK j \in Inst : Has(j, "ipc")
    BY <1>1, <2>1 DEF Shape, ListsMatch
  <2>3. j # i /\ Exists(j)
    BY <1>4, <2>2 DEF Shape, Holding, Exists, Kind
  <2>4. PICK n \in DOMAIN order : order[n] = j
    BY <2>3 DEF Aged, OrderMatches
  <2> QED BY <1>5, <2>3, <2>4
<1>8. Tiles(Live', s_ptr')
  <2>1. \A m \in Kind : Has(i, m) => m = "obj" \/ Rank(m) < Rank("obj")
    BY <1>4
  <2>2. ipc_list.at = Null \/ order[1] # i
    BY <1>7
  <2> QED BY <1>1, <1>3, <2>1, <2>2, StackRelease
<1>9. \A j \in Inst : \A m \in Kind :
        Has(j, m)' <=> j # i /\ Has(j, m)
  BY <1>1, <1>3, <1>4 DEF Has
<1>10. \A j \in Inst \ {i} : \A m \in Kind : block'[j][m] = block[j][m]
  BY <1>3
<1>11. OrderMatches'
  <2>1. \A m, n \in DOMAIN order' : order'[m] = order'[n] => m = n
    BY <1>6 DEF Aged, OrderMatches
  <2>2. \A j \in Inst : Exists(j)' <=> Exists(j) /\ j # i
    BY <1>3 DEF Exists
  <2>3. ASSUME NEW j \in Inst PROVE Exists(j)' <=> \E n \in DOMAIN order' : order'[n] = j
    <3>1. (\E n \in DOMAIN order' : order'[n] = j) <=> (j # i /\ \E n \in DOMAIN order : order[n] = j)
      BY <1>5, <1>6
    <3> QED BY <2>2, <3>1 DEF Aged, OrderMatches
  <2>4. ASSUME NEW n \in DOMAIN order', n < Len(order') PROVE pc'[order'[n]] \in { "up", "crashed" }
    <3>1. n \in DOMAIN order /\ n < Len(order) /\ order'[n] = order[n] /\ order[n] \in Inst \ {i}
      BY <1>5, <1>6, <2>4
    <3> QED BY <1>3, <3>1 DEF Aged, OrderMatches
  <2> QED BY <2>1, <2>3, <2>4 DEF OrderMatches
<1>12. InstancesByAge'
  <2>1. ASSUME NEW j \in Inst, NEW m \in Kind, NEW n \in Kind, Has(j, m)', Has(j, n)', Rank(m) < Rank(n)
        PROVE  block'[j][m] < block'[j][n]
    BY <1>9, <1>10, <2>1 DEF Aged, InstancesByAge
  <2>2. ASSUME NEW m \in DOMAIN order', NEW n \in DOMAIN order',
               NEW k \in Kind \ {"temp"}, NEW o \in Kind \ {"temp"},
               m < n, Has(order[m], k)', Has(order[n], o)'
        PROVE  block'[order'[m]][k] < block'[order'[n]][o]
    <3>1. /\ m \in DOMAIN order /\ order'[m] = order[m] /\ order[m] \in Inst \ {i}
          /\ n \in DOMAIN order /\ order'[n] = order[n] /\ order[n] \in Inst \ {i}
      BY <1>6
    <3>2. Has(order[m], k) /\ block'[order[m]][k] = block[order[m]][k]
      <4>1. block'[order[m]][k] # Null
        BY <2>2, <3>1 DEF Has
      <4> QED BY <1>10, <3>1, <4>1 DEF Has
    <3>3. Has(order[n], o) /\ block'[order[n]][o] = block[order[n]][o]
      <4>1. block'[order[n]][o] # Null
        BY <2>2, <3>1 DEF Has
      <4> QED BY <1>10, <3>1, <4>1 DEF Has
    <3> QED BY <2>2, <3>1, <3>2, <3>3 DEF Aged, InstancesByAge
  <2>3. \A j \in Inst : ~ Has(j, "temp")'
    BY <1>1, <1>4, <1>9 DEF MayRun, Settled, Has, Kind
  <2> QED BY <2>1, <2>2, <2>3 DEF InstancesByAge
<1>13. ListsByAge'
  <2>1. obj_list'.at # Null =>
          /\ ipc_list'.at # Null => obj_list'.at < ipc_list'.at
          /\ \A j \in Inst : \A m \in Kind : Has(j, m)' => obj_list'.at < block'[j][m]
    BY <1>1, <1>9, <1>10 DEF Aged, ListsByAge
  <2>2. ipc_list.at # Null => order' # << >> /\ order'[1] = order[1] /\ order[1] \in Inst \ {i}
    BY <1>5, <1>6, <1>7
  <2>3. ipc_list'.at # Null =>
          /\ obj_list'.at # Null
          /\ order' # << >> /\ (Has(order[1], "obj")' => block'[order'[1]]["obj"] < ipc_list'.at)
    <3>1. SUFFICES ASSUME ipc_list'.at # Null
                   PROVE  /\ obj_list'.at # Null /\ order' # << >>
                          /\ (Has(order[1], "obj")' => block'[order'[1]]["obj"] < ipc_list'.at)
      OBVIOUS
    <3>2. block'[order'[1]]["obj"] = block[order[1]]["obj"]
      BY <1>1, <1>10, <2>2, <3>1
    <3> QED BY <1>1, <2>2, <3>1, <3>2 DEF Aged, ListsByAge, Has
  <2>4. ipc_list'.at # Null => \A j \in Inst : \A m \in Kind :
          Has(j, m)' /\ (m # "obj" \/ j # order'[1]) => ipc_list'.at < block'[j][m]
    BY <1>1, <1>9, <1>10, <2>2 DEF Aged, ListsByAge
  <2> QED BY <2>1, <2>3, <2>4 DEF ListsByAge
<1> QED BY <1>8, <1>11, <1>12, <1>13 DEF Aged

-----------------------------------------------------------------------------
LEMMA StackInit == Init => Tiles(Live, s_ptr) /\ Aged
<1> SUFFICES ASSUME Init PROVE Tiles(Live, s_ptr) /\ Aged
  OBVIOUS
<1>1. /\ s_ptr = 0 /\ obj_list.at = Null /\ ipc_list.at = Null /\ order = << >>
      /\ \A i \in Inst : pc[i] = "none" /\ \A k \in Kind : ~ Has(i, k)
  BY DEF Init, NoList, Has
<1>2. Live = {}
  BY <1>1, LiveIs DEF InUse
<1>3. Tiles(Live, s_ptr)
  BY <1>1, <1>2 DEF Tiles
<1>4. Aged
  BY <1>1 DEF Aged, OrderMatches, InstancesByAge, ListsByAge, Exists, Kind
<1> QED BY <1>3, <1>4

LEMMA StackStep == IInv /\ [Next]_vars => Stack'
<1> SUFFICES ASSUME Shape, Stack, [Next]_vars, in_order'
             PROVE  Tiles(Live', s_ptr') /\ Aged'
  BY DEF IInv, Stack
<1>1. CASE Next
  <2>1. PICK i \in Inst : Create(i) \/ CallBack(i) \/ Delete(i)
    BY <1>1 DEF Next
  <2>2. in_order
    BY <2>1 DEF Create, CreateBegin, ObjCreate, IpcListCreate, IpcCreate, MessagesCreate,
                CallBack, CallBackBegins, CallBackEnds, Delete, DeleteBegin, MessagesDelete,
                IpcDelete, IpcListDelete, ObjDelete, ObjListDelete
  <2>3. Tiles(Live, s_ptr) /\ Aged
    BY <2>2 DEF Stack
  <2>4. CASE Create(i)
    BY <2>2, <2>3, <2>4, StackCreateBegin, StackObjCreate, StackIpcListCreate, StackIpcCreate,
       StackMessagesCreate DEF Create
  <2>5. CASE CallBack(i)
    BY <2>3, <2>5, StackCallBackBegins, StackCallBackEnds DEF CallBack
  <2>6. CASE Delete(i)
    BY <2>2, <2>3, <2>6, StackDeleteBegin, StackMessagesDelete, StackIpcDelete, StackIpcListDelete,
       StackObjDelete, StackObjListDelete DEF Delete
  <2> QED BY <2>1, <2>4, <2>5, <2>6
<1>2. CASE UNCHANGED vars
  BY <1>2 DEF vars, Stack, Tiles, Live, ListBlocks, InstBlocks, Aged, OrderMatches,
              InstancesByAge, ListsByAge, Has, Exists
<1> QED BY <1>1, <1>2

(* The shape, and while instances are deleted youngest first the stack, hold *)
(* after every call of the allocator.                                        *)
THEOREM Invariance == Spec => []IInv
<1>1. Init => IInv
  BY ShapeInit, StackInit DEF IInv, Stack
<1>2. IInv /\ [Next]_vars => IInv'
  BY ShapeStep, StackStep DEF IInv
<1> QED BY <1>1, <1>2, PTL DEF Spec

(* The end of the allocated part and every block the library holds stay      *)
(* inside s_mem_pool, in whatever order instances come and go.               *)
THEOREM TypeCorrect == Spec => []TypeOK
<1>1. IInv => TypeOK
  <2> SUFFICES ASSUME Shape PROVE TypeOK
    BY DEF IInv
  <2>1. \A b \in Live : b.at >= 0 /\ b.at + b.words <= PoolWords
    <3>1. \A j \in Inst : \A k \in Kind : Has(j, k) =>
             block[j][k] \in Nat /\ block[j][k] + Words(k) <= PoolWords
      BY DEF Shape, Types, BlockTypes, Has
    <3>2. /\ obj_list.at # Null => obj_list.at \in Nat /\ obj_list.at + ListWords <= PoolWords
          /\ ipc_list.at # Null => ipc_list.at \in Nat /\ ipc_list.at + ListWords <= PoolWords
      BY DEF Shape, Types, ListTypes, List
    <3> QED BY <3>1, <3>2, LiveIs DEF InUse, ListBlock, InstBlock
  <2>2. s_ptr \in 0 .. PoolWords /\ \A l \in { obj_list, ipc_list } : l.chain \subseteq Inst
    BY DEF Shape, Types, BlockTypes, ListTypes, List
  <2> QED BY <2>1, <2>2 DEF TypeOK
<1> QED BY <1>1, Invariance, PTL

(* While instances are deleted youngest first, no allocation and no deletion *)
(* takes a block from its owner, for any number of instances and any sizes.  *)
THEOREM BlocksKept == Spec => []LiveBlocksKept
<1>1. IInv => LiveBlocksKept
  BY DEF IInv, Stack, Tiles, LiveBlocksKept
<1> QED BY <1>1, Invariance, PTL

(* While instances are deleted youngest first, every word below the end of   *)
(* the allocated part belongs to a block in use: all is given back.          *)
THEOREM AllGivenBack == Spec => []NothingLeaks
<1>1. IInv => NothingLeaks
  BY DEF IInv, Stack, Tiles, NothingLeaks
<1> QED BY <1>1, Invariance, PTL

=============================================================================
