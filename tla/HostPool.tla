------------------------------ MODULE HostPool ------------------------------
(***************************************************************************)
(* The memory of the inv478x host library.  common/malloc hands out blocks  *)
(* of one static pool, the next one behind the last one; deleting a block   *)
(* moves the end of the allocated part back to it and so frees every block  *)
(* behind it.  common/obj keeps the objects of a module in a list that is a *)
(* block of its own.  inv478x_create allocates, for an instance, its object,*)
(* its IPC object and two messages (and a list for the first object of each *)
(* kind); inv478x_delete frees them in reverse; the IPC call-back allocates *)
(* a message for its own duration.                                          *)
(*                                                                          *)
(* Addresses and sizes are in words of the pool.  Null is no address.  The  *)
(* circular list of a module is the set of its instances.                   *)
(* The library is used by one thread.  Calls of several threads on several  *)
(* instances at once, which would make matters worse, are left out.         *)
(***************************************************************************)
EXTENDS Integers, Sequences, SequencesExt

CONSTANTS
  Inst,           \* driver instances: one per chip
  ListWords,      \* struct lst_obj
  ObjWords,       \* struct hdr_obj and struct obj
  IpcWords,       \* struct hdr_obj and struct ipc_obj
  MesWords,       \* struct mes
  PoolWords,      \* MEMPOOL_SIZE_IN_WORDS
  MaxCreates      \* bound: calls of inv478x_create

ASSUME PoolAssumption ==
  /\ ListWords \in Nat \ {0} /\ ObjWords \in Nat \ {0}
  /\ IpcWords \in Nat \ {0} /\ MesWords \in Nat \ {0}
  /\ PoolWords \in Nat /\ MaxCreates \in Nat

VARIABLES
  s_ptr,              \* end of the allocated part of the pool
  obj_list, ipc_list, \* s_obj_list_inst of inv478x.c and of inv_drv_ipc.c
  block,              \* block[i]: the blocks instance i holds, by what they are
  pc,                 \* pc[i]: what inv478x_create or _delete does next for i
  order,              \* history: the instances that exist, oldest first (while in_order)
  in_order,           \* history: each instance deleted so far was the youngest one
  creates

vars == << s_ptr, obj_list, ipc_list, block, pc, order, in_order, creates >>

Null == -1
Kind == { "obj", "ipc", "req", "ack", "temp" }
Words(k) == CASE k = "obj" -> ObjWords [] k = "ipc" -> IpcWords [] OTHER -> MesWords
NoList == [ at |-> Null, chain |-> {} ]

GoTo(i, l) == pc' = [pc EXCEPT ![i] = l]

(* inv_sys_malloc_create and inv_sys_malloc_delete                           *)
Fits(words) == s_ptr + words < PoolWords
Malloc(words) == s_ptr' = s_ptr + words
FreeBlock(p) == s_ptr' = p

(* A call of the library is over before the next one begins, on any instance; *)
(* nothing runs after a crash.                                               *)
Settled(i) == pc[i] \in { "none", "up" } /\ block[i]["temp"] = Null
MayRun(i) ==
  /\ \A j \in Inst : pc[j] # "crashed"
  /\ \A j \in Inst \ {i} : Settled(j)

-----------------------------------------------------------------------------
(* inv478x_create                                                           *)

CreateBegin(i) ==
  /\ pc[i] = "none" /\ MayRun(i) /\ creates < MaxCreates
  /\ creates' = creates + 1
  /\ IF obj_list.at # Null
       THEN GoTo(i, "obj") /\ UNCHANGED << s_ptr, obj_list >>
       ELSE IF Fits(ListWords)
              THEN /\ Malloc(ListWords) /\ obj_list' = [ at |-> s_ptr, chain |-> {} ]
                   /\ GoTo(i, "obj")
              ELSE UNCHANGED << s_ptr, obj_list, pc >>
  /\ UNCHANGED << ipc_list, block, order, in_order >>

(* When no object fits, an empty list is deleted again and NULL is returned.  *)
EmptyListFreed ==
  IF obj_list.chain = {}
    THEN FreeBlock(obj_list.at) /\ obj_list' = NoList
    ELSE UNCHANGED << s_ptr, obj_list >>

ObjCreate(i) ==
  /\ pc[i] = "obj" /\ MayRun(i)
  /\ IF Fits(ObjWords)
       THEN /\ Malloc(ObjWords)
            /\ block' = [block EXCEPT ![i]["obj"] = s_ptr]
            /\ obj_list' = [obj_list EXCEPT !.chain = @ \cup {i}]
            /\ order' = IF in_order THEN Append(order, i) ELSE order
            /\ GoTo(i, "ipc_list")
       ELSE /\ EmptyListFreed
            /\ GoTo(i, "none")
            /\ UNCHANGED << block, order >>
  /\ UNCHANGED << ipc_list, creates, in_order >>

(* From here on what the allocator returns is used unchecked: INV_ASSERT is   *)
(* compiled out, a NULL is written through.                                   *)
IpcListCreate(i) ==
  /\ pc[i] = "ipc_list" /\ MayRun(i)
  /\ IF ipc_list.at # Null
       THEN GoTo(i, "ipc") /\ UNCHANGED << s_ptr, ipc_list >>
       ELSE IF Fits(ListWords)
              THEN /\ Malloc(ListWords) /\ ipc_list' = [ at |-> s_ptr, chain |-> {} ]
                   /\ GoTo(i, "ipc")
              ELSE GoTo(i, "crashed") /\ UNCHANGED << s_ptr, ipc_list >>
  /\ UNCHANGED << obj_list, block, order, creates, in_order >>

Allocate(i, k, next) ==
  IF Fits(Words(k))
    THEN /\ Malloc(Words(k)) /\ block' = [block EXCEPT ![i][k] = s_ptr]
         /\ GoTo(i, next)
    ELSE GoTo(i, "crashed") /\ UNCHANGED << s_ptr, block >>

IpcCreate(i) ==
  /\ pc[i] = "ipc" /\ MayRun(i)
  /\ Allocate(i, "ipc", "req")
  /\ ipc_list' = IF Fits(IpcWords) THEN [ipc_list EXCEPT !.chain = @ \cup {i}] ELSE ipc_list
  /\ UNCHANGED << obj_list, order, creates, in_order >>

MessagesCreate(i) ==
  /\ MayRun(i)
  /\ \/ pc[i] = "req" /\ Allocate(i, "req", "ack")
     \/ pc[i] = "ack" /\ Allocate(i, "ack", "up")
  /\ UNCHANGED << obj_list, ipc_list, order, creates, in_order >>

-----------------------------------------------------------------------------
(* inv_drv_ipc_call_back, in whichever call of the library the message comes  *)

CallBackBegins(i) ==
  /\ pc[i] = "up" /\ MayRun(i) /\ block[i]["temp"] = Null
  /\ Allocate(i, "temp", "up")
  /\ UNCHANGED << obj_list, ipc_list, order, creates, in_order >>

NotDeleted(i) == UNCHANGED s_ptr   \* mutant: the message is not deleted
MessageDeleted(i) == FreeBlock(block[i]["temp"])

CallBackEnds(i) ==
  /\ block[i]["temp"] # Null /\ MayRun(i)
  /\ MessageDeleted(i)
  /\ block' = [block EXCEPT ![i]["temp"] = Null]
  /\ UNCHANGED << obj_list, ipc_list, pc, order, creates, in_order >>

-----------------------------------------------------------------------------
(* inv478x_delete: s_resources_delete                                        *)

DeleteBegin(i) ==
  /\ pc[i] = "up" /\ MayRun(i) /\ block[i]["temp"] = Null
  /\ in_order' = (in_order /\ i = Last(order))
  /\ GoTo(i, "free_ack")
  /\ UNCHANGED << s_ptr, obj_list, ipc_list, block, order, creates >>

Release(i, k, next) ==
  /\ FreeBlock(block[i][k])
  /\ block' = [block EXCEPT ![i][k] = Null]
  /\ GoTo(i, next)

SecondMessage == "req"   \* mutant: deleted in the order of creation
FirstMessage == "ack"
LastMessage == CHOOSE k \in { "req", "ack" } : k # FirstMessage
MessagesDelete(i) ==
  /\ MayRun(i)
  /\ \/ pc[i] = "free_ack" /\ Release(i, FirstMessage, "free_req")
     \/ pc[i] = "free_req" /\ Release(i, LastMessage, "free_ipc")
  /\ UNCHANGED << obj_list, ipc_list, order, creates, in_order >>

(* inv_sys_obj_instance_delete, then inv_sys_obj_list_delete of an empty list. *)
Unlink(list, i) == [list EXCEPT !.chain = @ \ {i}]

IpcDelete(i) ==
  /\ pc[i] = "free_ipc" /\ MayRun(i)
  /\ Release(i, "ipc", IF ipc_list.chain = {i} THEN "free_ipc_list" ELSE "free_obj")
  /\ ipc_list' = Unlink(ipc_list, i)
  /\ UNCHANGED << obj_list, order, creates, in_order >>

IpcListDelete(i) ==
  /\ pc[i] = "free_ipc_list" /\ MayRun(i)
  /\ FreeBlock(ipc_list.at) /\ ipc_list' = NoList
  /\ GoTo(i, "free_obj")
  /\ UNCHANGED << obj_list, block, order, creates, in_order >>

ObjDelete(i) ==
  /\ pc[i] = "free_obj" /\ MayRun(i)
  /\ Release(i, "obj", IF obj_list.chain = {i} THEN "free_list" ELSE "none")
  /\ obj_list' = Unlink(obj_list, i)
  /\ order' = IF in_order THEN Front(order) ELSE order
  /\ UNCHANGED << ipc_list, creates, in_order >>

ObjListDelete(i) ==
  /\ pc[i] = "free_list" /\ MayRun(i)
  /\ FreeBlock(obj_list.at) /\ obj_list' = NoList
  /\ GoTo(i, "none")
  /\ UNCHANGED << ipc_list, block, order, creates, in_order >>

-----------------------------------------------------------------------------
Init ==
  /\ s_ptr = 0 /\ obj_list = NoList /\ ipc_list = NoList
  /\ block = [i \in Inst |-> [k \in Kind |-> Null]]
  /\ pc = [i \in Inst |-> "none"]
  /\ order = << >> /\ in_order = TRUE /\ creates = 0

Create(i) ==
  \/ CreateBegin(i) \/ ObjCreate(i) \/ IpcListCreate(i) \/ IpcCreate(i) \/ MessagesCreate(i)
CallBack(i) == CallBackBegins(i) \/ CallBackEnds(i)
Delete(i) ==
  \/ DeleteBegin(i) \/ MessagesDelete(i) \/ IpcDelete(i) \/ IpcListDelete(i)
  \/ ObjDelete(i) \/ ObjListDelete(i)

Next == \E i \in Inst : Create(i) \/ CallBack(i) \/ Delete(i)

Spec == Init /\ [][Next]_vars

-----------------------------------------------------------------------------
(* Properties                                                               *)

(* The blocks somebody still has a pointer to.                               *)
ListBlocks == { [ at |-> l.at, words |-> ListWords ] : l \in { obj_list, ipc_list } }
InstBlocks == UNION { { [ at |-> block[i][k], words |-> Words(k) ] : k \in Kind } : i \in Inst }
Live == { b \in ListBlocks \cup InstBlocks : b.at # Null }

(* The end of the allocated part stays inside s_mem_pool, and so does every   *)
(* block the library holds.                                                   *)
TypeOK ==
  /\ s_ptr \in 0 .. PoolWords
  /\ \A b \in Live : b.at >= 0 /\ b.at + b.words <= PoolWords
  /\ \A l \in { obj_list, ipc_list } : l.chain \subseteq Inst

(* While instances are deleted youngest first, no block is taken from its     *)
(* owner: blocks in use do not overlap and lie below s_ptr, so that no later  *)
(* allocation clears them and each is deleted inside the allocated part, as   *)
(* inv_sys_malloc_delete asserts.                                             *)
LiveBlocksKept == in_order =>
  /\ \A b \in Live : b.at + b.words <= s_ptr
  /\ \A b, c \in Live : b = c \/ b.at + b.words <= c.at \/ c.at + c.words <= b.at

(* While instances are deleted youngest first, everything is given back: every*)
(* word below s_ptr belongs to a block in use, and when the last instance is  *)
(* deleted the pool is empty.                                                 *)
NothingLeaks == in_order =>
  \A w \in 0 .. s_ptr - 1 : \E b \in Live : b.at <= w /\ w < b.at + b.words

=============================================================================
