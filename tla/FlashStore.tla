----------------------------- MODULE FlashStore -----------------------------
(***************************************************************************)
(* What a user of the flash driver may rely on: a call takes effect as a   *)
(* whole when it returns; a call that is cut short by a reset can leave    *)
(* anything in the sectors it touches, and nothing outside them.           *)
(***************************************************************************)
EXTENDS Integers, Sequences

CONSTANTS
  SECTOR,    \* bytes in a sector: 4096
  SECTORS,   \* sectors of the chip: 2048 in the driver's comment
  Bits,      \* a byte is the set of its bits that are one
  Texts      \* what is written

Addresses == 0..(SECTORS * SECTOR - 1)
Sectors   == 0..(SECTORS - 1)
Byte      == SUBSET Bits
Erased    == Bits

VARIABLES
  store,
  call    \* the call under way, or Idle

storevars == <<store, call>>

Idle == [op |-> "none"]

Calls ==
  [op : {"write"}, addr : Addresses, text : Texts]
    \union [op : {"erase"}, area : {{s} : s \in Sectors} \union {Sectors}]

\* The addresses that are given new contents, and the sectors they are in.
Target(c) == IF c.op = "write"
            THEN c.addr..(c.addr + Len(c.text) - 1)
            ELSE {a \in Addresses : a \div SECTOR \in c.area}

Touched(c) == {a \in Addresses : \E b \in Target(c) : a \div SECTOR = b \div SECTOR}

Result(c) ==
  [a \in Addresses |->
     IF a \notin Target(c) THEN store[a]
     ELSE IF c.op = "write" THEN c.text[a - c.addr + 1] ELSE Erased]

StoreInit ==
  /\ store = [a \in Addresses |-> Erased]
  /\ call = Idle

Begin ==
  /\ call = Idle
  /\ call' \in {c \in Calls : Target(c) \subseteq Addresses}
  /\ UNCHANGED store

Complete ==
  /\ call # Idle
  /\ store' = Result(call)
  /\ call' = Idle

Torn ==
  /\ call # Idle
  /\ store' \in [Addresses -> Byte]
  /\ \A a \in Addresses \ Touched(call) : store'[a] = store[a]
  /\ call' = Idle

=============================================================================
