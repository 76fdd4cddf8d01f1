----------------------------- MODULE MemoryCopy -----------------------------
(***************************************************************************)
(* memcpy and memset of xmemcpy.S: one step for each turn of a loop.  What   *)
(* is copied to an address is the address that it was read from.  The two   *)
(* regions do not overlap.                                                  *)
(***************************************************************************)
EXTENDS Integers

CONSTANTS Sizes,      \* how much is copied
          Alignments, \* of dest and src
          AnySize     \* whether a copy may be too short to reach alignment

\* What is assumed of the constants.
MemoryCopyAssumption ==
    Sizes \subseteq Nat /\ Alignments \subseteq Nat /\ AnySize \in BOOLEAN

VARIABLES call,     \* function, dest, src and size
          at,       \* the label
          r0, r1, r2,
          copied,
          aligned   \* whether each word was read and written where words lie

memVars == <<call, at, r0, r1, r2, copied, aligned>>

Source == 1000
Filled == -1

\* Sizes that the loop at fix_alignment does not overrun
LongEnough(dest, src, size) ==
    dest % 4 # 0 /\ dest % 4 = src % 4 => size + (dest % 4) >= 4

MemInit ==
    /\ \E fn \in {"memcpy", "memset"}, dest \in Alignments, offset \in Alignments, size \in Sizes :
          /\ fn = "memset" => offset = 0
          /\ fn = "memset" \/ AnySize \/ LongEnough(dest, offset, size)
          /\ call = [fn |-> fn, dest |-> dest, src |-> Source + offset, size |-> size]
          /\ r0 = dest
          /\ r1 = Source + offset
          /\ r2 = IF fn = "memset" THEN size + 1 ELSE size
          /\ at = IF fn = "memset" THEN "memset_loop" ELSE "memcpy"
    /\ copied = << >>
    /\ aligned = TRUE

-----------------------------------------------------------------------------

memcpy ==
    /\ at = "memcpy"
    /\ at' = IF r0 % 4 # 0 /\ r0 % 4 = r1 % 4 THEN "fix_alignment"
             ELSE IF r0 % 4 = 0 /\ r1 % 4 = 0 THEN "burst_cpy40"
             ELSE "copy_rest"
    /\ UNCHANGED <<call, r0, r1, r2, copied, aligned>>

\* k bytes from r1 to r0
Copy(k) ==
    /\ copied' = [a \in DOMAIN copied \cup r0 .. r0 + k - 1 |->
                    IF a \in r0 .. r0 + k - 1 THEN r1 + (a - r0) ELSE copied[a]]
    /\ r0' = r0 + k
    /\ r1' = r1 + k
    /\ r2' = r2 - k

fix_alignment ==
    /\ at = "fix_alignment"
    /\ Copy(1)
    /\ at' = IF r0' % 4 = 0 THEN "burst_cpy40" ELSE at
    /\ UNCHANGED <<call, aligned>>

\* Mutant: a loop goes on as long as anything is left.
BurstOfAnything(label, k, next) ==
    /\ at = label
    /\ \/ r2 <= 0 /\ at' = next /\ UNCHANGED <<call, r0, r1, r2, copied, aligned>>
       \/ r2 > 0 /\ Copy(k)
          /\ aligned' = (aligned /\ r0 % 4 = 0 /\ r1 % 4 = 0) /\ UNCHANGED <<call, at>>

\* One of the loops that copy k bytes as words
Burst(label, k, next) ==
    /\ at = label
    /\ \/ r2 < k /\ at' = next /\ UNCHANGED <<call, r0, r1, r2, copied, aligned>>
       \/ r2 >= k /\ Copy(k)
          /\ aligned' = (aligned /\ r0 % 4 = 0 /\ r1 % 4 = 0) /\ UNCHANGED <<call, at>>

copy_rest ==
    /\ at = "copy_rest"
    /\ \/ r2 < 1 /\ at' = "memcpy_done" /\ UNCHANGED <<call, r0, r1, r2, copied, aligned>>
       \/ r2 >= 1 /\ Copy(1) /\ UNCHANGED <<call, at, aligned>>

memset_loop ==
    /\ at = "memset_loop"
    /\ r2' = r2 - 1
    /\ \/ r2 = 1 /\ at' = "memcpy_done" /\ UNCHANGED <<r0, copied>>
       \/ /\ r2 # 1
          /\ copied' = [a \in DOMAIN copied \cup {r0} |->
                          IF a = r0 THEN Filled ELSE copied[a]]
          /\ r0' = r0 + 1
          /\ UNCHANGED at
    /\ UNCHANGED <<call, r1, aligned>>

MemNext ==
    \/ memcpy \/ fix_alignment
    \/ Burst("burst_cpy40", 40, "burst_cpy20") \/ Burst("burst_cpy20", 20, "burst_cpy12")
    \/ Burst("burst_cpy12", 12, "burst_cpy4") \/ Burst("burst_cpy4", 4, "copy_rest")
    \/ copy_rest \/ memset_loop

MemSpec == MemInit /\ [][MemNext]_memVars

-----------------------------------------------------------------------------
(* Properties *)

\* Whatever way a copy takes, through bytes and bursts of words, it writes each
\* byte of the destination once it is done, with the byte that belongs there,
\* and never one outside; and words are only accessed where words may lie.
CopiesExactly ==
    /\ aligned
    /\ DOMAIN copied \subseteq call.dest .. call.dest + call.size - 1
    /\ at = "memcpy_done" =>
          copied = [a \in call.dest .. call.dest + call.size - 1 |->
                      IF call.fn = "memset" THEN Filled ELSE call.src + (a - call.dest)]
=============================================================================
