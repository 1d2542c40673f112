------------------------------ MODULE ElfFields ------------------------------
(***************************************************************************)
(* What the headers of an ELF file promise their user: every header is a   *)
(* record of independent fields.  Setting one gives it that value and      *)
(* leaves every other field, and every other header, alone.                *)
(***************************************************************************)
CONSTANTS
  Headers,       (* The headers of a process.                              *)
  Fields(_),     (* The names of the fields of a header.                   *)
  Settable(_),   (* Those that have a setter.                              *)
  Values(_, _),  (* What the setter of a field may be given.               *)
  Kin(_)         (* The headers of the same class.                         *)

VARIABLE record  (* The value of each field of each header.                *)

Init == record = [h \in Headers |-> [f \in Fields(h) |-> 0]]

Set(h, f, v) == record' = [record EXCEPT ![h] = [record[h] EXCEPT ![f] = v]]

Assign(h, g) == record' = [record EXCEPT ![h] = record[g]]

Next == \E h \in Headers :
          \/ \E f \in Settable(h) : \E v \in Values(h, f) : Set(h, f, v)
          \/ \E g \in Kin(h) : Assign(h, g)

Spec == Init /\ [][Next]_record
=============================================================================
