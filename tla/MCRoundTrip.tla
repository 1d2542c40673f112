----------------------------- MODULE MCRoundTrip -----------------------------
(***************************************************************************)
(* Instances of RoundTrip.  Register numbers have their lowest or their    *)
(* highest bit set, immediates reach both ends of their field.             *)
(***************************************************************************)
EXTENDS RoundTrip

SomeRegs == {0, 1, 16, 31}
SomeImms == {0, 4, 32768, 65535}

AllLines ==
  {Line(o, Reg(a), Reg(b), Reg(c)) : o \in ThreeRegOps \ {"jr"},
                                     a, b, c \in SomeRegs}
  \cup {Line(o, Reg(a), Reg(b), Lit(n)) : o \in ShiftOps, a, b \in SomeRegs,
                                          n \in {0, 1, 31}}
  \cup {Line(o, Reg(a), Reg(b), None) : o \in RsRtOps, a, b \in SomeRegs}
  \cup {Line(o, Reg(a), None, None) : o \in RdOps \cup RsOps \cup {"jr", "jalr"},
                                      a \in SomeRegs}
  \cup {Line(o, Reg(a), Reg(b), Lit(n)) : o \in IOps \cup {"slti", "sltiu"},
                                          a, b \in SomeRegs, n \in SomeImms}
  \cup {Line("lui", Reg(a), None, Lit(n)) : a \in SomeRegs, n \in SomeImms}
  \cup {Line(o, Lit(n), None, None) : o \in JOps,
          n \in {0, 4, 1026, 4194304, 67108860, 67108864, 268435452,
                268435456}}

AllStarts == [op : 0..63, rs : {0, 9, 31}, rt : {0, 17},
              low : {0, 65535} \cup {12 * 2048 + f : f \in 0..63}]
=============================================================================
