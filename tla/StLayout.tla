------------------------------ MODULE StLayout ------------------------------
(***************************************************************************)
(* Where the Structured Text compiler puts the variables of a unit:        *)
(* typechecker.rs, register_variable, with the sizes of frontend/ast.rs    *)
(* and the widths of the stores in ir.rs.  Sizes and offsets are in bytes. *)
(* Everything here is a function of the declarations: the n-th declaration *)
(* has the name names[n] and the size sizes[n].                            *)
(***************************************************************************)
EXTENDS Integers, Sequences

OneByte == {"BOOL", "SINT", "USINT", "BYTE"}
TwoBytes == {"INT", "UINT", "WORD"}
FourBytes == {"DINT", "UDINT", "DWORD", "REAL"}
EightBytes == {"LINT", "ULINT", "LWORD", "LREAL", "TIME", "DATE", "TOD", "DT"}
Scalars == OneByte \cup TwoBytes \cup FourBytes \cup EightBytes

\* size_bytes().unwrap_or(4): a named type and a STRING have no size of their own.
ScalarSize(kind) ==
  CASE kind \in OneByte -> 1
    [] kind \in TwoBytes -> 2
    [] kind \in EightBytes -> 8
    [] OTHER -> 4

\* emit_store: the bytes that the store instruction of a type writes.
Stored(kind) ==
  CASE kind \in OneByte -> 1
    [] kind \in TwoBytes -> 2
    [] kind \in {"LINT", "ULINT", "LWORD", "TIME", "LREAL"} -> 8
    [] OTHER -> 4

-----------------------------------------------------------------------------
\* The bits that n has in common with a mask below 8, one by one.
Common(n, mask) ==
  LET Bit(b) == IF (n \div b) % 2 = 1 /\ (mask \div b) % 2 = 1 THEN b ELSE 0
  IN  Bit(1) + Bit(2) + Bit(4)

\* alignment - 1, where the alignment, min(size, 8), is not a power of two for
\* every array.
Mask(size) == (IF size < 8 THEN size ELSE 8) - 1

\* (next + alignment - 1) & !(alignment - 1).
Align(next, size) == (next + Mask(size)) - Common(next + Mask(size), Mask(size))

\* Mutant: next_offset is not moved past the variable.
AdvanceWithoutRoom(next, size) == Align(next, size)

\* next_offset after a declaration.
Advance(next, size) == Align(next, size) + size

\* next_offset after the first n declarations.
NextOffset(start, sizes) ==
  LET next[n \in 0..Len(sizes)] == IF n = 0 THEN start ELSE Advance(next[n - 1], sizes[n])
  IN  next

\* The entry that a table keyed by name keeps of a name declared twice.
LastOf(names, name) ==
  CHOOSE n \in 1..Len(names) :
    names[n] = name /\ \A m \in 1..Len(names) : names[m] = name => m <= n

\* The offset of each name.
Offsets(start, names, sizes) ==
  LET next == NextOffset(start, sizes)
  IN  [name \in {names[n] : n \in 1..Len(names)} |->
         LET n == LastOf(names, name) IN Align(next[n - 1], sizes[n])]
=============================================================================
