----------------------------- MODULE Relocation -----------------------------
(***************************************************************************)
(* Relocate_symbols: the members of an output section are copied into the  *)
(* buffer and their relocations are applied, one after the other, in the   *)
(* order Sort_relocation has left them in.                                 *)
(*                                                                         *)
(* A member in the buffer is the set of its bits that are one, so that bit *)
(* b of the byte at offset n is 8 * n + b.  The fields of an instruction   *)
(* have their real places.  A uint32_t has WordBits bits and an address    *)
(* AddrBits, in place of 32 and 64; the upper immediate of an instruction  *)
(* ends with a uint32_t.                                                   *)
(***************************************************************************)
EXTENDS Integers, SequencesExt, FiniteSetsExt

CONSTANTS
    NumMembers,     \* members of the output section
    MemberShapes,   \* what a member may be
    Symbols,        \* Symbols[s]: where a symbol is
    Places,         \* the sections outside, the pieces among them
    Addresses,      \* what the address of a place may be
    Base, Stride,   \* address of the first member, and from one to the next
    WordBits, AddrBits

Members == 1 .. NumMembers

\* where a symbol is: in a section, this one or another; in a piece, alive or
\* dead; in none; or in a section that is no member of an output section.  This
\* one stands for the section that has the relocation.  A symbol of a file may
\* also be a null pointer: a global that is defined in a section not needed is
\* not put into the symbol list.
Here == "here"
Absolute == "absolute"
DeadPiece == "dead_piece"
Unplaced == "unplaced"
Unbound == "unbound"

\* A symbol is gone if Clear_unused_resources has erased the entry that owns it,
\* while the list of a live file still points there.  What else is said of it is
\* then what happens to be in the freed memory.
Symbol == [local : BOOLEAN, piece : BOOLEAN, gone : BOOLEAN,
           where : Places \union {Here, Absolute, DeadPiece, Unplaced, Unbound}, val : Nat]

High20 == {"GOT_HI20", "TLS_GOT_HI20", "TLS_GD_HI20", "PCREL_HI20", "TLSDESC_HI20"}
Branches == {"BRANCH", "JAL", "RVC_BRANCH", "RVC_JUMP"}
PairedLow == {"PCREL_LO12_I", "PCREL_LO12_S"}
AbsoluteLow == {"LO12_I", "LO12_S"}
Stores == {"32", "64", "SET8", "SET16", "SET32", "PLT32", "32_PCREL"}
Sums == {"ADD16", "ADD32", "ADD64", "SUB16", "SUB32", "SUB64"}
Ignored == {"NONE", "RELAX"}
Supported ==
    Branches \union PairedLow \union AbsoluteLow \union Stores \union Sums \union Ignored
    \union {"CALL", "CALL_PLT", "PCREL_HI20", "HI20", "ADD8", "SUB8", "ALIGN",
            "SET6", "SUB6", "SET_ULEB128", "SUB_ULEB128"}

Rel == [type : STRING, offset : Nat, sym : DOMAIN Symbols, addend : Int]

ASSUME WidthAssumption ==
    WordBits \in 22 .. 32 /\ AddrBits \in WordBits + 1 .. 64

ASSUME AddressAssumption ==
    Base \in Nat /\ Stride \in Nat /\ Addresses \subseteq Nat

\* The symbols of the file itself are bound and never erased.
ASSUME SymbolsAssumption ==
    \A s \in DOMAIN Symbols :
        /\ Symbols[s] \in Symbol
        /\ Symbols[s].gone \/ Symbols[s].where = Unbound => ~Symbols[s].local

ASSUME MembersAssumption ==
    /\ NumMembers \in Nat \ {0}
    /\ MemberShapes \subseteq [rels : Seq(Rel), size : Nat, data : SUBSET Nat]
    /\ \A shape \in MemberShapes : \A b \in shape.data : b < 8 * shape.size

VARIABLES
    shapes,     \* the members, as they are in their files
    addr,       \* the address of every place
    rels,       \* the relocations of every member, as sorted
    image,      \* the members in the buffer
    phase,      \* "sort", "copy", "relocate", or how it ended
    member,     \* loop index of Relocate_symbols
    relIdx      \* loop index of Reloc_alloc

inputVars == <<shapes, addr>>
vars == <<inputVars, rels, image, phase, member, relIdx>>

Failures == {"out_of_range", "pair_missing", "not_supported", "odd_padding",
             "not_bound", "not_found", "unreachable", "crashed"}

-----------------------------------------------------------------------------
(***************************************************************************)
(* Numbers and bits.                                                       *)
(***************************************************************************)
\* A number as an int64_t.
Signed(v) ==
    LET u == v % 2 ^ AddrBits IN IF u < 2 ^ (AddrBits - 1) THEN u ELSE u - 2 ^ AddrBits

bit(v, n) == (v \div 2 ^ n) % 2 = 1
Bits(v, width) == {n \in 0 .. width - 1 : bit(v, n)}

\* EPOI: bits hi to lo of v, put at bit to.
EPOI(v, hi, lo, to) == {n - lo + to : n \in {k \in lo .. hi : bit(v, k)}}

At(loc, bits) == {8 * loc + b : b \in bits}
Load(bytes, loc, width) ==
    SumSet({2 ^ b : b \in {n \in 0 .. width - 1 : 8 * loc + n \in bytes}})

\* *loc &= ~cleared; *loc |= bits
Replace(bytes, loc, cleared, bits) == (bytes \ At(loc, cleared)) \union At(loc, bits)
Store(bytes, loc, width, v) == Replace(bytes, loc, 0 .. width - 1, Bits(v, width))

WidthOf(type) ==
    CASE type = "SET8" -> 8
      [] type \in {"SET16", "ADD16", "SUB16"} -> 16
      [] type \in {"ADD64", "SUB64"} -> AddrBits
      [] type \in {"32", "64", "SET32", "PLT32", "32_PCREL", "ADD32", "SUB32"} -> WordBits

-----------------------------------------------------------------------------
(***************************************************************************)
(* The immediates of the instruction formats.                              *)
(***************************************************************************)
write_itype(bytes, loc, v) == Replace(bytes, loc, 20 .. 31, EPOI(v, 11, 0, 20))

write_stype(bytes, loc, v) ==
    Replace(bytes, loc, (7 .. 11) \union (25 .. 31), EPOI(v, 11, 5, 25) \union EPOI(v, 4, 0, 7))

\* A mistake: bits 11 and 12 change places.
write_btypeSwapped(bytes, loc, v) ==
    Replace(bytes, loc, (7 .. 11) \union (25 .. 31),
            EPOI(v, 11, 11, 31) \union EPOI(v, 10, 5, 25) \union EPOI(v, 4, 1, 8)
            \union EPOI(v, 12, 12, 7))

write_btype(bytes, loc, v) ==
    Replace(bytes, loc, (7 .. 11) \union (25 .. 31),
            EPOI(v, 12, 12, 31) \union EPOI(v, 10, 5, 25) \union EPOI(v, 4, 1, 8)
            \union EPOI(v, 11, 11, 7))

\* A mistake: the sign of the low part is not compensated for.
write_utypePlain(bytes, loc, v) ==
    Replace(bytes, loc, 12 .. WordBits - 1, EPOI(v, WordBits - 1, 12, 12))

write_utype(bytes, loc, v) ==
    Replace(bytes, loc, 12 .. WordBits - 1, EPOI(v + 2 ^ 11, WordBits - 1, 12, 12))

\* A mistake: rd is cleared as well.
write_jtypeNoRd(bytes, loc, v) ==
    Replace(bytes, loc, 7 .. 31, EPOI(v, 20, 20, 31) \union EPOI(v, 10, 1, 21)
                                 \union EPOI(v, 11, 11, 20) \union EPOI(v, 19, 12, 12))

write_jtype(bytes, loc, v) ==
    Replace(bytes, loc, 12 .. 31, EPOI(v, 20, 20, 31) \union EPOI(v, 10, 1, 21)
                                  \union EPOI(v, 11, 11, 20) \union EPOI(v, 19, 12, 12))

write_cbtype(bytes, loc, v) ==
    Replace(bytes, loc, (2 .. 6) \union (10 .. 12),
            EPOI(v, 8, 8, 12) \union EPOI(v, 4, 3, 10) \union EPOI(v, 7, 6, 5)
            \union EPOI(v, 2, 1, 3) \union EPOI(v, 5, 5, 2))

write_cjtype(bytes, loc, v) ==
    Replace(bytes, loc, 2 .. 12,
            EPOI(v, 11, 11, 12) \union EPOI(v, 4, 4, 11) \union EPOI(v, 9, 8, 9)
            \union EPOI(v, 10, 10, 8) \union EPOI(v, 6, 6, 7) \union EPOI(v, 7, 7, 6)
            \union EPOI(v, 3, 1, 3) \union EPOI(v, 5, 5, 2))

\* set_rs1(loc, 0).  The mask has 31 digits: bit 31 is cleared too.
clear_rs1(bytes, loc) == Replace(bytes, loc, (15 .. 19) \union {31}, {})

\* LEB128: as many bytes as there are, one more for every bit 7 that is set.  No
\* more than ten are modelled, what a uint64_t needs.
UlebLength(bytes, loc) == 1 + Min({n \in 0 .. 9 : 8 * (loc + n) + 7 \notin bytes})
Sevens(bytes, loc, n) == {b \in 0 .. 6 : 8 * (loc + n) + b \in bytes}

\* (byte & 0x7f) << shift is an int: what is shifted out of it is lost, and its
\* sign is extended.  Undefined from WordBits on: nothing is left of the byte, or
\* the processor shifts by the remainder.
shifted(bits, shift, wraps) ==
    LET int == {b + (shift % WordBits) : b \in bits} \intersect 0 .. WordBits - 1
    IN  IF shift >= WordBits /\ ~wraps THEN {}
        ELSE int \union (IF WordBits - 1 \in int THEN WordBits .. AddrBits - 1 ELSE {})

read_uleb(bytes, loc, wraps) ==
    SumSet({2 ^ b : b \in UNION {shifted(Sevens(bytes, loc, n), 7 * n, wraps) :
                                n \in 0 .. UlebLength(bytes, loc) - 1}})

\* A uint64_t is shifted: above its bits there are zeros.
Overwrite_uleb(bytes, loc, v) ==
    LET bytesOf == 0 .. UlebLength(bytes, loc) - 1
        top(n) == Min({7 * n + 6, AddrBits - 1})
    IN  (bytes \ UNION {At(loc + n, 0 .. 6) : n \in bytesOf})
        \union UNION {At(loc + n, EPOI(v, top(n), 7 * n, 0)) : n \in bytesOf}

-----------------------------------------------------------------------------
(***************************************************************************)
(* Addresses.                                                              *)
(***************************************************************************)
isec_addr(m) == Base + Stride * (m - 1)

\* Get_global_symbol_addr: of a piece; of a symbol that is in no section; of one
\* that is, by way of Get_input_section_addr.  The address of what has none is
\* asked for (NoAddress) and never used.
GlobalAddr(sym, m) ==
    CASE sym.where \in {DeadPiece, Unplaced, Unbound} -> 0
      [] sym.where = Absolute -> sym.val
      [] sym.where = Here -> isec_addr(m) + sym.val
      [] OTHER -> addr[sym.where] + sym.val

\* A local symbol is taken to be in the section that is being relocated.
get_sym_addr(s, m) ==
    LET sym == Symbols[s] IN
    IF sym.local /\ ~sym.piece THEN isec_addr(m) + sym.val ELSE GlobalAddr(sym, m)

\* get_sym_addr returns one.
HasAddress(s) ==
    LET sym == Symbols[s] IN (sym.local /\ ~sym.piece) \/ sym.where \notin {Unplaced, Unbound}

Absolutely(r, m) == get_sym_addr(r.sym, m) + r.addend           \* S + A
Relatively(r, m) == Absolutely(r, m) - (isec_addr(m) + r.offset)  \* S + A - P

-----------------------------------------------------------------------------
InOrder(rs) == \A n \in 1 .. Len(rs) - 1 : rs[n].offset <= rs[n + 1].offset

Init ==
    /\ shapes \in [Members -> MemberShapes]
    /\ addr \in [Places -> Addresses]
    /\ rels = [m \in Members |-> shapes[m].rels]
    /\ image = [m \in Members |-> {}]
    /\ phase = "sort"
    /\ member = 1
    /\ relIdx = 1

(***************************************************************************)
(* Sort_relocation: std::sort, unless they are in order.  Which of two     *)
(* relocations with the same offset comes first is anybody's guess.        *)
(***************************************************************************)
Sorted(rs) ==
    IF InOrder(rs) THEN {rs}
    ELSE LET orders == {p \in [DOMAIN rs -> DOMAIN rs] :
                          \A i, j \in DOMAIN rs : i # j => p[i] # p[j]}
         IN  {t \in {[n \in DOMAIN rs |-> rs[p[n]]] : p \in orders} : InOrder(t)}

Sort_relocation ==
    /\ phase = "sort"
    /\ \E t \in Sorted(rels[member]) : rels' = [rels EXCEPT ![member] = t]
    /\ IF member = NumMembers THEN phase' = "copy" /\ member' = 1
                              ELSE phase' = phase /\ member' = member + 1
    /\ UNCHANGED <<inputVars, image, relIdx>>

\* The memcpy of Relocate_symbols.
CopyMember ==
    /\ phase = "copy" /\ member <= NumMembers
    /\ image' = [image EXCEPT ![member] = shapes[member].data]
    /\ phase' = "relocate"
    /\ relIdx' = 1
    /\ UNCHANGED <<inputVars, rels, member>>

\* The end of Reloc_alloc, which Reloc_non_alloc calls too.
NextMember ==
    /\ phase = "relocate" /\ relIdx > Len(rels[member])
    /\ phase' = "copy"
    /\ member' = member + 1
    /\ UNCHANGED <<inputVars, rels, image, relIdx>>

RelocateDone ==
    /\ phase = "copy" /\ member > NumMembers
    /\ phase' = "done"
    /\ UNCHANGED <<inputVars, rels, image, member, relIdx>>

-----------------------------------------------------------------------------
(***************************************************************************)
(* Reloc_alloc, one relocation at a time.                                  *)
(***************************************************************************)
NowRelocating == phase = "relocate" /\ relIdx \in DOMAIN rels[member]
This == rels[member][relIdx]

\* The address of the symbol is computed first, whatever the type.
Relocating(types) == NowRelocating /\ This.type \in types /\ HasAddress(This.sym)
S_A == Absolutely(This, member)
S_A_P == Relatively(This, member)

Fail(reason) ==
    /\ phase' = reason
    /\ UNCHANGED <<inputVars, rels, image, member, relIdx>>

Write(bytes) ==
    /\ image' = [image EXCEPT ![member] = bytes]
    /\ relIdx' = relIdx + 1
    /\ UNCHANGED <<inputVars, rels, phase, member>>

SkipRelocation ==
    /\ NowRelocating /\ This.type \in Ignored
    /\ relIdx' = relIdx + 1
    /\ UNCHANGED <<inputVars, rels, image, phase, member>>

\* What is left of the word or the halfword is kept.
written(bytes) ==
    CASE This.type = "BRANCH" -> write_btype(bytes, This.offset, S_A_P)
      [] This.type = "JAL" -> write_jtype(bytes, This.offset, S_A_P)
      [] This.type = "RVC_BRANCH" -> write_cbtype(bytes, This.offset, S_A_P)
      [] This.type = "RVC_JUMP" -> write_cjtype(bytes, This.offset, S_A_P)

\* The distance is checked against -limit and limit.
limit(type) ==
    CASE type = "BRANCH" -> 2 ^ 12
      [] type = "JAL" -> 2 ^ 20
      [] type = "RVC_BRANCH" -> 2 ^ 8
      [] type = "RVC_JUMP" -> 2 ^ 11
      [] type \in {"CALL", "CALL_PLT", "HI20"} -> 2 ^ (WordBits - 1)

check(v, type) == -limit(type) <= Signed(v) /\ Signed(v) < limit(type)
Checked == IF This.type = "HI20" THEN S_A ELSE S_A_P

OutOfRange ==
    /\ Relocating(Branches \union {"CALL", "CALL_PLT", "HI20"})
    /\ ~check(Checked, This.type)
    /\ Fail("out_of_range")

RelocateBranch ==
    /\ Relocating(Branches) /\ check(Checked, This.type)
    /\ Write(written(image[member]))

\* AUIPC and JALR, one behind the other.
RelocateCall ==
    /\ Relocating({"CALL", "CALL_PLT"}) /\ check(Checked, This.type)
    /\ Write(write_itype(write_utype(image[member], This.offset, S_A_P),
                         This.offset + 4, S_A_P))

\* R_RISCV_PCREL_HI20 is not checked.
RelocateHigh ==
    \/ /\ Relocating({"PCREL_HI20"})
       /\ Write(write_utype(image[member], This.offset, S_A_P))
    \/ /\ Relocating({"HI20"}) /\ check(Checked, This.type)
       /\ Write(write_utype(image[member], This.offset, S_A))

\* find_paired_reloc: the label of the low part is where its high part is.  It
\* is looked for backwards, the next one first, or forwards.
is_paired(n) ==
    rels[member][n].type \in High20 /\ rels[member][n].offset = Symbols[This.sym].val

\* A mistake: always backwards.
find_backwards == Max({0} \union {n \in 1 .. relIdx - 1 : is_paired(n)})

find_paired_reloc ==
    IF Symbols[This.sym].val <= This.offset
    THEN Max({0} \union {n \in 1 .. relIdx - 1 : is_paired(n)})
    ELSE LET after == {n \in relIdx + 1 .. Len(rels[member]) : is_paired(n)}
         IN  IF after = {} THEN 0 ELSE Min(after)
Paired == rels[member][find_paired_reloc]

PairMissing ==
    Relocating(PairedLow) /\ find_paired_reloc = 0 /\ Fail("pair_missing")

PairNotSupported ==
    /\ Relocating(PairedLow) /\ find_paired_reloc # 0 /\ HasAddress(Paired.sym)
    /\ Paired.type # "PCREL_HI20"
    /\ Fail("not_supported")

RelocatePairedLow ==
    /\ Relocating(PairedLow) /\ find_paired_reloc # 0 /\ HasAddress(Paired.sym)
    /\ Paired.type = "PCREL_HI20"
    /\ LET val == Relatively(Paired, member) IN
       IF This.type = "PCREL_LO12_I" THEN Write(write_itype(image[member], This.offset, val))
                                     ELSE Write(write_stype(image[member], This.offset, val))

\* The symbols whose addresses are asked for: a low part needs that of its high
\* part, too.
Asked ==
    {This.sym} \union (IF Relocating(PairedLow) /\ find_paired_reloc # 0
                      THEN {Paired.sym} ELSE {})

\* Nothing is bound, or the symbol is in a section that is in no output section:
\* the search for that may also follow the end of osec_pool.  The name of a symbol
\* that is gone is in no map, if it can still be read at all.
NoAddress ==
    /\ NowRelocating /\ This.type \notin Ignored
    /\ \E s \in Asked :
         \/ Symbols[s].where = Unbound /\ Fail("not_bound")
         \/ /\ Symbols[s].where = Unplaced /\ ~HasAddress(s)
            /\ Fail("unreachable") \/ Fail("crashed")
         \/ Symbols[s].gone /\ (Fail("not_found") \/ Fail("crashed"))

\* sign_extend(val, 11) is val
near_zero(v) == Signed(v) \in -(2 ^ 11) .. 2 ^ 11 - 1

RelocateLow ==
    /\ Relocating(AbsoluteLow)
    /\ LET bytes == IF This.type = "LO12_I" THEN write_itype(image[member], This.offset, S_A)
                                            ELSE write_stype(image[member], This.offset, S_A)
       IN  Write(IF near_zero(S_A) THEN clear_rs1(bytes, This.offset) ELSE bytes)

-----------------------------------------------------------------------------
\* Of an address, 32 bits are stored and those above are left alone.
StoreValue ==
    /\ Relocating(Stores)
    /\ Write(Store(image[member], This.offset, WidthOf(This.type),
                   IF This.type \in {"PLT32", "32_PCREL"} THEN S_A_P ELSE S_A))

Stored == Load(image[member], This.offset, WidthOf(This.type))

\* A mistake: the addend is added where the symbol is subtracted.
SubAddendAdded ==
    /\ Relocating({"SUB16", "SUB32", "SUB64"})
    /\ Write(Store(image[member], This.offset, WidthOf(This.type),
                   Stored - S_A + 2 * This.addend))

AddValue ==
    /\ Relocating({"ADD16", "ADD32", "ADD64"})
    /\ Write(Store(image[member], This.offset, WidthOf(This.type), Stored + S_A))

SubValue ==
    /\ Relocating({"SUB16", "SUB32", "SUB64"})
    /\ Write(Store(image[member], This.offset, WidthOf(This.type), Stored - S_A))

\* The pointer is moved and not what it points to: nothing is stored.
MovePointer ==
    /\ Relocating({"ADD8", "SUB8"})
    /\ Write(image[member])

\* The lower six bits of a byte.
StoreSix ==
    \/ Relocating({"SET6"}) /\ Write(Store(image[member], This.offset, 6, S_A))
    \/ /\ Relocating({"SUB6"})
       /\ Write(Store(image[member], This.offset, 6,
                      Load(image[member], This.offset, 8) - S_A))

StoreUleb ==
    \/ /\ Relocating({"SET_ULEB128"})
       /\ Write(Overwrite_uleb(image[member], This.offset, S_A))
    \/ /\ Relocating({"SUB_ULEB128"})
       /\ \E wraps \in BOOLEAN :
            Write(Overwrite_uleb(image[member], This.offset,
                                 read_uleb(image[member], This.offset, wraps) - S_A))

\* assert((padding_bytes & 1) == 0)
OddPadding ==
    Relocating({"ALIGN"}) /\ This.addend % 2 = 1 /\ Fail("odd_padding")

\* The padding is filled with nop, four bytes each, and at most one c.nop; one of
\* negative size is none.
Nop == {0, 1, 4}
CNop == {0}
FillPadding ==
    /\ Relocating({"ALIGN"}) /\ This.addend % 2 = 0
    /\ LET nops == {This.offset + 4 * n : n \in 0 .. (This.addend \div 4) - 1}
           rest == This.offset + 4 * (This.addend \div 4)
           short == IF This.addend > 0 /\ This.addend % 4 # 0 THEN {rest} ELSE {}
       IN  Write((image[member] \ At(This.offset, 0 .. 8 * This.addend - 1))
                 \union (UNION {At(loc, Nop) : loc \in nops})
                 \union (UNION {At(loc, CNop) : loc \in short}))

NotSupported ==
    /\ NowRelocating /\ HasAddress(This.sym)
    /\ This.type \notin Supported
    /\ Fail("not_supported")

Ended == phase \in {"done"} \union Failures
Terminated == Ended /\ UNCHANGED vars

Next ==
    \/ Sort_relocation \/ CopyMember \/ NextMember \/ RelocateDone
    \/ SkipRelocation \/ OutOfRange \/ RelocateBranch \/ RelocateCall \/ RelocateHigh
    \/ NoAddress \/ PairMissing \/ PairNotSupported \/ RelocatePairedLow \/ RelocateLow
    \/ StoreValue \/ AddValue \/ SubValue \/ MovePointer \/ StoreSix \/ StoreUleb
    \/ OddPadding \/ FillPadding \/ NotSupported
    \/ Terminated

Spec == Init /\ [][Next]_vars

-----------------------------------------------------------------------------
(***************************************************************************)
(* The meaning of the result, after the RISC-V instruction formats and the *)
(* definition of the relocation types.  Left out is what the code does not *)
(* get right: a local symbol of another section, and one that is gone;     *)
(* distances at the end of the range, where the low part carries; the      *)
(* upper half of R_RISCV_64; what is subtracted from a LEB128 that an int  *)
(* does not hold; and R_RISCV_ADD8 and SUB8.                               *)
(***************************************************************************)
\* The bits of an instruction from top downwards, by the bits of the immediate.
From(top, immediate) ==
    [b \in top + 1 - Len(immediate) .. top |-> immediate[top + 1 - b]]
TypeU == [b \in 12 .. WordBits - 1 |-> b]
TypeI == From(31, <<11, 10, 9, 8, 7, 6, 5, 4, 3, 2, 1, 0>>)
\* Two fields, one beside the other.
And(f, g) == [b \in DOMAIN f \union DOMAIN g |-> IF b \in DOMAIN f THEN f[b] ELSE g[b]]
TypeS == And(From(31, <<11, 10, 9, 8, 7, 6, 5>>), From(11, <<4, 3, 2, 1, 0>>))
Format(type) ==
    CASE type = "BRANCH" -> And(From(31, <<12, 10, 9, 8, 7, 6, 5>>), From(11, <<4, 3, 2, 1, 11>>))
      [] type = "JAL" -> From(31, <<20, 10, 9, 8, 7, 6, 5, 4, 3, 2, 1, 11,
                                    19, 18, 17, 16, 15, 14, 13, 12>>)
      [] type = "RVC_BRANCH" -> And(From(12, <<8, 4, 3>>), From(6, <<7, 6, 2, 1, 5>>))
      [] type = "RVC_JUMP" -> From(12, <<11, 4, 9, 8, 10, 6, 7, 3, 2, 1, 5>>)
      [] type \in {"PCREL_LO12_I", "LO12_I"} -> TypeI
      [] type \in {"PCREL_LO12_S", "LO12_S"} -> TypeS
      [] type \in {"CALL", "CALL_PLT", "HI20", "PCREL_HI20"} -> TypeU

Immediate(bytes, loc, format) ==
    LET set == {b \in DOMAIN format : 8 * loc + b \in bytes}
        top == Max({format[b] : b \in DOMAIN format})
        v   == SumSet({2 ^ format[b] : b \in set})
    IN  IF v < 2 ^ top THEN v ELSE v - 2 ^ (top + 1)

Target(r, m) == GlobalAddr(Symbols[r.sym], m) + r.addend
Distance(r, m) == Signed(Target(r, m) - (isec_addr(m) + r.offset))
Misplaced(r) ==
    LET sym == Symbols[r.sym]
    IN  sym.gone \/ ~HasAddress(r.sym) \/ (sym.local /\ ~sym.piece /\ sym.where # Here)
InReach(v) == -(2 ^ (WordBits - 1)) <= v /\ v < 2 ^ (WordBits - 1) - 2 ^ 11

Linked(m) == phase = "done" \/ (phase \in {"copy", "relocate"} /\ member > m)
RelsOf(m) == {rels[m][n] : n \in DOMAIN rels[m]}
Upper(r, m) == Immediate(image[m], r.offset, TypeU)
Lower(r, m) == Immediate(image[m], r.offset, Format(r.type))

\* A branch, a jump or a call goes to its symbol.
JumpsReach ==
    \A m \in Members : Linked(m) => \A r \in RelsOf(m) : ~Misplaced(r) =>
        /\ r.type \in Branches => Lower(r, m) = Distance(r, m)
        /\ r.type \in {"CALL", "CALL_PLT"} /\ InReach(Distance(r, m)) =>
             Upper(r, m) + Immediate(image[m], r.offset + 4, TypeI) = Distance(r, m)

\* The high and the low part of an address, in two instructions that may be far
\* apart, add up to it: relative to the instruction with the high part, or
\* absolute.  Only what is near zero is addressed without a register.
HighAndLowMeet ==
    \A m \in Members : Linked(m) => \A low, high \in RelsOf(m) : ~Misplaced(high) =>
        /\ /\ low.type \in PairedLow /\ high.type \in High20
           /\ high.offset = Symbols[low.sym].val
           /\ InReach(Distance(high, m))
           => Upper(high, m) + Lower(low, m) = Distance(high, m)
        /\ /\ low.type \in AbsoluteLow /\ high.type = "HI20"
           /\ low.sym = high.sym /\ low.addend = high.addend
           /\ Signed(Target(low, m)) >= 0 /\ InReach(Signed(Target(low, m)))
           => LET rs1 == At(low.offset, 15 .. 19)
              IN  /\ Upper(high, m) + Lower(low, m) = Signed(Target(low, m))
                  /\ rs1 \intersect image[m] # rs1 \intersect shapes[m].data =>
                       Lower(low, m) = Signed(Target(low, m))

\* What is stored or added, and what may be subtracted from it at the same offset:
\* from a byte, nothing that works.
Minus == [ADD16 |-> "SUB16", ADD32 |-> "SUB32", ADD64 |-> "SUB64", SET6 |-> "SUB6",
          SET16 |-> "SUB16", SET32 |-> "SUB32", SET_ULEB128 |-> "SUB_ULEB128",
          SET8 |-> "none"]
IsUleb(r) == r.type \in {"SET_ULEB128", "SUB_ULEB128"}
Width(r, m) ==
    CASE IsUleb(r) -> 7 * UlebLength(shapes[m].data, r.offset)
      [] r.type = "SET6" -> 6
      [] OTHER -> WidthOf(r.type)
UlebValue(bytes, loc) ==
    SumSet({2 ^ b : b \in {n \in 0 .. 7 * UlebLength(bytes, loc) - 1 :
                             8 * (loc + (n \div 7)) + (n % 7) \in bytes}})
Value(r, m, bytes) ==
    IF IsUleb(r) THEN UlebValue(bytes, r.offset) ELSE Load(bytes, r.offset, Width(r, m))

\* The bits of a value, which is computed as a uint64_t.
ValueBits(r, m) == Min({Width(r, m), AddrBits})

\* read_uleb reads what R_RISCV_SET_ULEB128 has put there: an int holds it.
IsRead(r, m) ==
    IsUleb(r) => Width(r, m) < WordBits \/ Target(r, m) \in 0 .. 2 ^ (WordBits - 1) - 1

\* What the order of relocations at the same offset matters to is in order.
SetFirst(rs) ==
    /\ InOrder(rs)
    /\ \A i, j \in DOMAIN rs : i < j /\ rs[i].offset = rs[j].offset =>
         rs[j].type \notin {"SET6", "SET8", "SET16", "SET32", "SET_ULEB128"}

\* Of an address or a distance that is stored the lower half is right: the upper
\* half of R_RISCV_64 is not written, and nothing is said of it.  What is added to
\* a field or set in it, less what is subtracted there, is the difference of the
\* addresses: for R_RISCV_SET, if the assembler has put it before its R_RISCV_SUB
\* and everything in order, as the sort may change the two.
DataHolds ==
    \A m \in Members : Linked(m) => \A r \in RelsOf(m) :
        LET subtracted == {s \in RelsOf(m) : /\ r.type \in DOMAIN Minus
                                             /\ s.type = Minus[r.type] /\ s.offset = r.offset}
            isAdd == r.type \in {"ADD16", "ADD32", "ADD64"}
            difference == Target(r, m)
                          + (IF isAdd THEN Value(r, m, shapes[m].data) ELSE 0)
                          - SumSet({Target(s, m) : s \in subtracted})
        IN  (\A s \in subtracted \union {r} : ~Misplaced(s)) =>
              /\ /\ r.type \in DOMAIN Minus
                 /\ isAdd \/ SetFirst(shapes[m].rels)
                 /\ subtracted = {} \/ IsRead(r, m)
                 => Value(r, m, image[m]) = difference % 2 ^ ValueBits(r, m)
              /\ r.type \in {"32", "64"} =>
                   Load(image[m], r.offset, WordBits) = Target(r, m) % 2 ^ WordBits
              /\ r.type \in {"PLT32", "32_PCREL"} =>
                   Load(image[m], r.offset, WordBits) = Distance(r, m) % 2 ^ WordBits

\* The bits a relocation is about; R_RISCV_LO12 may clear the register, too.
Own(r, m) ==
    CASE r.type \in Branches \union PairedLow \union {"HI20", "PCREL_HI20"} ->
           At(r.offset, DOMAIN Format(r.type))
      [] r.type \in {"CALL", "CALL_PLT"} ->
           At(r.offset, DOMAIN TypeU) \union At(r.offset + 4, DOMAIN TypeI)
      [] r.type \in AbsoluteLow ->
           At(r.offset, DOMAIN Format(r.type)) \union At(r.offset, 15 .. 19)
      [] IsUleb(r) ->
           {8 * (r.offset + (n \div 7)) + (n % 7) : n \in 0 .. Width(r, m) - 1}
      [] r.type \in {"SET6", "SUB6"} -> At(r.offset, 0 .. 5)
      [] r.type = "ALIGN" -> At(r.offset, 0 .. 8 * r.addend - 1)
      [] r.type \in Stores \union Sums -> At(r.offset, 0 .. WidthOf(r.type) - 1)
      [] OTHER -> {}

\* Everything else of a member is as it is in its file: opcodes, registers, the
\* continuation bits of LEB128, the bytes in between.  What is next to the member
\* is not written to.
OtherBitsKept ==
    \A m \in Members :
        /\ image[m] \subseteq 0 .. 8 * shapes[m].size - 1
        /\ Linked(m) => LET own == UNION {Own(r, m) : r \in RelsOf(m)}
                        IN  image[m] \ own = shapes[m].data \ own

\* What a relocation needs to be applied, apart from the distance.
Linkable(r) ==
    /\ r.type \in Supported
    /\ r.type \in Ignored \/ HasAddress(r.sym)
    /\ r.type = "ALIGN" => r.addend % 2 = 0

\* The linker gives up only if a distance does not fit the instruction, a label
\* has no high part, a type is not known, a padding is odd, or a relocation is by
\* a symbol that is not bound, is in no output section or is gone.  And it does
\* not go past a relocation it cannot apply.
ErrorsAreReal ==
    LET by(where) == \E r \in RelsOf(member) : r.type \notin Ignored /\ Symbols[r.sym].where = where
        byGone == \E r \in RelsOf(member) : r.type \notin Ignored /\ Symbols[r.sym].gone
    IN  /\ phase = "out_of_range" =>
             LET needed == IF This.type = "HI20" THEN Signed(Target(This, member))
                                                 ELSE Distance(This, member)
                 top == IF This.type \in Branches
                        THEN Max({Format(This.type)[b] : b \in DOMAIN Format(This.type)})
                        ELSE WordBits - 1
             IN  Misplaced(This) \/ needed \notin -(2 ^ top) .. 2 ^ top - 1
        /\ phase = "pair_missing" =>
             \A r \in RelsOf(member) : r.type \in High20 => r.offset # Symbols[This.sym].val
        /\ phase = "not_supported" =>
             \E r \in RelsOf(member) : r.type \notin Supported
        /\ phase = "odd_padding" =>
             \E r \in RelsOf(member) : r.type = "ALIGN" /\ r.addend % 2 = 1
        /\ phase = "not_bound" => by(Unbound)
        /\ phase = "unreachable" => by(Unplaced)
        /\ phase = "not_found" => byGone
        /\ phase = "crashed" => by(Unplaced) \/ byGone
        /\ \A m \in Members : Linked(m) => \A r \in RelsOf(m) : Linkable(r)
=============================================================================
