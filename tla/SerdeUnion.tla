----------------------------- MODULE SerdeUnion -----------------------------
(***************************************************************************)
(* Byte serialisation of kvm-bindings structures that contain a union      *)
(* whose members differ in size, such as kvm_irq_routing_entry, whose      *)
(* union kvm_irq_routing_entry__bindgen_ty_1 has members of 8 to 32 bytes  *)
(* (src/kvm-bindings/src/arm64/serialize.rs).                               *)
(*                                                                         *)
(* serde_impls! gives each listed structure a Serialize that emits         *)
(* as_bytes(), the whole byte span of the value, and a Deserialize that    *)
(* rejects input of the wrong length and transmutes the bytes back.  The   *)
(* union gets its IntoBytes from the hand-written `unsafe impl` in         *)
(* serialize.rs, which lets as_bytes read the union's full extent.  (The   *)
(* macro's body is not among the sources; it is modelled from the spec,    *)
(* section 4.4.)                                                           *)
(*                                                                         *)
(* A value is its bytes.  A byte is a Byte or Undef: in Rust a union built *)
(* from one member, `U { small: .. }`, leaves the bytes past that member   *)
(* uninitialised.  Reading an Undef byte is undefined behaviour; the build *)
(* can give any byte for it, which is what Serialize does here.            *)
(*                                                                         *)
(* Layout, scaled down: HeaderLen bytes of plain fields, then the union,   *)
(* whose members are MemberLen[m] bytes long, the largest of them          *)
(* filling it.                                                             *)
(***************************************************************************)
EXTENDS Naturals, Sequences

CONSTANTS
    Bytes,      \* the byte values
    Undef,      \* model value: an uninitialised byte
    HeaderLen,  \* bytes before the union (gsi, type_, flags, pad)
    MemberLen   \* MemberLen[m]: size of union member m

UnionLen == CHOOSE n \in {MemberLen[m] : m \in DOMAIN MemberLen} :
                \A m \in DOMAIN MemberLen : MemberLen[m] <= n
Size     == HeaderLen + UnionLen       \* std::mem::size_of of the structure

ASSUME 0 \in Bytes /\ Undef \notin Bytes /\ HeaderLen >= 1

VARIABLES
    value,      \* the bytes of the program's value of the structure
    snap,       \* the bytes the last Serialize emitted
    fresh       \* no write to `value` since that Serialize

vars == <<value, snap, fresh>>

\* The byte strings of length n.
Strings(n) == [1..n -> Bytes]

\* T::default(): bindgen's Default zero-fills the whole structure, union
\* included.
Default == [i \in 1..Size |-> 0]

\* All concrete byte strings an as_bytes() read of v can give: each Undef
\* byte may read as any byte.
Reads(v) == {s \in Strings(Len(v)) :
                \A i \in 1..Len(v) : v[i] # Undef => s[i] = v[i]}

\* Overwrites the union's first MemberLen[m] bytes with bs (`e.u.m = ..`).
WriteUnion(v, m, bs) ==
    [i \in 1..Size |-> IF i > HeaderLen /\ i <= HeaderLen + MemberLen[m]
                       THEN bs[i - HeaderLen] ELSE v[i]]

\* Mutant: the length check accepts input at least Size bytes long.
DecodeAtLeast(bs) == IF Len(bs) >= Size THEN {bs} ELSE {}

\* Deserialize: the byte count must equal the structure's size, then the
\* bytes are the value.
Decode(bs) == IF Len(bs) = Size THEN {bs} ELSE {}

\* let e = T::default();
MakeDefault ==
    /\ value' = Default
    /\ fresh' = FALSE
    /\ UNCHANGED snap

\* e.gsi = ..; e.type_ = ..: assigning the plain fields before the union.
AssignHeader(hdr) ==
    /\ value' = hdr \o SubSeq(value, HeaderLen + 1, Size)
    /\ fresh' = FALSE
    /\ UNCHANGED snap

\* e.u.m = ...: assigning a union member writes that member's bytes only.
AssignMember(m, bs) ==
    /\ value' = WriteUnion(value, m, bs)
    /\ fresh' = FALSE
    /\ UNCHANGED snap

\* T { .., u: U { m: .. } }: a literal that builds the union from member m.
BuildFromMember(hdr, m, bs) ==
    /\ value' = hdr \o [i \in 1..UnionLen |->
                           IF i <= MemberLen[m] THEN bs[i] ELSE Undef]
    /\ fresh' = FALSE
    /\ UNCHANGED snap

\* serializer.serialize_bytes(self.as_bytes())
Serialize ==
    /\ snap' \in Reads(value)
    /\ fresh' = TRUE
    /\ UNCHANGED value

\* T::deserialize of a byte string: Err on a wrong length, leaving the
\* program's value as it was.
Deserialize(bs) ==
    /\ Decode(bs) # {}
    /\ value' \in Decode(bs)
    /\ fresh' = FALSE
    /\ UNCHANGED snap

Init ==
    /\ value = Default
    /\ snap  = Default
    /\ fresh = FALSE

\* The program builds values the way the tests and the callers do: from
\* Default, assigning members, serialising and restoring.
Next ==
    \/ MakeDefault
    \/ \E hdr \in Strings(HeaderLen) : AssignHeader(hdr)
    \/ \E m \in DOMAIN MemberLen, bs \in Strings(UnionLen) : AssignMember(m, bs)
    \/ Serialize
    \/ \E bs \in UNION {Strings(n) : n \in Size - 1..Size + 1} : Deserialize(bs)
    \/ Deserialize(snap)

Spec == Init /\ [][Next]_vars

\* Callers that also build unions with member literals.
LiteralNext ==
    \/ Next
    \/ \E hdr \in Strings(HeaderLen), m \in DOMAIN MemberLen,
          bs \in Strings(UnionLen) : BuildFromMember(hdr, m, bs)

LiteralSpec == Init /\ [][LiteralNext]_vars

-----------------------------------------------------------------------------
TypeOK ==
    /\ value \in [1..Size -> Bytes \cup {Undef}]
    /\ snap \in Strings(Size)
    /\ fresh \in BOOLEAN

\* A snapshot taken of a value that has not been written since stands for
\* it byte for byte: restoring it gives back exactly that value, and every
\* serialisation of that value gives the same bytes (spec 4.4 and 8; the
\* SAFETY comment on the unsafe IntoBytes impls for the unions).
SnapshotFaithful == fresh => snap = value
=============================================================================
