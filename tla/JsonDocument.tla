----------------------------- MODULE JsonDocument -----------------------------
(***************************************************************************)
(* Any sequence of legal calls on one basic_json, the document, with       *)
(* another as the argument.  Handlers and client build their messages and  *)
(* read what was parsed with such calls; an exception of one of them is    *)
(* caught, and the document is used again.                                 *)
(***************************************************************************)
EXTENDS Json

CONSTANTS Samples,   \* what the other value is
          Keys,      \* keys of calls that take one
          Indices,   \* and indices
          Patches,   \* JSON patches: sequences of operations
          MaxNodes   \* bound: values that a document is made of

VARIABLES doc, other, call, error

docVars == <<doc, other, call, error>>

Init == doc = Null /\ other \in Samples /\ call = "basic_json" /\ error = "none"

\* A call that leaves the other value alone.
Does(name, r) ==
    /\ error # "aborts" /\ Nodes(r.value) <= MaxNodes
    /\ doc' = r.value /\ error' = r.error /\ call' = name
    /\ UNCHANGED other

Access ==
    \/ \E k \in Keys : Does("operator[]", Subscript(doc, k))
    \/ \E k \in Keys : Does("operator[]", WriteKey(doc, k, other))
    \/ \E i \in Indices : Does("operator[]", WriteIndex(doc, i, other))
    \/ Does("clear", Done(Clear(doc)))

\* doc is assigned what the call returns.
Read ==
    \/ \E k \in Keys : Does("at", AtKey(doc, k)) \/ Does("value", ValueOr(doc, k, other))
    \/ \E i \in Indices : Does("at", AtIndex(doc, i))
    \/ /\ doc.type \in Structured => Size(doc) > 0
       /\ \E i \in {1, Size(doc)} : Does("front, back", ElementOf(doc, i))

Erase ==
    \/ \E k \in Keys : Does("erase", EraseKey(doc, k))
    \/ \E i \in Indices : Does("erase", EraseIndex(doc, i))
    \/ \E i, j \in Positions(doc) : i <= j /\ Does("erase", EraseRange(doc, i, j))
    \/ \E i \in Positions(doc) : /\ doc.type \in Structured => i <= Len(doc.elems)
                                /\ Does("erase", ErasePos(doc, i))

Extend ==
    \/ Does("push_back", PushBack(doc, other))
    \/ \E k \in Keys : Does("emplace", PushPair(doc, k, other))
    \/ \E k \in Keys : Does("push_back", PushList(doc, <<Value("string", k), other>>))
    \/ \E i \in Positions(doc) : Does("insert", Insert(doc, i, <<other>>))
    \/ \E i \in Positions(doc) : other.type = "array" /\ Does("insert", Insert(doc, i, other.elems))
    \/ Does("insert", InsertFields(doc, other))
    \/ Does("update", Update(doc, other, FALSE))
    \/ Does("update merging", Update(doc, other, TRUE))

Build ==
    \/ \E k \in Keys : Does("basic_json", Done(FromList(<<Array(<<Value("string", k), other>>)>>)))
    \/ Does("basic_json", Done(FromList(<<doc, other>>)))
    \/ \E i, j \in Positions(doc) : i <= j /\ Does("basic_json", FromRange(doc, i, j))

PatchDocument ==
    \/ \E ops \in Patches : Does("patch_inplace", PatchInplace(doc, ops))
    \/ \E ops \in Patches : Does("patch", Patch(doc, ops))
    \/ Does("merge_patch", Done(MergePatch(doc, other)))

\* operator=(other), operator=(std::move(other)), swap(other)
CopyFrom == Does("operator=", Done(other))

MoveFrom ==
    /\ error # "aborts"
    /\ doc' = other /\ other' = Null
    /\ call' = "operator=" /\ error' = "none"

Swap ==
    /\ error # "aborts" /\ doc \in Samples
    /\ doc' = other /\ other' = doc
    /\ call' = "swap" /\ error' = "none"

\* swap(array_t&) and its like, with what other has.
SwapElements ==
    /\ error # "aborts" /\ other.type \in Structured \cup {"string"}
    /\ \/ doc.type = other.type /\ doc \in Samples
          /\ doc' = other /\ other' = doc /\ error' = "none"
       \/ doc.type # other.type /\ error' = "throws" /\ UNCHANGED <<doc, other>>
    /\ call' = "swap"

Next ==
    \/ Access \/ Read \/ Erase \/ Extend \/ Build \/ PatchDocument
    \/ CopyFrom \/ MoveFrom \/ Swap \/ SwapElements

Spec == Init /\ [][Next]_docVars

-----------------------------------------------------------------------------
(* Whatever was called, the type fits what is stored and the keys of every *)
(* object are in order and different, as std::map has them.                *)
TypeOK == WellFormed(doc) /\ WellFormed(other) /\ error \in {"none", "throws", "aborts"}

(* What diff() returns turns the one document into the other.              *)
DiffIsPatch ==
    LET r == PatchInplace(doc, Diff(doc, other, <<>>))
    IN  r.error = "none" /\ Equal(r.value, other)

\* What a merge patch should leave, member by member.
RECURSIVE Merged(_, _)
Merged(v, p) ==
    LET there == {k \in ToSet(v.keys) : ~HasKey(p, k)} \cup {k \in ToSet(p.keys) : Field(p, k) # Null}
        At(k) == CASE ~HasKey(p, k) -> Field(v, k)
                   [] HasKey(p, k) /\ HasKey(v, k) -> Merged(Field(v, k), Field(p, k))
                   [] OTHER -> Merged(Null, Field(p, k))
        keys == SetToSortSeq(there, LAMBDA a, b : a < b)
    IN  IF p.type # "object" THEN p
        ELSE [Empty("object") EXCEPT !.keys = keys, !.elems = [i \in DOMAIN keys |-> At(keys[i])]]

(* merge_patch, which walks the patch and changes the document as it goes, *)
(* leaves what the members of both say, and applying it again changes      *)
(* nothing.                                                                *)
MergeSettles ==
    LET once == MergePatch(doc, other)
    IN  once = Merged(doc, other) /\ MergePatch(once, other) = once

RECURSIVE Fits(_)
Fits(v) ==
    /\ v.type = "number_unsigned" => v.n < 2 ^ (Width - 1)
    /\ \A i \in DOMAIN v.elems : Fits(v.elems[i])

(* As long as unsigned numbers fit the signed type, values are ordered:    *)
(* of < , == and > one holds, and < is transitive.  (A greater one is less *)
(* than the integer 0, and greater than the unsigned 1.)                   *)
OrderIsStrict ==
    Fits(doc) /\ Fits(other) =>
        /\ (Less(doc, other) \/ Less(other, doc)) = ~Equal(doc, other)
        /\ ~(Less(doc, other) /\ Less(other, doc))
        /\ \A v \in Samples : Fits(v) /\ Less(doc, other) /\ Less(other, v) => Less(doc, v)

(* A call that throws changes nothing, but for null, which update() has    *)
(* made an object by then, an update that merges and throws inside, and    *)
(* patch_inplace, which works without a copy.                              *)
FailureKeeps ==
    [][error' = "throws" =>
        \/ doc' = doc
        \/ call' \in {"update", "update merging"} /\ doc = Null /\ doc' = Empty("object")
        \/ call' = "update merging" /\ \E i \in DOMAIN doc.elems : doc.elems[i] # doc'.elems[i]
        \/ call' = "patch_inplace"]_docVars
=============================================================================
