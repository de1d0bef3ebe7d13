--------------------------------- MODULE Json ---------------------------------
(***************************************************************************)
(* Values of nlohmann::basic_json (src/thirdparty/json.hpp) and the calls  *)
(* that change or compare them.  Requests, responses, and the rows of a    *)
(* login response are such values.                                         *)
(*                                                                         *)
(* A value is its m_type and its m_value: a number (0 and 1 for a boolean, *)
(* the number of a string), or elements, and for an object their keys.     *)
(* Strings are numbers in the order of std::string: Blank is "", Dash is   *)
(* "-", the numbers from 0 to 9 are "0" to "9", the greater ones are words *)
(* of two letters or more.  Not modelled: floats, binary and discarded     *)
(* values, and which exception is thrown.                                  *)
(***************************************************************************)
EXTENDS Integers, Sequences, SequencesExt

CONSTANT Width      \* bits of number_integer_t and number_unsigned_t

ASSUME JsonAssumption == Width \in Nat \ {0}

Dash == -1

Blank == -2

IsIndex(token) == token \in 0..9

Structured == {"object", "array"}

Wholes == {"number_integer", "number_unsigned"}

Value(type, n) == [type |-> type, n |-> n, keys |-> <<>>, elems |-> <<>>]

\* json_value(value_t)
Empty(type) == Value(type, IF type = "string" THEN Blank ELSE 0)

Null == Empty("null")

Array(s) == [Empty("array") EXCEPT !.elems = s]

\* What a call leaves, and how it ended.
Done(v) == [value |-> v, error |-> "none"]

Throw(v) == [value |-> v, error |-> "throws"]

-----------------------------------------------------------------------------
(* object_t is a std::map: its keys are in order and each is there once.   *)

HasKey(v, k) == v.type = "object" /\ \E i \in DOMAIN v.keys : v.keys[i] = k

IndexOf(v, k) == CHOOSE i \in DOMAIN v.keys : v.keys[i] = k

Field(v, k) == v.elems[IndexOf(v, k)]

\* Where a new key goes.
Place(v, k) == Len(SelectSeq(v.keys, LAMBDA key : key < k)) + 1

\* object->operator[](k) = w
Put(v, k, w) ==
    IF HasKey(v, k) THEN [v EXCEPT !.elems[IndexOf(v, k)] = w]
    ELSE [v EXCEPT !.keys = InsertAt(@, Place(v, k), k), !.elems = InsertAt(@, Place(v, k), w)]

\* object->insert and emplace leave what is there alone.
PutNew(v, k, w) == IF HasKey(v, k) THEN v ELSE Put(v, k, w)

\* object->erase
Drop(v, k) ==
    IF ~HasKey(v, k) THEN v
    ELSE [v EXCEPT !.keys = RemoveAt(@, IndexOf(v, k)), !.elems = RemoveAt(@, IndexOf(v, k))]

\* The positions from i up to, and without, j.
Span(i, j) == [h \in 1..(j - i) |-> i + h - 1]

\* What v has at the positions s.
Only(v, s) ==
    [v EXCEPT !.elems = [h \in DOMAIN s |-> v.elems[s[h]]],
              !.keys = IF v.type = "object" THEN [h \in DOMAIN s |-> v.keys[s[h]]] ELSE <<>>]

\* Mutant of Implicit: the container is used before the type says so.
Implicit_TypeLost(v, type) == v

\* Null becomes an empty value of the type.
Implicit(v, type) == IF v = Null THEN Empty(type) ELSE v

\* assert_invariant, and what std::map promises of the keys.
RECURSIVE WellFormed(_)
WellFormed(v) ==
    /\ v.type \in Structured \/ v.elems = <<>>
    /\ v.type \in {"null", "array", "object"} => v.n = 0
    /\ v.type = "boolean" => v.n \in 0..1
    /\ v.type = "number_unsigned" => v.n \in 0..(2 ^ Width - 1)
    /\ v.type = "number_integer" => v.n \in -(2 ^ (Width - 1))..(2 ^ (Width - 1) - 1)
    /\ Len(v.keys) = IF v.type = "object" THEN Len(v.elems) ELSE 0
    /\ \A i \in 2..Len(v.keys) : v.keys[i - 1] < v.keys[i]
    /\ \A i \in DOMAIN v.elems : WellFormed(v.elems[i])

RECURSIVE Nodes(_)
Nodes(v) == FoldLeft(LAMBDA sum, w : sum + Nodes(w), 1, v.elems)

-----------------------------------------------------------------------------
(* Constructors. *)

IsPair(v) == v.type = "array" /\ Len(v.elems) = 2 /\ v.elems[1].type = "string"

\* basic_json(initializer_list): all pairs with a string first make an object.
FromList(init) ==
    IF \A i \in DOMAIN init : IsPair(init[i])
    THEN FoldLeft(LAMBDA v, pair : PutNew(v, pair.elems[1].n, pair.elems[2]), Empty("object"), init)
    ELSE Array(init)

\* basic_json(first, last) with iterators of v before its elements i and j.
FromRange(v, i, j) ==
    CASE v.type = "null" -> Throw(v)
      [] v.type \in Structured ->
            Done(Only(v, Span(i, j)))
      [] OTHER -> IF i = 1 /\ j = 2 THEN Done(v) ELSE Throw(v)

\* Iterators of a value that is no container: begin is 1, end is 2.
Positions(v) ==
    CASE v.type \in Structured -> 1..(Len(v.elems) + 1) [] v = Null -> {1} [] OTHER -> {1, 2}

-----------------------------------------------------------------------------
(* Element access and modifiers. *)

\* operator[](key), not const: the key is there afterwards.
Subscript(v, k) ==
    IF v.type \in {"null", "object"} THEN Done(PutNew(Implicit(v, "object"), k, Null)) ELSE Throw(v)

\* operator[](key) = w
WriteKey(v, k, w) ==
    LET r == Subscript(v, k)
    IN  IF r.error = "none" THEN Done(Put(r.value, k, w)) ELSE r

\* operator[](idx) = w, counted from 0: fills up with null.
WriteIndex(v, idx, w) ==
    IF v.type \notin {"null", "array"} THEN Throw(v)
    ELSE Done(Array([i \in 1..(IF idx < Len(v.elems) THEN Len(v.elems) ELSE idx + 1) |->
                        CASE i = idx + 1 -> w [] i <= Len(v.elems) -> v.elems[i] [] OTHER -> Null]))

\* at(key) and at(idx)
AtKey(v, k) == IF HasKey(v, k) THEN Done(Field(v, k)) ELSE Throw(v)

AtIndex(v, idx) ==
    IF v.type = "array" /\ idx < Len(v.elems) THEN Done(v.elems[idx + 1]) ELSE Throw(v)

\* value(key, w)
ValueOr(v, k, w) ==
    IF v.type = "object" THEN Done(IF HasKey(v, k) THEN Field(v, k) ELSE w) ELSE Throw(v)

\* size()
Size(v) == CASE v.type \in Structured -> Len(v.elems) [] v = Null -> 0 [] OTHER -> 1

\* front(), back(): *begin(), *--end(), of a container that is not empty.
ElementOf(v, i) ==
    CASE v.type \in Structured -> Done(v.elems[i]) [] v = Null -> Throw(v) [] OTHER -> Done(v)

\* erase(key); erase(idx); erase(pos); erase(first, last)
EraseKey(v, k) == IF v.type = "object" THEN Done(Drop(v, k)) ELSE Throw(v)

EraseIndex(v, idx) ==
    IF v.type = "array" /\ idx < Len(v.elems) THEN Done([v EXCEPT !.elems = RemoveAt(@, idx + 1)])
    ELSE Throw(v)

EraseRange(v, i, j) ==
    CASE v.type = "null" -> Throw(v)
      [] v.type \in Structured -> Done(Only(v, Span(1, i) \o Span(j, Len(v.elems) + 1)))
      [] OTHER -> IF i = 1 /\ j = 2 THEN Done(Null) ELSE Throw(v)

ErasePos(v, i) ==
    CASE v.type = "null" -> Throw(v)
      [] v.type \in Structured -> EraseRange(v, i, i + 1)
      [] OTHER -> IF i = 1 THEN Done(Null) ELSE Throw(v)

Clear(v) == Empty(v.type)

\* push_back(val), emplace_back(val)
PushBack(v, w) ==
    IF v.type \in {"null", "array"} THEN Done([Implicit(v, "array") EXCEPT !.elems = Append(@, w)])
    ELSE Throw(v)

\* push_back({k, val}) with a pair of the map, emplace(k, val)
PushPair(v, k, w) ==
    IF v.type \in {"null", "object"} THEN Done(PutNew(Implicit(v, "object"), k, w)) ELSE Throw(v)

\* push_back(initializer_list)
PushList(v, init) ==
    IF v.type = "object" /\ Len(init) = 2 /\ init[1].type = "string"
    THEN PushPair(v, init[1].n, init[2])
    ELSE PushBack(v, FromList(init))

\* insert(pos, ...) of several elements before element i
Insert(v, i, s) ==
    IF v.type = "array"
    THEN Done([v EXCEPT !.elems = SubSeq(@, 1, i - 1) \o s \o SubSeq(@, i, Len(@))])
    ELSE Throw(v)

\* insert(first, last) with all of an object j
InsertFields(v, j) ==
    IF v.type = "object" /\ j.type = "object"
    THEN Done(FoldLeft(LAMBDA u, k : PutNew(u, k, Field(j, k)), v, j.keys))
    ELSE Throw(v)

(***************************************************************************)
(* update(j, merge_objects).  What stands under a key is an object when    *)
(* both are; an exception in a nested update leaves the keys before it.    *)
(***************************************************************************)
RECURSIVE Update(_, _, _)
Update(v, j, merge) ==
    LET u == Implicit(v, "object")
        Step(r, k) ==
            IF r.error # "none" THEN r
            ELSE IF ~(merge /\ Field(j, k).type = "object" /\ HasKey(r.value, k))
            THEN Done(Put(r.value, k, Field(j, k)))
            ELSE LET inner == Update(Field(r.value, k), Field(j, k), TRUE)
                 IN  [inner EXCEPT !.value = Put(r.value, k, @)]
    IN  IF u.type # "object" \/ j.type # "object" THEN Throw(u)
        ELSE FoldLeft(Step, Done(u), j.keys)

-----------------------------------------------------------------------------
(* JSON_IMPLEMENT_OPERATOR, with == and <. *)

\* Mutant of Mixed: one of the two cases is missing.
Mixed_OneWay(a, b) == a.type = "number_unsigned" /\ b.type = "number_integer"

\* An integer and an unsigned number are compared as integers.
Mixed(a, b) == {a.type, b.type} = Wholes

\* static_cast<number_integer_t>
Signed(v) ==
    IF v.type = "number_unsigned" /\ v.n >= 2 ^ (Width - 1) THEN v.n - 2 ^ Width ELSE v.n

RECURSIVE Equal(_, _)
Equal(a, b) ==
    \/ /\ a.type = b.type
       /\ a.n = b.n /\ a.keys = b.keys /\ Len(a.elems) = Len(b.elems)
       /\ \A i \in DOMAIN a.elems : Equal(a.elems[i], b.elems[i])
    \/ a.type # b.type /\ Mixed(a, b) /\ Signed(a) = Signed(b)

\* The order of value_t.
Rank(type) ==
    CASE type = "null" -> 0 [] type = "boolean" -> 1 [] type \in Wholes -> 2
      [] type = "object" -> 3 [] type = "array" -> 4 [] type = "string" -> 5

\* s ends where t goes on.
Shorter(s, t, i) == i = Len(s) + 1 /\ i <= Len(t)

RECURSIVE Less(_, _)
Less(a, b) ==
    LET SameAt(i) == /\ a.type = "object" => a.keys[i] = b.keys[i]
                     /\ ~Less(a.elems[i], b.elems[i]) /\ ~Less(b.elems[i], a.elems[i])
        LessAt(i) == \/ a.type = "object" /\ a.keys[i] < b.keys[i]
                     \/ (a.type = "object" => a.keys[i] = b.keys[i]) /\ Less(a.elems[i], b.elems[i])
    IN  IF a.type = b.type /\ a.type \in Structured
        THEN \E i \in 1..(Len(a.elems) + 1) :
                 /\ \A h \in 1..(i - 1) : h <= Len(b.elems) /\ SameAt(h)
                 /\ \/ Shorter(a.elems, b.elems, i)
                    \/ i <= Len(a.elems) /\ i <= Len(b.elems) /\ LessAt(i)
        ELSE IF a.type = b.type THEN a.n < b.n
        ELSE IF Mixed(a, b) THEN Signed(a) < Signed(b)
        ELSE Rank(a.type) < Rank(b.type)

-----------------------------------------------------------------------------
(* json_pointer, a sequence of tokens.  Its header is not in the           *)
(* repository: get_checked as patch_inplace uses it.                       *)

RECURSIVE Resolve(_, _)
Resolve(v, ptr) ==
    IF ptr = <<>> THEN Done(v)
    ELSE LET r == CASE v.type = "object" -> AtKey(v, ptr[1])
                    [] v.type = "array" /\ IsIndex(ptr[1]) -> AtIndex(v, ptr[1])
                    [] OTHER -> Throw(v)
         IN  IF r.error = "none" THEN Resolve(r.value, Tail(ptr)) ELSE r

\* v with w written through the reference that Resolve returns.
RECURSIVE Through(_, _, _)
Through(v, ptr, w) ==
    IF ptr = <<>> THEN w
    ELSE IF v.type = "object" THEN Put(v, ptr[1], Through(Field(v, ptr[1]), Tail(ptr), w))
    ELSE [v EXCEPT !.elems[ptr[1] + 1] = Through(@, Tail(ptr), w)]

\* A call on the value ptr refers to, when there is one.
AtPointer(v, ptr, Call(_)) ==
    IF Resolve(v, ptr).error # "none" THEN Throw(v)
    ELSE LET r == Call(Resolve(v, ptr).value)
         IN  [r EXCEPT !.value = Through(v, ptr, @)]

-----------------------------------------------------------------------------
(* JSON patch.  An operation has the members op, path, from and value, of  *)
(* which any may be missing.                                               *)

\* operation_add.  A parent that is no container runs into JSON_ASSERT(false).
OperationAdd(v, ptr, w) ==
    LET token == Last(ptr)
        AddTo(parent) ==
            CASE parent.type \in {"null", "object"} -> WriteKey(parent, token, w)
              [] parent.type = "array" ->
                    IF token = Dash THEN PushBack(parent, w)
                    ELSE IF IsIndex(token) /\ token <= Len(parent.elems)
                    THEN Insert(parent, token + 1, <<w>>) ELSE Throw(parent)
              [] OTHER -> [value |-> parent, error |-> "aborts"]
    IN  IF ptr = <<>> THEN Done(w) ELSE AtPointer(v, Front(ptr), AddTo)

\* operation_remove.  Under a parent that is no container there is nothing to do.
OperationRemove(v, ptr) ==
    LET token == Last(ptr)
        RemoveFrom(parent) ==
            CASE parent.type = "object" ->
                    IF HasKey(parent, token) THEN EraseKey(parent, token) ELSE Throw(parent)
              [] parent.type = "array" ->
                    IF IsIndex(token) THEN EraseIndex(parent, token) ELSE Throw(parent)
              [] OTHER -> Done(parent)
    IN  IF ptr = <<>> THEN Throw(v) ELSE AtPointer(v, Front(ptr), RemoveFrom)

\* "move": remove, then add; the removal stays when the add throws.
Moved(v, from, ptr) ==
    LET r == OperationRemove(v, from)
    IN  IF r.error = "none" THEN OperationAdd(r.value, ptr, Resolve(v, from).value) ELSE r

Members(op) ==
    CASE op \in {"add", "replace", "test"} -> {"value"} [] op \in {"move", "copy"} -> {"from"}
      [] OTHER -> {}

\* The switch of patch_inplace, with get_value.
Operate(v, o) ==
    IF ~({"op", "path"} \subseteq DOMAIN o) THEN Throw(v)
    ELSE IF ~(Members(o.op) \subseteq DOMAIN o) THEN Throw(v)
    ELSE CASE o.op = "add" -> OperationAdd(v, o.path, o.value)
           [] o.op = "remove" -> OperationRemove(v, o.path)
           [] o.op = "replace" -> AtPointer(v, o.path, LAMBDA old : Done(o.value))
           [] o.op = "move" -> IF Resolve(v, o.from).error = "none"
                               THEN Moved(v, o.from, o.path) ELSE Throw(v)
           [] o.op = "copy" -> IF Resolve(v, o.from).error = "none"
                               THEN OperationAdd(v, o.path, Resolve(v, o.from).value) ELSE Throw(v)
           [] o.op = "test" -> IF /\ Resolve(v, o.path).error = "none"
                                  /\ Equal(Resolve(v, o.path).value, o.value)
                               THEN Done(v) ELSE Throw(v)
           [] OTHER -> Throw(v)

\* patch_inplace: an exception leaves what the operations before it did.
PatchInplace(v, ops) ==
    FoldLeft(LAMBDA r, o : IF r.error = "none" THEN Operate(r.value, o) ELSE r, Done(v), ops)

\* Mutant of Patch: the document itself is patched, not a copy.
Patch_Inplace(v, ops) == PatchInplace(v, ops)

\* v = v.patch(ops), which works on a copy.
Patch(v, ops) ==
    LET r == PatchInplace(v, ops)
    IN  IF r.error = "throws" THEN Throw(v) ELSE r

Op(op, path) == [op |-> op, path |-> path]

OpWith(op, path, w) == [op |-> op, path |-> path, value |-> w]

\* Mutant of Surplus: the elements that are too many are removed from the front.
Surplus_Forward(m, n) == IF m > n THEN [h \in 1..(m - n) |-> n + h - 1] ELSE <<>>

\* The indices, from 0, of m elements that n do not need: the last one first.
Surplus(m, n) == IF m > n THEN [h \in 1..(m - n) |-> m - h] ELSE <<>>

RECURSIVE Diff(_, _, _)
Diff(a, b, path) ==
    LET m == Len(a.elems)
        n == Len(b.elems)
        Rest == SubSeq(b.elems, m + 1, n)
        Common(i) == Diff(a.elems[i], b.elems[i], Append(path, i - 1))
        KeyDiff(k) == IF HasKey(b, k) THEN Diff(Field(a, k), Field(b, k), Append(path, k))
                      ELSE <<Op("remove", Append(path, k))>>
        New == SelectSeq(b.keys, LAMBDA k : ~HasKey(a, k))
    IN  IF Equal(a, b) THEN <<>>
        ELSE IF a.type # b.type \/ a.type \notin Structured THEN <<OpWith("replace", path, b)>>
        ELSE IF a.type = "array"
        THEN FlattenSeq([i \in 1..(IF m < n THEN m ELSE n) |-> Common(i)])
             \o [h \in DOMAIN Surplus(m, n) |-> Op("remove", Append(path, Surplus(m, n)[h]))]
             \o [h \in DOMAIN Rest |-> OpWith("add", Append(path, Dash), Rest[h])]
        ELSE FlattenSeq([i \in 1..m |-> KeyDiff(a.keys[i])])
             \o [i \in 1..Len(New) |-> OpWith("add", Append(path, New[i]), Field(b, New[i]))]

\* Mutant of Target: what was there is not merged into.
Target_New(v, k) == Null

\* What operator[](k) refers to, null when the key is new.
Target(v, k) == Field(Subscript(v, k).value, k)

RECURSIVE MergePatch(_, _)
MergePatch(v, p) ==
    LET Step(u, k) == IF Field(p, k) = Null THEN Drop(u, k)
                      ELSE Put(u, k, MergePatch(Target(u, k), Field(p, k)))
    IN  IF p.type # "object" THEN p
        ELSE FoldLeft(Step, IF v.type = "object" THEN v ELSE Empty("object"), p.keys)
=============================================================================
