------------------------------ MODULE Variables ------------------------------
(***************************************************************************)
(* How the variables in scripts, properties and uploaded files are         *)
(* replaced (backend/src/variable-resolver.mts).                           *)
(*                                                                         *)
(* A text is the set of what it consists of: words, which stand for where  *)
(* they come from, and mentions of variables.  A name is <<variable>>, or  *)
(* <<list, entry>> for one of the entries that a mention of the list is    *)
(* replaced by.  A scope is [outputs, inputs, defaults], each a function   *)
(* from names to texts.                                                    *)
(***************************************************************************)
EXTENDS Integers, Sequences, FiniteSets

Word(source)  == <<"word", source>>
Mention(name) == <<"mention", name>>

NotDefined == {Word(-1)}

Nothing == [name \in {} |-> {}]

Mentions(text) == {piece \in text : piece[1] = "mention"}

Known(scope) == DOMAIN scope.outputs \cup DOMAIN scope.inputs \cup DOMAIN scope.defaults

\* Outputs come before inputs, and these before defaults.
Lookup(scope, name) ==
    CASE name \in DOMAIN scope.outputs -> scope.outputs[name]
      [] name \in DOMAIN scope.inputs \ DOMAIN scope.outputs -> scope.inputs[name]
      [] OTHER -> scope.defaults[name]

\* resolveListVariable: the entries of a list, wherever they come from.
Entries(scope, name) == {n \in Known(scope) : Len(n) = 2 /\ <<n[1]>> = name}

\* What a mention is replaced by; a list comes before a variable of its name.
Replacement(scope, name, otherwise) ==
    LET entries == Entries(scope, name)
    IN CASE entries # {} -> UNION {Lookup(scope, n) : n \in entries}
         [] entries = {} /\ name \in Known(scope) -> Lookup(scope, name)
         [] OTHER -> otherwise

Pass(scope, text) ==
    (text \ Mentions(text))
        \cup UNION {Replacement(scope, m[2], NotDefined) : m \in Mentions(text)}

\* replaceVars: what the first pass brought in is replaced, too, but not what
\* the second brings.
ReplaceVars(scope, text) ==
    LET once == Pass(scope, text)
    IN IF Mentions(once) = {} THEN once ELSE Pass(scope, once)

PreservingPass(scope, text) ==
    (text \ Mentions(text))
        \cup UNION {Replacement(scope, m[2], {m}) : m \in Mentions(text)}

\* replaceVarsPreserveUnresolved, pass by pass until nothing changes.  Variables
\* that mention each other overflow the stack, and the text stays as it is.
Preserving(scope, text) ==
    LET passes == Cardinality(Known(scope)) + 1
        after[k \in 0 .. passes] ==
            IF k = 0 THEN text ELSE PreservingPass(scope, after[k - 1])
    IN IF PreservingPass(scope, after[passes]) = after[passes] THEN after[passes] ELSE text

InPlace(scope, values, files) ==
    [n \in DOMAIN values |->
        IF n \in files THEN Preserving(scope, values[n]) ELSE values[n]]

\* resolveBase64Inputs: in the uploaded files, what is known is replaced for good.
ResolveBase64Inputs(scope, files) ==
    LET one == [scope EXCEPT !.inputs  = InPlace(scope, @, files)]
        two == [one   EXCEPT !.outputs = InPlace(one, @, files)]
    IN [two EXCEPT !.defaults = InPlace(two, @, files)]

\* processPropertyEntry: a property that nobody defined is not set.
SetProperties(scope, properties) ==
    LET value == [n \in DOMAIN properties |-> ReplaceVars(scope, properties[n])]
        set   == {n \in DOMAIN properties : value[n] # NotDefined}
    IN [n \in DOMAIN scope.outputs \cup set |->
            IF n \in set THEN value[n] ELSE scope.outputs[n]]
=============================================================================
