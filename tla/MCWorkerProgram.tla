-------------------------- MODULE MCWorkerProgram --------------------------
(***************************************************************************)
(* Instances of WorkerProgram for TLC: pages, and functions of every shape. *)
(***************************************************************************)
EXTENDS WorkerProgram

OwnJs == [type |-> "js", build |-> "own"]
OwnWasm == [type |-> "wasm", build |-> "own"]
SimilarJs == [type |-> "js", build |-> "similar"]
SimilarWasm == [type |-> "wasm", build |-> "similar"]
OtherJs == [type |-> "js", build |-> "other"]
OtherWasm == [type |-> "wasm", build |-> "other"]

\* No links, its own, one missing, and those of other builds before and around them.
MCHeads == {<<>>, <<OwnJs, OwnWasm>>, <<OtherJs, OwnWasm>>,
            <<OtherWasm, OwnJs, OwnWasm>>, <<OtherJs, SimilarWasm, OwnJs, OwnWasm>>,
            <<SimilarJs, SimilarWasm, OwnJs, OwnWasm>>}

-----------------------------------------------------------------------------
In(pat, T) == [pat |-> pat, type |-> T]

Fun(inputs, output) ==
    [item |-> "fn", args |-> "ident", qualifiers |-> {}, inputs |-> inputs,
     output |-> output]

Lib(name) == <<name, ":", ":">>

\* Receiver<..> and Sender<..>, by the paths the macro knows and by another.
Handles(name) ==
    {Written(name, p \o <<name, "<">>, c, <<">">>) :
        p \in {<<>>, Lib("leptos_workers"), Lib("flume")}, c \in Content}
    \union {Written("plain", Lib("other") \o <<name, "<">>, c, <<">">>) : c \in Type}

Fns ==
    {WrittenFn("Fn", c, <<>>) : c \in Content}
    \union {WrittenFn("impl", "name", after) :
               after \in {<<"+", "'", "static">>, <<"-", ">", "(", "A", ")">>}}

StreamOf(form, path, c, after) ==
    Written(form, <<"impl">> \o path \o <<"Stream", "<", "Item", "=">>, c, <<">">> \o after)

Streams ==
    {StreamOf("Stream", p, c, <<>>) : c \in Content,
        p \in {<<>>, Lib("leptos_workers"), Lib("futures") \o Lib("stream")}}
    \union {StreamOf("impl", Lib("other"), "name", <<>>)}
    \union {StreamOf("impl", <<>>, "name", after) :
               after \in {<<"+", "Send">>, <<"+", "Other", "<", "A", ">">>}}

Plains == {Plain(c) : c \in Type}

Typicals ==
    {Fun(<<In("ident", Plain("name"))>>, <<Plain("tuple")>>),
     Fun(<<In("mut", Plain("path"))>>, <<StreamOf("Stream", <<>>, "generic", <<>>)>>),
     Fun(<<In("ident", Plain("tuple")), In("ident", WrittenFn("Fn", "path", <<>>))>>, <<>>),
     Fun(<<In("ident", Written("Receiver", <<"Receiver", "<">>, "name", <<">">>)),
           In("ident", Written("Sender", <<"Sender", "<">>, "generic", <<">">>))>>, <<>>)}

Pats == {"ident", "mut", "pattern"}

MCSources ==
    Typicals
    \union {Fun(<<In(pat, Plain("name"))>>, output) :
               pat \in Pats \union {"self"}, output \in {<<>>}}
    \union {Fun(<<In(pat, Plain("tuple"))>>, <<T>>) :
               pat \in Pats \union {"self"}, T \in Plains \union Streams \union Fns}
    \union {Fun(<<In(p1, T), In(p2, U)>>, <<>>) :
               p1 \in Pats, p2 \in Pats, T \in {Plain("path")}, U \in Fns \union Plains}
    \union {Fun(<<In("ident", T), In("ident", U)>>, <<>>) :
               T \in Handles("Receiver"), U \in Handles("Sender") \union Fns}
    \union {Fun(<<In("ident", U), In("ident", T)>>, <<>>) :
               T \in Handles("Receiver"), U \in Handles("Sender")}
    \union {Fun(<<In(pat, Plain("tuple")), In("ident", T), In("pattern", U)>>, <<>>) :
               pat \in Pats, T \in Handles("Receiver"), U \in Handles("Sender") \union Fns}
    \union {Fun([i \in 1..n |-> In("ident", Plain("name"))], <<Plain("name")>>) :
               n \in {0, 3, 4}}
    \union {[f EXCEPT !.output = <<Plain("name")>>] : f \in Typicals}
    \union {[f EXCEPT !.item = item, !.args = args, !.qualifiers = q] :
               f \in Typicals, item \in {"fn", "struct"}, args \in {"none", "ident", "number"},
               q \in {{}, {"unsafe"}, {"extern"}, {"generics"}, {"variadic"}}}

\* The functions are such as the theorems about the macro ask for.
Types ==
    UNION {{f.inputs[i].type : i \in DOMAIN f.inputs}
           \union {f.output[i] : i \in DOMAIN f.output} : f \in MCSources}

ASSUME TypesAssumption == \A T \in Types : Known(T)
ASSUME SourcesAssumption == \A f \in MCSources : Signature(f, Types)
=============================================================================
