---------------------------- MODULE WorkerMacro ----------------------------
(***************************************************************************)
(* The attribute #[worker] (leptos_workers_macro): parse, analyze, lower.   *)
(* It tells the four flavours of workers apart by the text of the tokens of *)
(* the types in the signature, and takes the request and response types out *)
(* of them.                                                                 *)
(*                                                                          *)
(* A type is [form, of, tokens]: what it is in the documentation, what it   *)
(* is about, and what tokenize makes of it, one string per token, with the  *)
(* whole content of a pair of delimiters as one.  A function is             *)
(* [item, args, qualifiers, inputs, output]; its inputs are [pat, type], and*)
(* output is <<>> or <<type>>.                                              *)
(***************************************************************************)
EXTENDS Naturals, Sequences

\* What may stand between the brackets of Receiver<..>, Fn(..) or Item = .. :
\* A, V<A>, m::A, (A, B), and two types, as tokens and as the text of a group.
Tokens ==
    [name    |-> <<"A">>,
     generic |-> <<"V", "<", "A", ">">>,
     path    |-> <<"m", ":", ":", "A">>,
     tuple   |-> <<"(", "A , B", ")">>,
     pair    |-> <<"A", ",", "B">>]

Text ==
    [name |-> "A", generic |-> "V < A >", path |-> "m :: A", tuple |-> "(A , B)",
     pair |-> "A , B"]

Content == DOMAIN Tokens

\* Those that are one type.
Type == Content \ {"pair"}

\* Types as they are written.
Plain(c) == [form |-> "plain", of |-> c, tokens |-> Tokens[c]]

Unit == [form |-> "plain", of |-> "unit", tokens |-> <<"(", "", ")">>]

Written(form, before, c, after) ==
    [form |-> form, of |-> c, tokens |-> before \o Tokens[c] \o after]

WrittenFn(form, c, after) ==
    [form |-> form, of |-> c, tokens |-> <<"impl", "Fn", "(", Text[c], ")">> \o after]

-----------------------------------------------------------------------------
(* pattern_match_hole.                                                     *)

Pattern(before, after) == [before |-> before, after |-> after]

HandlePatterns(name) ==
    << Pattern(<<"leptos_workers", ":", ":", name, "<">>, <<">">>),
       Pattern(<<"flume", ":", ":", name, "<">>, <<">">>),
       Pattern(<<name, "<">>, <<">">>) >>

FnPatterns == << Pattern(<<"impl", "Fn", "(">>, <<")">>) >>

StreamPatterns ==
    << Pattern(<<"impl", "leptos_workers", ":", ":", "Stream", "<", "Item", "=">>, <<">">>),
       Pattern(<<"impl", "futures", ":", ":", "stream", ":", ":", "Stream", "<", "Item", "=">>,
               <<">">>),
       Pattern(<<"impl", "Stream", "<", "Item", "=">>, <<">">>) >>

\* zip ends with the shorter of the two.
Agree(s, t) == \A k \in DOMAIN s \intersect DOMAIN t : s[k] = t[k]

Backwards(s) == [k \in DOMAIN s |-> s[Len(s) + 1 - k]]

MatchesHole(p, T) ==
    /\ Agree(T.tokens, p.before)
    /\ Agree(Backwards(T.tokens), Backwards(p.after))

\* Plausible bug: the hole ends a token late.
HoleTooLong(p, T) ==
    SubSeq(T.tokens, Len(p.before) + 1, Len(T.tokens) - Len(p.after) + 1)

Hole(p, T) == SubSeq(T.tokens, Len(p.before) + 1, Len(T.tokens) - Len(p.after))

Matches(patterns, T) == \E k \in DOMAIN patterns : MatchesHole(patterns[k], T)

\* find_map: the hole of the first pattern that matches.
FirstHole(patterns, T) ==
    LET first == CHOOSE k \in DOMAIN patterns :
                     /\ MatchesHole(patterns[k], T)
                     /\ \A j \in 1..(k - 1) : ~MatchesHole(patterns[j], T)
    IN Hole(patterns[first], T)

(***************************************************************************)
(* The tokens of the hole are lexed one by one and the result parsed as a   *)
(* type.  A delimiter does not lex without its partner, and the two halves  *)
(* of :: are no :: any more; both panic.  Here: the types it may parse to.  *)
(***************************************************************************)
Lexes(hole) == \A k \in DOMAIN hole : hole[k] \notin {"(", ")", "[", "]", "{", "}"}

Splits(hole) == \E k \in 1..(Len(hole) - 1) : hole[k] = ":" /\ hole[k + 1] = ":"

Parsed(hole) ==
    {c \in Type : \/ hole = <<Text[c]>>
                  \/ hole = Tokens[c] /\ Lexes(hole) /\ ~Splits(hole)}

-----------------------------------------------------------------------------
(* analyze_worker_type.                                                    *)

Aborted == [result |-> "aborted"]

Panicked == [result |-> "panicked"]

Expanded(flavour, init, request, response) ==
    [result |-> "expanded", flavour |-> flavour, init |-> init,
     request |-> request, response |-> response]

\* Plausible bug: the guard against other impl types is missing.
NeverImpl(T) == FALSE

\* Type::ImplTrait
IsImpl(T) == T.tokens[1] = "impl"

\* The hole of a pattern that matches is lexed at once, whatever the other types are.
Unlexable(patterns, T) == Matches(patterns, T) /\ ~Lexes(FirstHole(patterns, T))

HandlePanics(rx, tx) ==
    \/ Unlexable(HandlePatterns("Receiver"), rx)
    \/ Unlexable(HandlePatterns("Sender"), tx)

\* receiver_opt.zip(sender_opt)
IsChannel(rx, tx) ==
    Matches(HandlePatterns("Receiver"), rx) /\ Matches(HandlePatterns("Sender"), tx)

Channel(init, rx, tx) ==
    LET requests  == Parsed(FirstHole(HandlePatterns("Receiver"), rx))
        responses == Parsed(FirstHole(HandlePatterns("Sender"), tx))
    IN IF requests = {} \/ responses = {} THEN Panicked
       ELSE Expanded("channel", init, Plain(CHOOSE c \in requests : TRUE),
                     Plain(CHOOSE c \in responses : TRUE))

\* A flavour with a request type as it is written and a response in a hole.
Single(flavour, request, patterns, T) ==
    LET responses == Parsed(FirstHole(patterns, T)) IN
    IF responses = {} THEN Panicked
    ELSE Expanded(flavour, Unit, request, Plain(CHOOSE c \in responses : TRUE))

ThreeInputs(init, rx, tx) ==
    CASE HandlePanics(rx, tx) -> Panicked
      [] ~HandlePanics(rx, tx) /\ IsChannel(rx, tx) -> Channel(init, rx, tx)
      [] OTHER -> Aborted

TwoInputs(first, second) ==
    CASE HandlePanics(first, second) -> Panicked
      [] ~HandlePanics(first, second) /\ IsChannel(first, second) ->
             Channel(Unit, first, second)
      [] /\ ~HandlePanics(first, second) /\ ~IsChannel(first, second)
         /\ Matches(FnPatterns, second) -> Single("callback", first, FnPatterns, second)
      [] OTHER -> Aborted

OneInput(request, output) ==
    CASE output = <<>> -> Aborted
      [] output # <<>> /\ Matches(StreamPatterns, output[1]) ->
             Single("stream", request, StreamPatterns, output[1])
      [] output # <<>> /\ ~Matches(StreamPatterns, output[1]) /\ ~IsImpl(output[1]) ->
             Expanded("future", Unit, request, output[1])
      [] OTHER -> Aborted

Analyze(f) ==
    LET in == f.inputs IN
    CASE f.qualifiers # {} \/ (\E i \in DOMAIN in : in[i].pat = "self") -> Aborted
      [] OTHER ->
           CASE Len(in) = 3 -> ThreeInputs(in[1].type, in[2].type, in[3].type)
             [] Len(in) = 2 -> TwoInputs(in[1].type, in[2].type)
             [] Len(in) = 1 -> OneInput(in[1].type, f.output)
             [] OTHER -> Aborted

-----------------------------------------------------------------------------
(* parse, and what lower asks of the patterns: the names of the arguments   *)
(* that are passed on to the pool.  The callback is passed on with its      *)
(* pattern, which is no expression if it is `mut callback`.                 *)

\* lower_impl_type_worker_channel: of the init data, if there is any.
InitPassedOn(f) == IF Len(f.inputs) = 3 THEN {1} ELSE {}

PassedOn(f, flavour) ==
    CASE flavour = "channel"  -> InitPassedOn(f)
      [] flavour = "callback" -> {1, 2}
      [] OTHER                -> {1}

Lower(f, model) ==
    CASE model.result # "expanded" -> model
      [] OTHER ->
           CASE \E i \in PassedOn(f, model.flavour) : f.inputs[i].pat = "pattern" -> Aborted
             [] model.flavour = "callback" /\ f.inputs[2].pat = "mut" -> Panicked
             [] OTHER -> model

\* Not a function, or not a name between the brackets of the attribute.
Refused(f) == f.item # "fn" \/ f.args \notin {"none", "ident"}

Expand(f) == IF Refused(f) THEN Aborted ELSE Lower(f, Analyze(f))

Compiles(f) == Expand(f).result = "expanded"

-----------------------------------------------------------------------------
(* The documented signatures (VALID_SIGNATURES), by the forms of the types. *)
(* The output of a channel or callback worker is not looked at: if it has   *)
(* one, its body does not fit the trait's method and rustc refuses it.      *)

Form(f) ==
    [inputs |-> [i \in DOMAIN f.inputs |-> f.inputs[i].type.form],
     output |-> [i \in DOMAIN f.output |-> f.output[i].form]]

DocumentedFlavours(f) ==
    LET in == Form(f).inputs
        n  == Len(in)
        channel == n \in {2, 3} /\ in[n - 1] = "Receiver" /\ in[n] = "Sender"
    IN {w \in {"callback", "channel", "future", "stream"} :
           CASE w = "channel"  -> channel
             [] w = "callback" -> n = 2 /\ ~channel /\ in[2] = "Fn"
             [] w = "stream"   -> n = 1 /\ Form(f).output = <<"Stream">>
             [] w = "future"   -> n = 1 /\ f.output # <<>>
                                  /\ Form(f).output[1] \notin {"Stream", "Fn", "impl"}}

Documented(f) ==
    /\ f.item = "fn" /\ f.args \in {"none", "ident"} /\ f.qualifiers = {}
    /\ \A i \in DOMAIN f.inputs : f.inputs[i].pat # "self"
    /\ DocumentedFlavours(f) # {}

\* What the expansion of a documented signature is to be about.
Promised(f) ==
    LET in == f.inputs
        n  == Len(in)
        w  == CHOOSE v \in DocumentedFlavours(f) : TRUE
    IN CASE w = "channel" ->
                Expanded(w, IF n = 3 THEN in[1].type ELSE Unit,
                         Plain(in[n - 1].type.of), Plain(in[n].type.of))
         [] w = "callback" -> Expanded(w, Unit, in[1].type, Plain(in[2].type.of))
         [] w = "stream"   -> Expanded(w, Unit, in[1].type, Plain(f.output[1].of))
         [] w = "future"   -> Expanded(w, Unit, in[1].type, f.output[1])

-----------------------------------------------------------------------------
(***************************************************************************)
(* The types whose form and tokens fit together: those of the documented    *)
(* forms, and those that no pattern can take for one of them.               *)
(***************************************************************************)

Patterns ==
    [Receiver |-> HandlePatterns("Receiver"), Sender |-> HandlePatterns("Sender"),
     Fn |-> FnPatterns, Stream |-> StreamPatterns]

Holed == DOMAIN Patterns

\* What fills the hole of a pattern.
Filling(form, c) == IF form = "Fn" THEN <<Text[c]>> ELSE Tokens[c]

Filled(p, T, h) == T.tokens = p.before \o h \o p.after

\* A type of one of the documented forms.
Fits(T, form, k, c) ==
    /\ T.form = form /\ T.of = c
    /\ Filled(Patterns[form][k], T, Filling(form, c))

\* A type that begins like none of them.
Ordinary(T) ==
    /\ T.form = "plain" /\ T.tokens \in Seq(STRING) \ {<<>>} /\ T.tokens[1] # "impl"
    /\ \A form \in Holed : \A k \in DOMAIN Patterns[form] :
          ~Agree(T.tokens, Patterns[form][k].before)

\* An impl type of another kind, as `impl Fn(A) -> (A)`: if it begins and ends like one
\* of them, there is more between than any one type.
OtherImpl(T) ==
    /\ T.form = "impl" /\ T.tokens \in Seq(STRING) \ {<<>>} /\ T.tokens[1] = "impl"
    /\ \A form \in Holed : \A k \in DOMAIN Patterns[form] :
          MatchesHole(Patterns[form][k], T) =>
             Len(Patterns[form][k].before) + 4 + Len(Patterns[form][k].after) < Len(T.tokens)

Known(T) ==
    \/ Ordinary(T) \/ OtherImpl(T)
    \/ \E form \in Holed : \E k \in DOMAIN Patterns[form] : \E c \in Content : Fits(T, form, k, c)

\* Functions whose types are all in U.
Signature(f, U) ==
    /\ f.inputs \in Seq([pat : STRING, type : U])
    /\ f.output \in {<<>>} \union {<<T>> : T \in U}
=============================================================================
