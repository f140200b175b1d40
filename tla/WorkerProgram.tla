--------------------------- MODULE WorkerProgram ---------------------------
(***************************************************************************)
(* From a function under #[worker] to the handler of its requests: the macro*)
(* (WorkerMacro) decides by which method of the pool the generated function *)
(* posts its requests, and under which prefix the module exports its        *)
(* registration; with these a worker is started (WorkerBoot).               *)
(***************************************************************************)
EXTENDS WorkerBoot, WorkerMacro

CONSTANTS
    Sources,  \* the functions under #[worker]
    Typical   \* those for which every page and every kind of data is tried

ASSUME TypicalAssumption == Typical \subseteq Sources

VARIABLE source  \* the function under #[worker]

programVars == <<vars, source>>

\* The executor method in the body of the generated function.  (A function that
\* is refused makes no program, and the value is not used.)
Calls(f) == IF Compiles(f) THEN {Expand(f).flavour} ELSE {"future"}

\* wasm_function_prefix: the names under which the script looks for functions that
\* register a worker, if the linker kept them.
Exports(f) == Calls(f)

ProgramInit ==
    /\ source \in Sources
    /\ flavour \in Calls(source)
    /\ head \in IF source \in Typical THEN Heads ELSE {<<>>}
    /\ bad \in IF source \in Typical THEN SUBSET (1..MaxEvents) ELSE {{}}
    /\ exported \in {{}, Exports(source)}
    /\ Init

ProgramNext == Compiles(source) /\ Next /\ UNCHANGED source

ProgramSpec ==
    /\ ProgramInit
    /\ [][ProgramNext]_programVars
    /\ WF_programVars(Boot /\ UNCHANGED source)
    /\ WF_programVars((Arrive \/ Handle) /\ UNCHANGED source)

-----------------------------------------------------------------------------
\* What the macro expands is one of the documented signatures, and what it makes
\* of it has the flavour, and the init, request and response types, that are
\* written there.
ExpandsAsWritten ==
    Compiles(source) => Documented(source) /\ Expand(source) = Promised(source)

\* Types that are taken out of a hole token by token.
Holes(f) ==
    LET in == f.inputs
        n  == Len(in)
    IN CASE Promised(f).flavour = "channel" -> {in[n - 1].type.of, in[n].type.of}
         [] Promised(f).flavour = "stream"  -> {f.output[1].of}
         [] OTHER -> {}

\* A request that looks like a receiver is lexed too, before it is found to be none of
\* a channel.
LexedInVain(f) ==
    /\ Promised(f).flavour = "callback"
    /\ f.inputs[1].type.form = "Receiver" /\ f.inputs[1].type.of = "tuple"

\* A documented signature with names for arguments is expanded, unless a request
\* or response type of a channel, or the item of a stream, has delimiters or a ::
\* in it, or the request of a callback is a receiver of something with delimiters
\* ("Common to all are the following requirements" has no such limit).
DocumentedExpands ==
    /\ Documented(source)
    /\ \A i \in DOMAIN source.inputs : source.inputs[i].pat = "ident"
    /\ Holes(source) \subseteq {"name", "generic"} /\ ~LexedInVain(source)
    /\ Promised(source).response.of \in Type
    => Compiles(source)
=============================================================================
