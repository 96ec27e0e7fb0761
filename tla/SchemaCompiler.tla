---------------------------- MODULE SchemaCompiler ----------------------------
(***************************************************************************)
(* Evolution of one dataset schema: CompileMessage in go/data/compiler.go  *)
(* applied again and again to changing protobuf descriptors, each time     *)
(* with the schema it produced last.                                       *)
(*                                                                         *)
(* One compilation is one step: the compiler's own maps are local to the   *)
(* call and only the schema it returns is observable.  A compilation that  *)
(* returns an error leaves no trace and is no step.                        *)
(***************************************************************************)
EXTENDS SchemaEvolution

VARIABLES
    first,      \* no schema has been committed yet (previous == nil)
    schema,     \* the schema committed last
    compiled    \* the descriptor it was compiled from

schemaVars == <<first, schema, compiled>>

SchemaTypeOK ==
    /\ first \in BOOLEAN
    /\ schema \in Dataset
    /\ ~first => compiled \in Descriptors

SchemaInit ==
    /\ first = TRUE
    /\ schema = NoDataset
    /\ compiled = NoShape

\* Mutant: later compilations use protobuf numbers as ids too where they are free.
CompileReusesNumbers(d, last) ==
    LET fresh == Fresh(first, schema, d)
        next == Result(first, schema, d, last)
    IN  /\ last \in LastIdBefore(first, schema, d)
        /\ Accepts(first, schema, d, last)
        /\ schema' =
              IF fresh \subseteq {i \in Top : Number[i] < last} /\
                 \A i \in fresh, j \in Known(schema) : Number[i] # schema.id[j]
              THEN [next EXCEPT !.lastId = last,
                        !.id = [i \in Identity |-> IF i \in fresh THEN Number[i] ELSE @[i]]]
              ELSE next
        /\ first' = FALSE
        /\ compiled' = d

CompileMessage(d, last) ==
    /\ last \in LastIdBefore(first, schema, d)
    /\ Accepts(first, schema, d, last)
    /\ schema' = Result(first, schema, d, last)
    /\ first' = FALSE
    /\ compiled' = d

SchemaNext ==
    \E d \in Descriptors :
        \E last \in LastIdBefore(first, schema, d) : CompileMessage(d, last)

SchemaSpec == SchemaInit /\ [][SchemaNext]_schemaVars

(***************************************************************************)
(* Properties.                                                             *)
(***************************************************************************)
\* What the compiler once numbered it never forgets: the identity stays active
\* or retired, keeps its stable id and its storage name, and a tombstone stays
\* a tombstone, through every later compilation.
IdentitiesPermanent ==
    [][\A i \in Known(schema) :
          /\ i \in Known(schema')
          /\ schema'.id[i] = schema.id[i]
          /\ schema'.source[i] = schema.source[i]
          /\ i \in schema.retired => i \in schema'.retired]_schemaVars

\* After the first compilation, a new identity gets an id above every id ever
\* given out, so an id in old data files never changes its meaning.
AllocatesMonotonically ==
    [][~first =>
          \A i \in Known(schema') \ Known(schema) : schema'.id[i] > schema.lastId]_schemaVars

\* Every schema the compiler writes passes its own checks on the next run: no
\* evolution it accepts leads to a schema it refuses to evolve.
AcceptsOwnOutput == AcceptsPrevious(schema)

\* Compiling the same descriptor again is accepted and changes nothing.
RecompileIsIdentity ==
    ~first =>
        /\ Accepts(FALSE, schema, compiled, schema.lastId)
        /\ Result(FALSE, schema, compiled, schema.lastId) = schema
===============================================================================
