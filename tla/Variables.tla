----------------------------- MODULE Variables ------------------------------
(***************************************************************************)
(* Shell variables, variables.c: the chain of contexts that functions,     *)
(* eval and source push on the global table, the temporary environment of  *)
(* the command being executed, and the environment array given to          *)
(* children, which is made again only when array_needs_making says so.     *)
(*                                                                         *)
(* A table holds variables under their names.  What a name has in all the  *)
(* tables is kept together here: tables[n][0] is the temporary             *)
(* environment, tables[n][1] the global table, and the higher numbers are  *)
(* the contexts, shell_variables the highest.  A cell is a sequence,       *)
(* because HASH_NOSRCH puts a second variable of the same name before the  *)
(* first.                                                                  *)
(***************************************************************************)
EXTENDS Integers, Sequences, FiniteSets, SequencesExt

CONSTANTS
  Names,            \* names of variables
  Values,           \* their values
  None,             \* no value, no string, no command
  Modes             \* [posix, inherit, unset, commands, names, depth]:
                    \* posixly_correct, localvar_inherit, localvar_unset, the
                    \* commands and names a script uses, and the bound on the
                    \* chain of contexts

Commands == {"call", "eval", "command eval", "read", "declare", "declare -x", "export", "unset",
             "special", "misplaced"}

ASSUME VariablesAssumption ==
  /\ None \notin Values
  /\ \A m \in Modes : m.depth \in Nat \ {0} /\ m.commands \subseteq Commands /\ m.names \subseteq Names

VARIABLES
  mode,             \* one of Modes
  scopes,           \* the chain: [kind, scope, keep]
  tables,           \* the variables
  needs,            \* array_needs_making
  env,              \* export_env
  at,               \* "ready" for a command, "prefix" when its temporary
                    \* environment has been made, "child" when a child has
                    \* the environment array
  passed            \* history: names given to export or declare -x, or in posix
                    \* mode before a special builtin

vars == <<mode, scopes, tables, needs, env, at, passed>>

Attributes == {"exported", "local", "invisible", "tempvar", "propagate"}
Variable(value) == [value |-> value, attrs |-> {}, context |-> 0, str |-> None]
Kinds == {"global", "func", "builtin"}
-----------------------------------------------------------------------------
(* Looking up.  c is one name's cells and the flag: [tab, needs].          *)

Level(S) == Cardinality({k \in DOMAIN S : S[k].kind = "func"})
Context == Level(scopes)
InUse(n) == [tab |-> tables[n], needs |-> needs]

Highest(S) == IF S = {} THEN 0 ELSE CHOOSE k \in S : \A j \in S : j <= k
Top(c) == Highest(DOMAIN c.tab)
(* var_lookup; 0 is none. *)
VarLookup(c) == Highest({k \in DOMAIN c.tab \ {0} : c.tab[k] # <<>>})
InTempenv(c) == c.tab[0] # <<>>
At(c, k) == c.tab[k][1]
Has(c, k, attr) == attr \in At(c, k).attrs
Put(c, k, var) == [c EXCEPT !.tab[k] = IF @ = <<>> THEN <<var>> ELSE <<var>> \o Tail(@)]
Add(c, k, attrs) == [c EXCEPT !.tab[k][1].attrs = @ \cup attrs]
Drop(c, k, attrs) == [c EXCEPT !.tab[k][1].attrs = @ \ attrs]
-----------------------------------------------------------------------------
(* Binding. *)

(* Mutant: the cached string of the old value is kept. *)
BindKeepsString(c, k, value) ==
  LET var == IF c.tab[k] = <<>> THEN Variable(value)
             ELSE [At(c, k) EXCEPT !.value = value, !.attrs = @ \ {"invisible"}]
  IN [Put(c, k, var) EXCEPT !.needs = @ \/ "exported" \in var.attrs]

(* bind_variable_internal *)
BindVariableInternal(c, k, value) ==
  LET var == IF c.tab[k] = <<>> THEN Variable(value)
             ELSE [At(c, k) EXCEPT !.value = value, !.attrs = @ \ {"invisible"}, !.str = None]
  IN [Put(c, k, var) EXCEPT !.needs = @ \/ "exported" \in var.attrs]

BindTempenvVariable(c, value) ==
  IF InTempenv(c) /\ value # None THEN Put(c, 0, [At(c, 0) EXCEPT !.value = value, !.str = None]) ELSE c

(* bind_variable, and the table it binds in *)
Bound(c) == IF VarLookup(c) = 0 THEN 1 ELSE VarLookup(c)
BindVariable(c, value) == BindVariableInternal(BindTempenvVariable(c, value), Bound(c), value)

(* Mutant: the name is not looked up before it is added. *)
AssignInEnvTwice(c, value) ==
  [c EXCEPT !.needs = TRUE,
            !.tab[0] = <<[value |-> value, str |-> value, context |-> Context, attrs |-> {"exported", "tempvar"}]>> \o @]

(* assign_in_env *)
AssignInEnv(c, value) ==
  [Put(c, 0, [value |-> value, str |-> value, context |-> Context,
              attrs |-> {"exported", "tempvar"} \cup (IF InTempenv(c) THEN At(c, 0).attrs ELSE {})])
   EXCEPT !.needs = TRUE]

(* dispose_variable, of one that is in no table any more *)
Dispose(c, var) == [c EXCEPT !.needs = @ \/ "exported" \in var.attrs]

(* Mutant: a local variable is removed. *)
MakunboundRemoves(c) ==
  LET k == VarLookup(c) IN
  IF k = 0 THEN c ELSE Dispose([c EXCEPT !.tab[k] = Tail(@)], At(c, k))

(* makunbound: a local variable stays, and is made invisible. *)
Makunbound(c) ==
  LET k == VarLookup(c)
      var == At(c, k)
      stays == /\ "local" \in var.attrs
               /\ var.context = Context \/ (mode.unset /\ var.context < Context)
      blank == [value |-> None, str |-> None, context |-> var.context,
                attrs |-> {"local", "invisible"} \cup (IF {"exported", "tempvar"} \subseteq var.attrs
                                                       THEN {"exported"} ELSE {})]
  IN IF k = 0 THEN c
     ELSE IF stays THEN Dispose([c EXCEPT !.tab[k] = <<blank>> \o SubSeq(@, 3, Len(@))], var)
     ELSE Dispose([c EXCEPT !.tab[k] = Tail(@)], var)
-----------------------------------------------------------------------------
(* Local variables. *)

(* The variable find_variable finds from a builtin. *)
FindVariable(c) == IF InTempenv(c) \/ VarLookup(c) = 0 THEN 0 ELSE VarLookup(c)
Found(c) == InTempenv(c) \/ VarLookup(c) # 0

FuncContext == Highest({k \in DOMAIN scopes : scopes[k].kind = "func"})

IsLocalHere(c) == ~InTempenv(c) /\ Found(c) /\ Has(c, VarLookup(c), "local") /\ At(c, VarLookup(c)).context = Context
IsTempHere(c) == ~InTempenv(c) /\ Found(c) /\ Has(c, VarLookup(c), "tempvar") /\ At(c, VarLookup(c)).context = Context

(* Where make_local_variable has put the variable. *)
LocalPlace(c) == IF IsLocalHere(c) \/ IsTempHere(c) THEN VarLookup(c) ELSE FuncContext

NewLocal(c) ==
  LET old == At(c, FindVariable(c))
      wasTemp == Found(c) /\ "tempvar" \in old.attrs
      value == IF wasTemp \/ (Found(c) /\ mode.inherit) THEN old.value ELSE None
      inherited == IF ~Found(c) THEN {} ELSE IF mode.inherit THEN old.attrs ELSE old.attrs \cap {"exported"}
  IN [value |-> value, str |-> None, context |-> Context,
      attrs |-> inherited \cup {"local"} \cup (IF ~wasTemp /\ value = None THEN {"invisible"} ELSE {})]

(* make_local_variable *)
MakeLocalVariable(c) ==
  IF IsLocalHere(c) THEN c
  ELSE IF IsTempHere(c) THEN Add(Drop(c, VarLookup(c), {"invisible"}), VarLookup(c), {"local"})
  ELSE [c EXCEPT !.tab[FuncContext] = <<NewLocal(c)>> \o @]

(* bind_variable_value *)
BindVariableValue(c, k, value) ==
  LET var == [At(c, k) EXCEPT !.value = value, !.str = None, !.attrs = @ \ {"invisible"}]
  IN [Put(c, k, var) EXCEPT !.needs = @ \/ "exported" \in var.attrs]

(* declare and local, with a value or none, and with -x, +x or neither:    *)
(* declare_internal.  It exports a variable of the temporary environment   *)
(* to the scope around it.                                                 *)
DeclaredIn(c, k, value, on, off) ==
  LET flagged == Drop(Add(c, k, on), k, off)
      valued == IF value = None THEN flagged ELSE BindVariableValue(flagged, k, value)
      var == At(valued, k)
      b == Bound(valued)
      copied == IF ~InTempenv(valued) THEN valued
                ELSE LET u == BindVariable(valued, var.value)
                     IN Add(u, b, (var.attrs \ {"tempvar"}) \cup (IF At(u, b).context > 0 THEN {"propagate"} ELSE {}))
  IN IF on # {} /\ "tempvar" \in var.attrs THEN Add(copied, k, {"propagate"}) ELSE valued
Declare(c, value, on, off) ==
  LET marked == [c EXCEPT !.needs = @ \/ on \cup off # {}] IN
  IF Context > 0 THEN DeclaredIn(MakeLocalVariable(marked), LocalPlace(c), value, on, off)
  ELSE IF Found(c) THEN DeclaredIn(marked, FindVariable(c), value, on, off)
  ELSE LET made == BindVariable(marked, None)
       IN DeclaredIn(IF value = None THEN Add(made, 1, {"invisible"}) ELSE made, 1, value, on, off)

(* set_var_attribute of export and export -n *)
Export(c, undo) ==
  LET marked == [c EXCEPT !.needs = TRUE]
      temp == At(c, 0)
      bound == BindVariable(marked, temp.value)
      b == Bound(marked)
      var == At(bound, b)
      copied == Add(bound, b, (temp.attrs \ {"tempvar"})
                              \cup (IF mode.posix /\ var.context # 0 THEN {"propagate"} ELSE {}))
  IN IF undo THEN IF Found(c) THEN Drop(marked, FindVariable(c), {"exported"}) ELSE marked
     ELSE IF InTempenv(c)
     THEN Add(IF mode.posix THEN Add(copied, 0, {"propagate"}) ELSE copied, b, {"exported"})
     ELSE IF VarLookup(c) = 0 THEN Add(BindVariable(marked, None), 1, {"invisible", "exported"})
     ELSE Add(marked, b, {"exported"} \cup (IF At(c, b).context # 0 THEN {"propagate"} ELSE {}))
-----------------------------------------------------------------------------
(* The end of a context or of the temporary environment.  e is a variable  *)
(* of it, c the cells that are left.                                       *)

Passing == {"tempvar", "propagate"}
Bequeath(c, k, attrs, context) == Put(c, k, [At(c, k) EXCEPT !.attrs = @ \cup attrs, !.context = context])

(* Mutant: the context is left as it was. *)
BindInTopOnly(c, value, attrs) == Add(BindVariableInternal(c, Top(c), value), Top(c), attrs)

BindInTop(c, value, attrs) == Bequeath(BindVariableInternal(c, Top(c), value), Top(c), attrs, scopes[Top(c)].scope)

(* push_posix_tempvar_internal *)
PushPosixTempvar(c, e, special) ==
  LET k == Bound(c)
      merged == Add(BindVariable(c, e.value), k, e.attrs)
  IN Dispose(IF "tempvar" \in e.attrs /\ mode.posix /\ special
             THEN IF At(merged, k).context = 0 THEN Drop(merged, k, Passing) ELSE merged
             ELSE IF Passing \subseteq e.attrs
             THEN BindInTop(c, e.value, IF Top(c) = 1 THEN e.attrs \ Passing ELSE e.attrs)
             ELSE c, e)

(* push_exported_var.  A function that has no table yet is bound in all    *)
(* the same, where the code passes hash_insert no table and loses the      *)
(* variable (variables.c:5146); no script of MCVariables comes here so.    *)
PushExportedVar(c, e) ==
  Dispose(IF Passing \cup {"exported"} \subseteq e.attrs
          THEN BindInTop(c, e.value, e.attrs \ (IF Top(c) = 1 THEN Passing ELSE {"tempvar"}))
          ELSE c, e)

(* propagate_temp_var, push_temp_var *)
PropagateTempVar(c, e) ==
  Dispose(IF Passing \subseteq e.attrs
          THEN BindInTop(c, e.value, IF Top(c) = 1 THEN e.attrs \ Passing ELSE e.attrs)
          ELSE c, e)

(* push_posix_temp_var *)
PushPosixTempVar(c, e) ==
  LET k == Bound(c)
      bound == BindVariable(c, e.value)
      local == "local" \in At(bound, k).attrs
      global == At(bound, k).context = 0
      merged == Add(bound, k, IF global THEN e.attrs \ Passing ELSE e.attrs)
  IN Dispose(IF ~global /\ ~local THEN Add(merged, k, {"propagate"}) ELSE Drop(merged, k, {"propagate"}), e)

(* push_var_context: the temporary environment becomes a table. *)
Pushed(c, context) ==
  [c EXCEPT !.tab = [k \in 0 .. Top(c) + 1 |->
    IF k = 0 THEN <<>>
    ELSE IF k <= Top(c) THEN c.tab[k]
    ELSE [i \in DOMAIN c.tab[0] |-> [c.tab[0][i] EXCEPT !.context = context]]]]

Ended(c, gone, Push(_, _)) == FoldLeft(Push, c, gone)
Popped(c, Push(_, _)) == Ended([c EXCEPT !.tab = [k \in 0 .. Top(c) - 1 |-> c.tab[k]]], c.tab[Top(c)], Push)

(* pop_scope, pop_var_context *)
PopScope(c, keep) ==
  IF keep THEN Popped(c, LAMBDA d, e : PushPosixTempvar(d, e, TRUE)) ELSE Popped(c, PushExportedVar)
PopVarContext(c) == Popped(c, LAMBDA d, e : PushPosixTempvar(d, e, FALSE))

(* dispose_temporary_env *)
DisposeTemporaryEnv(c, Push(_, _)) == [Ended([c EXCEPT !.tab[0] = <<>>], c.tab[0], Push) EXCEPT !.needs = TRUE]
-----------------------------------------------------------------------------
(* The environment array. *)

Candidate(var) == "exported" \in var.attrs /\ "invisible" \notin var.attrs

(* flatten and vlist_add, from the temporary environment down *)
Chosen(c) ==
  LET K == {k \in DOMAIN c.tab : \E i \in DOMAIN c.tab[k] : Candidate(c.tab[k][i])}
      k == IF 0 \in K THEN 0 ELSE Highest(K)
  IN IF K = {} THEN <<>>
     ELSE <<k, CHOOSE i \in DOMAIN c.tab[k] : Candidate(c.tab[k][i]) /\ \A j \in 1 .. i - 1 : ~Candidate(c.tab[k][j])>>

(* make_env_array_from_var_list *)
EnvString(var) == IF var.str # None THEN var.str ELSE var.value
EnvOf(c) == LET p == Chosen(c) IN IF p = <<>> THEN None ELSE EnvString(c.tab[p[1]][p[2]])
Saved(c) == LET p == Chosen(c) IN IF p = <<>> THEN c ELSE [c EXCEPT !.tab[p[1]][p[2]].str = EnvOf(c)]

Columns == [n \in Names |-> InUse(n)]
Become(cols) ==
  /\ tables' = [n \in Names |-> cols[n].tab]
  /\ needs' = (\E n \in Names : cols[n].needs)

(* maybe_make_export_env *)
MaybeMakeExportEnv(cols) ==
  LET due == \E n \in Names : cols[n].needs IN
  /\ tables' = [n \in Names |-> IF due THEN Saved(cols[n]).tab ELSE cols[n].tab]
  /\ env' = IF due THEN [n \in Names |-> EnvOf(cols[n])] ELSE env
  /\ needs' = FALSE

(* dispose_used_env_vars after every simple command, or in posix mode      *)
(* merge_temporary_env after a special builtin                             *)
EndCommand(cols, special) ==
  IF at = "ready" THEN Become(cols) /\ UNCHANGED env
  ELSE IF mode.posix /\ special
  THEN Become([n \in Names |-> DisposeTemporaryEnv(cols[n], PushPosixTempVar)]) /\ UNCHANGED env
  ELSE MaybeMakeExportEnv([n \in Names |-> DisposeTemporaryEnv(cols[n], PropagateTempVar)])
-----------------------------------------------------------------------------
Uses(command) == command \in mode.commands
Held(k) == {n \in Names : tables[n][k] # <<>>}
PassOn(S) == passed' = passed \cup S
PassOnMerged(S) == PassOn(IF mode.posix THEN S \cup Held(0) ELSE S)
With(n, c) == [Columns EXCEPT ![n] = c]

(* An assignment before a command *)
Prefix(n, value) ==
  /\ at \in {"ready", "prefix"}
  /\ Become(With(n, AssignInEnv(InUse(n), value)))
  /\ at' = "prefix"
  /\ UNCHANGED <<mode, scopes, env, passed>>

(* An assignment that is a command *)
Assign(n, value) ==
  /\ at = "ready"
  /\ Become(With(n, BindVariable(InUse(n), value)))
  /\ UNCHANGED <<mode, scopes, env, at, passed>>

(* A call of a function: push_context *)
Call ==
  /\ Uses("call")
  /\ at \in {"ready", "prefix"}
  /\ Len(scopes) < mode.depth
  /\ scopes' = Append(scopes, [kind |-> "func", scope |-> Context + 1, keep |-> FALSE])
  /\ Become([n \in Names |-> Pushed(InUse(n), Context + 1)])
  /\ at' = "ready"
  /\ UNCHANGED <<mode, env, passed>>

(* eval, source, or command eval, which keeps nothing *)
Eval(keep) ==
  /\ Uses(IF keep THEN "eval" ELSE "command eval")
  /\ at = "prefix"
  /\ Len(scopes) < mode.depth
  /\ scopes' = Append(scopes, [kind |-> "builtin", scope |-> Context, keep |-> keep])
  /\ Become([n \in Names |-> Pushed(InUse(n), Context)])
  /\ at' = "ready"
  /\ UNCHANGED <<mode, env, passed>>

EndEval ==
  /\ at = "ready"
  /\ Last(scopes).kind = "builtin"
  /\ scopes' = Front(scopes)
  /\ Become([n \in Names |-> PopScope(InUse(n), Last(scopes).keep)])
  /\ UNCHANGED <<mode, env, at, passed>>

(* return, or the end of the function *)
Return ==
  /\ at \in {"ready", "prefix"}
  /\ Last(scopes).kind = "func"
  /\ scopes' = Front(scopes)
  /\ IF at = "prefix" /\ mode.posix
     THEN Become([n \in Names |-> PopVarContext(DisposeTemporaryEnv(InUse(n), PushPosixTempVar))]) /\ UNCHANGED env
     ELSE EndCommand([n \in Names |-> PopVarContext(InUse(n))], FALSE)
  /\ at' = "ready"
  /\ PassOnMerged({})
  /\ UNCHANGED mode

(* read with assignments before it; without, it is an assignment *)
Read(n, value) ==
  /\ Uses("read")
  /\ at = "prefix"
  /\ Become([m \in Names |-> LET pushed == Pushed(InUse(m), Context)
                             IN PopScope(IF m = n THEN BindVariable(pushed, value) ELSE pushed, FALSE)])
  /\ at' = "ready"
  /\ UNCHANGED <<mode, scopes, env, passed>>

(* The two cases in which make_local_variable, whose comment rules them    *)
(* out, leaves a local variable in the table of an eval, or a second one   *)
(* of the name in the table of the function.                               *)
Misplaced(c) ==
  /\ Context > 0
  /\ \/ InTempenv(c) /\ c.tab[FuncContext] # <<>>
     \/ IsTempHere(c) /\ VarLookup(c) # FuncContext

DeclareCommand(n, value, on, off) ==
  /\ Uses(IF on \cup off = {} THEN "declare" ELSE "declare -x")
  /\ Misplaced(InUse(n)) => Uses("misplaced")
  /\ at \in {"ready", "prefix"}
  /\ EndCommand(With(n, Declare(InUse(n), value, on, off)), FALSE)
  /\ at' = "ready"
  /\ PassOn(IF on = {} THEN {} ELSE {n})
  /\ UNCHANGED <<mode, scopes>>

ExportCommand(n, value, undo) ==
  /\ Uses("export")
  /\ at \in {"ready", "prefix"}
  /\ LET assigned == IF value = None THEN InUse(n) ELSE BindVariable(InUse(n), value)
     IN EndCommand(With(n, Export(assigned, undo)), TRUE)
  /\ at' = "ready"
  /\ PassOnMerged(IF undo THEN {} ELSE {n})
  /\ UNCHANGED <<mode, scopes>>

Unset(n) ==
  /\ Uses("unset")
  /\ at \in {"ready", "prefix"}
  /\ IF at = "ready" THEN Become(With(n, Makunbound(InUse(n))))
     ELSE Become([m \in Names |-> LET pushed == Pushed(InUse(m), Context)
                                  IN PopScope(IF m = n THEN Makunbound(pushed) ELSE pushed, TRUE)])
  /\ at' = "ready"
  /\ UNCHANGED <<mode, scopes, env, passed>>

(* A special builtin that leaves variables alone *)
Special ==
  /\ Uses("special")
  /\ at = "prefix"
  /\ EndCommand(Columns, TRUE)
  /\ at' = "ready"
  /\ PassOnMerged({})
  /\ UNCHANGED <<mode, scopes>>

(* A command from the file system, and its end *)
Execute ==
  /\ at \in {"ready", "prefix"}
  /\ MaybeMakeExportEnv(Columns)
  /\ at' = IF at = "prefix" THEN "child" ELSE at
  /\ UNCHANGED <<mode, scopes, passed>>

EndExecute ==
  /\ at = "child"
  /\ EndCommand(Columns, FALSE)
  /\ at' = "ready"
  /\ UNCHANGED <<mode, scopes, passed>>

Init ==
  /\ mode \in Modes
  /\ scopes = <<[kind |-> "global", scope |-> 0, keep |-> FALSE]>>
  /\ tables = [n \in Names |-> [k \in 0 .. 1 |-> <<>>]]
  /\ needs = TRUE
  /\ env = [n \in Names |-> None]
  /\ at = "ready"
  /\ passed = {}

Next ==
  \/ \E n \in mode.names, value \in Values : Prefix(n, value) \/ Assign(n, value) \/ Read(n, value)
  \/ \E n \in mode.names, value \in Values \cup {None} :
       \/ \E on, off \in SUBSET {"exported"} : on \cap off = {} /\ DeclareCommand(n, value, on, off)
       \/ \E undo \in BOOLEAN : ExportCommand(n, value, undo)
  \/ \E n \in mode.names : Unset(n)
  \/ \E keep \in BOOLEAN : Eval(keep)
  \/ Call \/ EndEval \/ Return \/ Special \/ Execute \/ EndExecute

Spec == Init /\ [][Next]_vars
-----------------------------------------------------------------------------
(* Type correctness: variables carry known attributes and values, tables   *)
(* and contexts are as many.                                               *)
TypeOK ==
  LET Variables == [value : Values \cup {None}, str : Values \cup {None},
                    attrs : SUBSET Attributes, context : 0 .. mode.depth] IN
  /\ mode \in Modes /\ needs \in BOOLEAN /\ at \in {"ready", "prefix", "child"}
  /\ Len(scopes) \in 1 .. mode.depth
  /\ \A k \in DOMAIN scopes : scopes[k].kind \in Kinds /\ scopes[k].scope \in 0 .. mode.depth
  /\ \A n \in Names : /\ DOMAIN tables[n] = 0 .. Len(scopes)
                      /\ \A k \in DOMAIN tables[n] : \A i \in DOMAIN tables[n][k] : tables[n][k][i] \in Variables
                      /\ Len(tables[n][0]) <= 1
  /\ env \in [Names -> Values \cup {None}]
  /\ passed \subseteq Names

(* While array_needs_making is false the array given to children says what *)
(* the variables say now, whatever strings are cached in them: every       *)
(* change of an exported variable, and every context that ends, is         *)
(* followed by a new array (array_needs_making, INVALIDATE_EXPORTSTR).     *)
EnvTrue ==
  ~needs => \A n \in Names :
    LET p == Chosen(InUse(n)) IN env[n] = IF p = <<>> THEN None ELSE tables[n][p[1]][p[2]].value

(* A variable knows the level of the function it belongs to, though the    *)
(* temporary environment is made before the level is counted up and        *)
(* variables are handed from context to context: unset and local trust it. *)
ContextsTrue ==
  /\ \A k \in DOMAIN scopes : scopes[k].scope = Level(SubSeq(scopes, 1, k))
  /\ \A n \in Names, k \in DOMAIN scopes : \A i \in DOMAIN tables[n][k] : tables[n][k][i].context = scopes[k].scope

(* What the tables mean *)
Shown(k, n) == IF tables[n][k] = <<>> \/ Has(InUse(n), k, "invisible") THEN None ELSE At(InUse(n), k).value
Frames == [k \in DOMAIN scopes |->
             [kind |-> scopes[k].kind,
              vals |-> [n \in IF k = 1 THEN Names ELSE Held(k) |-> Shown(k, n)],
              locals |-> {n \in Held(k) : Has(InUse(n), k, "local")}]]
Given == [n \in Held(0) |-> Shown(0, n)]
Promise == INSTANCE DynamicScope WITH frames <- Frames, given <- Given, options <- mode

(* The tables are an implementation of dynamic scoping: assignments,       *)
(* local, unset, the ends of functions and of evals change the frame they  *)
(* ought to change and no other.                                           *)
ImplementsScopes == Promise!Spec
=============================================================================
