------------------------------- MODULE HashTable -------------------------------
(***************************************************************************)
(* The symbol table that holds the macros of a lex file (lib/hash.c): an   *)
(* array of chains of BUCKETs.  A bucket's next points to the bucket after *)
(* it; its prev points to the pointer that points to it, which is an entry *)
(* of the array or the next field of the bucket before it, so that a       *)
(* symbol is taken out without a search.  rlex adds and looks up           *)
(* symbols; the package also deletes, frees and lists them.                *)
(***************************************************************************)
EXTENDS Integers, Sequences, SequencesExt, FiniteSets, FiniteSetsExt

CONSTANTS
    Names,     \* the keys; cmp() is their equality
    Hash,      \* Hash[n] is what the hash function makes of n
    SIZE,      \* number of chains (31 in nfa.c)
    Syms,      \* pointers to symbols
    NULL

ASSUME HashAssumption == /\ SIZE \in Nat \ {0} /\ IsFiniteSet(Syms)
                         /\ Hash \in [Names -> Nat]
                         /\ NULL \notin Syms \union Names

VARIABLES
    sym,       \* sym[p] is the bucket and the name of *p
    used,      \* the symbols that newsym() has given out and freesym() not taken back
    table,     \* the array
    numsyms

vars == <<sym, used, table, numsyms>>

Slot(n) == Hash[n] % SIZE

\* The pointers that point to buckets, as cells of the memory.
InTable(i) == <<"table", i>>
InBucket(p) == <<"next", p>>

\* calloc() clears the bucket; the caller fills in the name.
newsym(p, n) ==
    /\ p \notin used
    /\ used' = used \union {p}
    /\ sym' = [sym EXCEPT ![p] = [name |-> n, next |-> NULL, prev |-> NULL]]
    /\ UNCHANGED <<table, numsyms>>

\* The bucket k steps after p, NULL once the chain has ended.
After(p) ==
    LET at[k \in 0..Cardinality(Syms)] ==
            IF k = 0 THEN p ELSE IF at[k-1] = NULL THEN NULL ELSE sym[at[k-1]].next
    IN  at

\* The chain that starts at p.
Chain(p) ==
    LET length == Cardinality({k \in 0..Cardinality(Syms) : After(p)[k] # NULL})
    IN  [k \in 1..length |-> After(p)[k-1]]

Chains == [i \in 0..SIZE-1 |-> Chain(table[i])]

InChains == UNION {ToSet(Chains[i]) : i \in 0..SIZE-1}

freesym(p) ==
    /\ p \in used \ InChains
    /\ used' = used \ {p}
    /\ sym' = [sym EXCEPT ![p] = [name |-> NULL, next |-> NULL, prev |-> NULL]]
    /\ UNCHANGED <<table, numsyms>>

\* Mutant: the bucket that was in front keeps its prev.
addsym_KeepsPrev(p) ==
    LET i == Slot(sym[p].name)
    IN  /\ p \in used \ InChains
        /\ table' = [table EXCEPT ![i] = p]
        /\ sym' = [sym EXCEPT ![p].prev = InTable(i), ![p].next = table[i]]
        /\ numsyms' = numsyms + 1
        /\ UNCHANGED used

\* The new bucket goes in front of its chain.
addsym(p) ==
    LET i == Slot(sym[p].name)
        tmp == table[i]
        linked == [sym EXCEPT ![p].prev = InTable(i), ![p].next = tmp]
    IN  /\ p \in used \ InChains
        /\ table' = [table EXCEPT ![i] = p]
        /\ sym' = IF tmp = NULL THEN linked ELSE [linked EXCEPT ![tmp].prev = InBucket(p)]
        /\ numsyms' = numsyms + 1
        /\ UNCHANGED used

\* Mutants: the bucket behind keeps its prev; or the symbol is not counted out.
delsym_KeepsPrev(p) ==
    LET cell == sym[p].prev
        next == sym[p].next
        unlinked == IF cell[1] = "next" THEN [sym EXCEPT ![cell[2]].next = next] ELSE sym
    IN  /\ p \in InChains
        /\ table' = IF cell[1] = "table" THEN [table EXCEPT ![cell[2]] = next] ELSE table
        /\ sym' = unlinked
        /\ numsyms' = numsyms - 1
        /\ UNCHANGED used
delsym_Uncounted(p) ==
    LET cell == sym[p].prev
        next == sym[p].next
        unlinked == IF cell[1] = "next" THEN [sym EXCEPT ![cell[2]].next = next] ELSE sym
    IN  /\ p \in InChains
        /\ table' = IF cell[1] = "table" THEN [table EXCEPT ![cell[2]] = next] ELSE table
        /\ sym' = IF next # NULL THEN [unlinked EXCEPT ![next].prev = cell] ELSE unlinked
        /\ numsyms' = numsyms
        /\ UNCHANGED used

\* *(sym->prev) = sym->next; the bucket itself keeps its links.
delsym(p) ==
    LET cell == sym[p].prev
        next == sym[p].next
        unlinked == IF cell[1] = "next" THEN [sym EXCEPT ![cell[2]].next = next] ELSE sym
    IN  /\ p \in InChains
        /\ table' = IF cell[1] = "table" THEN [table EXCEPT ![cell[2]] = next] ELSE table
        /\ sym' = IF next # NULL THEN [unlinked EXCEPT ![next].prev = cell] ELSE unlinked
        /\ numsyms' = numsyms - 1
        /\ UNCHANGED used

\* The first symbol of that name in a chain.
FirstNamed(chain, n) ==
    LET found == {k \in 1..Len(chain) : sym[chain[k]].name = n}
    IN  IF found = {} THEN NULL ELSE chain[Min(found)]

findsym(n) == FirstNamed(Chain(table[Slot(n)]), n)

\* The next symbol with the name of p.
nextsym(p) == FirstNamed(Chain(sym[p].next), sym[p].name)

\* The symbols in the order ptab() lists them unsorted; sorted, it copies them to an
\* array of numsyms places first.
ptab ==
    LET all[i \in 0..SIZE] == IF i = 0 THEN <<>> ELSE all[i-1] \o Chains[i-1]
    IN  all[SIZE]

\* maketab()
Init ==
    /\ sym = [p \in Syms |-> [name |-> NULL, next |-> NULL, prev |-> NULL]]
    /\ used = {} /\ numsyms = 0
    /\ table = [i \in 0..SIZE-1 |-> NULL]

Next == \E p \in Syms :
            \/ \E n \in Names : newsym(p, n)
            \/ freesym(p) \/ addsym(p) \/ delsym(p)

Spec == Init /\ [][Next]_vars

-----------------------------------------------------------------------------
(* Every field has its C type. *)
TypeOK ==
    LET cells == {InTable(i) : i \in 0..SIZE-1} \union {InBucket(p) : p \in Syms}
    IN  /\ sym \in [Syms -> [name : Names \union {NULL}, next : Syms \union {NULL},
                             prev : cells \union {NULL}]]
        /\ used \subseteq Syms
        /\ table \in [0..SIZE-1 -> Syms \union {NULL}]
        /\ numsyms \in 0..Cardinality(Syms)

\* The elements of s that are in S, in their order; rest[k] are those of the last k.
Only(s, S) ==
    LET rest[k \in 0..Len(s)] ==
            IF k = 0 THEN <<>>
            ELSE LET e == s[Len(s)+1-k]
                 IN  IF e \in S THEN <<e>> \o rest[k-1] ELSE rest[k-1]
    IN  rest[Len(s)]

\* The symbols of a name, from the front of their chain.
Named(n) == Only(Chain(table[Slot(n)]), {p \in Syms : sym[p].name = n})

\* findsym() gives the first symbol of a name and nextsym() the one after it, also where
\* symbols of another name are between them (hash.c:76-99).
LookupsFollowChains ==
    \A n \in Names :
        LET named == Named(n)
            after(k) == IF k = Len(named) THEN NULL ELSE named[k+1]
        IN  /\ findsym(n) = after(0)
            /\ \A k \in 1..Len(named) : nextsym(named[k]) = after(k)

\* The chains have no cycle, no symbol is in two places, a symbol is in the chain its
\* name hashes to, and prev of every linked bucket is where its pointer is, after any
\* sequence of additions and deletions (hash.c:46-74); numsyms is the number of linked
\* symbols, so that the array ptab() sorts never overflows (hash.c:126-137); and lookups
\* find every symbol of a name, the newest first.
ChainsLinked ==
    /\ \A i \in 0..SIZE-1 :
         LET chain == Chains[i]
         IN  \A k \in 1..Len(chain) :
               /\ chain[k] \in used
               /\ Slot(sym[chain[k]].name) = i
               /\ sym[chain[k]].prev = IF k = 1 THEN InTable(i) ELSE InBucket(chain[k-1])
    /\ IsInjective(ptab)
    /\ Len(ptab) = numsyms
    /\ LookupsFollowChains

\* The table keeps definitions as Definitions says: the newest that has not been deleted
\* is the first of its name, and a deletion disturbs no other symbol and no other name
\* (hash.c:46-74; nfa.c:251-252).
Defs == INSTANCE Definitions WITH defs <- [n \in Names |-> Named(n)]

ImplementsDefinitions == Defs!Spec

=============================================================================
