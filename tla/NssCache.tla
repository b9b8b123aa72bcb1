------------------------------ MODULE NssCache ------------------------------
(***************************************************************************)
(* The launcher's cache of users and groups.  A node of the cache may be   *)
(* found by its name, by its id, or both; an absent user leaves a node     *)
(* that is found by only one of them.  The same code serves users and      *)
(* groups: here a cache is one of the two, and a database a sequence of    *)
(* entries.  A query is a name, or a number written as one.                *)
(***************************************************************************)
EXTENDS Integers, Sequences, FiniteSets, SequencesExt

CONSTANTS AccountFile,  \* the entries of /etc/passwd or /etc/group, in order
          AccountNss,   \* the entries that only NSS knows
          NoId          \* (uint32_t)-1

NoName == ""
Invalid == [valid |-> FALSE, id |-> NoId]
Valid(id) == [valid |-> TRUE, id |-> id]
ByName(n) == [byId |-> FALSE, name |-> n, id |-> NoId]
ById(i) == [byId |-> TRUE, name |-> NoName, id |-> i]

NodesByName(c, name) == {i \in DOMAIN c : c[i].inNames /\ c[i].name = name}
NodesById(c, id) == {i \in DOMAIN c : c[i].inIds /\ c[i].id = id}

\* Faulty variant: an entry that disagrees with a cached one replaces it.
CacheAddReplaces(c, name, id) ==
    LET known == NodesByName(c, name) \union NodesById(c, id)
    IN IF known = {}
       THEN Append(c, [name |-> name, id |-> id, inNames |-> name # NoName,
                       inIds |-> id # NoId, entry |-> id])
       ELSE [c EXCEPT ![CHOOSE i \in known : TRUE].entry = id]

\* The structure that an existing node carries is replaced, its keys are not.
CacheAdd(c, name, id) ==
    LET byName == IF name = NoName THEN {} ELSE NodesByName(c, name)
        byId == IF id = NoId THEN {} ELSE NodesById(c, id)
        conflict == /\ byName # byId
                    /\ \/ byName # {} /\ byId # {}
                       \/ \E i \in byId : c[i].inNames
                       \/ \E i \in byName : c[i].inIds
    IN CASE conflict -> c
         [] ~conflict /\ byName \union byId = {} ->
              Append(c, [name |-> name, id |-> id, inNames |-> name # NoName,
                         inIds |-> id # NoId, entry |-> id])
         [] OTHER -> [c EXCEPT ![CHOOSE i \in byName \union byId : TRUE].entry = id]

PopulateFile(c) ==
    FoldLeft(LAMBDA acc, e : CacheAdd(acc, e.name, e.id), c, AccountFile)
Populate == PopulateFile(CacheAdd(<<>>, "root", 0))

\* getpwnam() and the like, which read the file as well.
NssAnswer(q) ==
    SelectSeq(AccountFile \o AccountNss,
              LAMBDA e : IF q.byId THEN e.id = q.id ELSE e.name = q.name)

\* A node whose structure has a name other than NULL answers a lookup by id:
\* the name of a node is never NULL, so an id found absent is valid when it
\* is asked for again.
Lookup(c, q) ==
    LET nodes == IF q.byId THEN NodesById(c, q.id) ELSE NodesByName(c, q.name)
        node == c[CHOOSE i \in nodes : TRUE]
        nss == NssAnswer(q)
    IN CASE nodes # {} -> [cache |-> c, asked |-> FALSE,
                           answer |-> IF node.entry = NoId THEN Invalid
                                                           ELSE Valid(node.entry)]
         [] nodes = {} /\ nss # <<>> ->
              [cache |-> CacheAdd(c, nss[1].name, nss[1].id), asked |-> TRUE,
               answer |-> Valid(nss[1].id)]
         [] OTHER -> [cache |-> CacheAdd(c, q.name, q.id), asked |-> TRUE,
                      answer |-> Invalid]

\* Names that do not resolve are skipped, and two names may have one id.
ResolveNames(c, names) ==
    FoldLeft(LAMBDA acc, n :
                LET l == Lookup(acc.cache, ByName(n))
                IN [cache |-> l.cache,
                    ids |-> IF l.answer.valid THEN Append(acc.ids, l.answer.id)
                                              ELSE acc.ids],
             [cache |-> c, ids |-> <<>>], names)

\* What the databases say of a query, without a cache: root is 0 whatever
\* they say, then the first entry of the file, then NSS.
Databases == <<[name |-> "root", id |-> 0]>> \o AccountFile \o AccountNss
Truth(q) ==
    LET found == SelectSeq(Databases,
                     LAMBDA e : IF q.byId THEN e.id = q.id ELSE e.name = q.name)
    IN IF found = <<>> THEN Invalid ELSE Valid(found[1].id)
=============================================================================
