---------------------------- MODULE AccessControl ----------------------------
(***************************************************************************)
(* Which operations the module permits on an object: configuration, what   *)
(* the object supports, and the policies that the user satisfies, resolved *)
(* by ObjectAccessService for every request anew.  Pure definitions.       *)
(***************************************************************************)

CONSTANTS Objects, Schemas

Operations == {"read", "create", "update", "delete"}

Writes == Operations \ {"read"}

\* A table or view, as far as rules can tell: capability is what its structure supports.
Subject == [schema : Schemas, name : Objects, type : {"Table", "View"}, capability : SUBSET Operations]

\* SqlDataManagerOptions, of which readWriteByDefault holds the object types whose default access
\* is ReadWrite, and authorized the operations whose policy the current user satisfies.
Options == [enabled : BOOLEAN,
            deniedSchemas : SUBSET Schemas, allowedSchemas : SUBSET Schemas,
            deniedObjects : SUBSET Objects, allowedObjects : SUBSET Objects,
            readWriteByDefault : SUBSET {"Table", "View"},
            objectPermissions : UNION {[listed -> SUBSET Operations] : listed \in SUBSET Objects},
            crud : SUBSET Writes,
            requireAuthentication : BOOLEAN, authorized : SUBSET Operations]

-----------------------------------------------------------------------------

MutantAllowFirst(x, denied, allowed) == x \in allowed \/ (allowed = {} /\ x \notin denied)

\* A list that is empty admits everything; the deny list is looked at first.
Passes(x, denied, allowed) == x \notin denied /\ (allowed = {} \/ x \in allowed)

PassesSchemaGate(options, schema) == Passes(schema, options.deniedSchemas, options.allowedSchemas)

PassesObjectGate(options, name) == Passes(name, options.deniedObjects, options.allowedObjects)

\* An entry for the object replaces the default for its type as a whole.
Wanted(options, subject) ==
    IF subject.name \in DOMAIN options.objectPermissions
    THEN options.objectPermissions[subject.name]
    ELSE IF subject.type \in options.readWriteByDefault THEN Operations ELSE {"read"}

ResolvePermissions(options, subject) ==
    IF /\ options.enabled
       /\ PassesSchemaGate(options, subject.schema)
       /\ PassesObjectGate(options, subject.name)
    THEN Wanted(options, subject) \cap subject.capability \cap ({"read"} \cup options.crud)
           \cap (IF options.requireAuthentication THEN options.authorized ELSE Operations)
    ELSE {}

\* What the tree is given.
GetVisibleObjects(options, subjects) == {s \in subjects : "read" \in ResolvePermissions(options, s)}

=============================================================================
