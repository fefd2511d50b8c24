---------------------------- MODULE Authorization ---------------------------
(***************************************************************************)
(* Roles and permissions: the seed that every container runs before it     *)
(* serves, statement by statement, the services that make roles and        *)
(* memberships beside it, and what PermissionsGuard and the services' own  *)
(* check by name make of them.  RolesService, PermissionsService and       *)
(* MembershipsService change nothing, so roles and grants are never        *)
(* removed.                                                                *)
(***************************************************************************)
EXTENDS FiniteSets

CONSTANTS
    Seeder,         \* runs of the seed that may overlap
    Request,        \* slots for requests that create a teacher
    Org, Account,
    NoRole, NoCode

VARIABLES
    permission,     \* the rows of "permissions"
    role,           \* the rows of "roles"
    coded,          \* those of them that have a code
    grant,          \* the rows of "role_permissions"
    member,         \* the role of each account
    seeding, todo,  \* where each run of the seed is, and its loop
    since,          \* (auxiliary) the roles a run found or made
    making          \* where each request is suspended

authVars == <<permission, role, coded, grant, member, seeding, todo, since, making>>
seeds == <<seeding, todo, since>>

----------------------------------------------------------------------------
(* The constants of the seed.  A permission stands for all that the same   *)
(* roles hold, OWNER for ADMIN as well: their lists are equal.             *)

RoleCode == {"OWNER", "TEACHER", "STUDENT"}

SystemRoles ==
    [c \in RoleCode |->
       CASE c = "OWNER" -> {"students:create", "classes:read"}
         [] c = "TEACHER" -> {"classes:read", "attendance:update"}
         [] c = "STUDENT" -> {"classes:read"}]

PermissionSeeds == {"students:create", "classes:read", "attendance:update"}

\* A system role belongs to no organization; nothing but the seed's look keeps
\* a second one of its code out, so its maker tells it from others.  The only
\* role of an organization is the one the teacher services make.
Migration == "migration"
SystemRole == RoleCode \X (Seeder \cup {Migration})
TeacherRole == {"Teacher"} \X Org
Role == SystemRole \cup TeacherRole

CodeOf(x) == IF x \notin coded THEN NoCode ELSE IF x \in TeacherRole THEN "TEACHER" ELSE x[1]

ASSUME AuthorizationAssumption ==
    /\ NoCode \notin RoleCode
    /\ NoRole \notin Role
    /\ Migration \notin Seeder
    /\ {c \in RoleCode : ~(SystemRoles[c] \subseteq PermissionSeeds)} = {}

\* A database without the migration's rows, or with those of a version whose
\* lists were shorter.
AuthInit ==
    /\ permission \in {{}, {"classes:read"}, PermissionSeeds}
    /\ role \in {{}, RoleCode \X {Migration}}
    /\ coded = role
    /\ grant = {x \in role \X permission : x[2] \in SystemRoles[x[1][1]]}
    /\ member = [u \in Account |-> NoRole]
    /\ seeding = [s \in Seeder |-> "idle"]
    /\ todo = [s \in Seeder |-> {}]
    /\ since = [s \in Seeder |-> {}]
    /\ making = [r \in Request |-> NoRole]

----------------------------------------------------------------------------
(* seed-authorization: each statement commits on its own *)

Loop == {"permissions", "backfill", "roles", "grants"}

Items(phase) == IF phase = "permissions" THEN PermissionSeeds ELSE RoleCode

\* (mutant) Roles get their codes last.
After_BackfillLast(phase) ==
    CASE phase = "permissions" -> "roles"
      [] phase = "roles" -> "grants"
      [] phase = "grants" -> "backfill"
      [] phase = "backfill" -> "done"

After(phase) ==
    CASE phase = "permissions" -> "backfill"
      [] phase = "backfill" -> "roles"
      [] phase = "roles" -> "grants"
      [] phase = "grants" -> "done"

SeedStart(s) ==
    /\ seeding[s] \notin Loop \cup {"insert permission", "insert role"}
    /\ seeding' = [seeding EXCEPT ![s] = "permissions"]
    /\ todo' = [todo EXCEPT ![s] = PermissionSeeds]
    /\ since' = [since EXCEPT ![s] = role]
    /\ UNCHANGED <<permission, role, coded, grant, member, making>>

\* The order within a loop is fixed and makes no difference.
Current(s) == CHOOSE x \in todo[s] : TRUE

\* The statement of a loop is done.
Proceed(s, phase) ==
    LET rest == todo[s] \ {Current(s)} IN
    /\ seeding' = [seeding EXCEPT ![s] = IF rest = {} THEN After(phase) ELSE phase]
    /\ todo' = [todo EXCEPT ![s] =
         IF rest # {} THEN rest
         ELSE IF After(phase) = "done" THEN {} ELSE Items(After(phase))]

\* INSERT ... WHERE NOT EXISTS looks first; another run's row that is not yet
\* committed is not seen.
Look(s, phase, there, insert) ==
    /\ seeding[s] = phase
    /\ IF there THEN Proceed(s, phase)
       ELSE seeding' = [seeding EXCEPT ![s] = insert] /\ UNCHANGED todo
    /\ UNCHANGED <<permission, role, coded, grant, member, since, making>>

SeedPermission(s) ==
    Look(s, "permissions", Current(s) \in permission, "insert permission")

\* A second row is refused by the index on the code, which ends the run.
SeedPermissionInsert(s) ==
    /\ seeding[s] = "insert permission"
    /\ Current(s) \notin permission
    /\ permission' = permission \cup {Current(s)}
    /\ Proceed(s, "permissions")
    /\ UNCHANGED <<role, coded, grant, member, since, making>>

\* UPDATE of the roles of organizations that have the name and no code.
SeedBackfill(s) ==
    /\ seeding[s] = "backfill"
    /\ coded' = coded \cup {x \in role : x \in TeacherRole /\ Current(s) = "TEACHER"}
    /\ Proceed(s, "backfill")
    /\ UNCHANGED <<permission, role, grant, member, since, making>>

SeedRole(s) ==
    Look(s, "roles", \E x \in role \cap SystemRole : CodeOf(x) = Current(s), "insert role")

\* UNIQUE (organizationId, code) does not compare rows without organization.
SeedRoleInsert(s) ==
    /\ seeding[s] = "insert role"
    /\ LET x == <<Current(s), s>> IN
         /\ role' = role \cup {x}
         /\ coded' = coded \cup {x}
         /\ since' = [since EXCEPT ![s] = @ \cup {x}]
    /\ Proceed(s, "roles")
    /\ UNCHANGED <<permission, grant, member, making>>

\* Every role that has the code now, times the permissions of its list.
SeedGrants(s) ==
    /\ seeding[s] = "grants"
    /\ grant' = grant \cup
         ({x \in role : CodeOf(x) = Current(s)} \X (SystemRoles[Current(s)] \cap permission))
    /\ Proceed(s, "grants")
    /\ UNCHANGED <<permission, role, coded, member, since, making>>

\* A statement fails or the process dies; the container starts again later.
SeedFail(s) ==
    /\ seeding[s] \notin {"idle", "done", "failed"}
    /\ seeding' = [seeding EXCEPT ![s] = "failed"]
    /\ todo' = [todo EXCEPT ![s] = {}]
    /\ UNCHANGED <<permission, role, coded, grant, member, since, making>>

----------------------------------------------------------------------------
(* Services *)

\* findOrCreateTeacherRole looks for the role by organization and name.
TeacherRoleRead(r, o) ==
    /\ making[r] = NoRole
    /\ making' = [making EXCEPT ![r] = <<"Teacher", o, <<"Teacher", o>> \in role>>]
    /\ UNCHANGED <<permission, role, coded, grant, member, seeds>>

\* The transaction commits a new role, without a code, and the membership; a
\* second role of the name is refused by UNIQUE (organizationId, name).
TeacherCommit(r, u) ==
    /\ making[r] # NoRole
    /\ member[u] = NoRole
    /\ LET x == <<making[r][1], making[r][2]>> IN
         /\ making[r][3] \/ x \notin role
         /\ role' = role \cup {x}
         /\ member' = [member EXCEPT ![u] = x]
    /\ making' = [making EXCEPT ![r] = NoRole]
    /\ UNCHANGED <<permission, coded, grant, seeds>>

TeacherFail(r) ==
    /\ making[r] # NoRole
    /\ making' = [making EXCEPT ![r] = NoRole]
    /\ UNCHANGED <<permission, role, coded, grant, member, seeds>>

\* Registration and the student services take any role that has the code.
Join(u, c) ==
    /\ c \in {"OWNER", "STUDENT"}
    /\ member[u] = NoRole
    /\ \E x \in role : CodeOf(x) = c /\ member' = [member EXCEPT ![u] = x]
    /\ UNCHANGED <<permission, role, coded, grant, seeds, making>>

----------------------------------------------------------------------------
AuthNext ==
    \/ \E s \in Seeder :
         \/ SeedStart(s) \/ SeedPermission(s) \/ SeedPermissionInsert(s)
         \/ SeedBackfill(s) \/ SeedRole(s) \/ SeedRoleInsert(s) \/ SeedGrants(s)
         \/ SeedFail(s)
    \/ \E r \in Request : \/ \E o \in Org : TeacherRoleRead(r, o)
                          \/ \E u \in Account : TeacherCommit(r, u)
                          \/ TeacherFail(r)
    \/ \E u \in Account, c \in RoleCode : Join(u, c)

AuthSpec == AuthInit /\ [][AuthNext]_authVars

----------------------------------------------------------------------------
(* What a request is asked for *)

\* hasPermission, of a membership that is ACTIVE.
HasPermission(u, p) == member[u] # NoRole /\ <<member[u], p>> \in grant

\* assertIsAdminOrOwner: the name of the role contains "owner" or "admin".
\* The names of the system roles are their codes, in another case.
IsManager(u) == member[u] # NoRole /\ member[u][1] = "OWNER"

----------------------------------------------------------------------------
(* Properties *)

\* A run of the seed that comes to its end has served every role that was there
\* when it began or that it made, however other runs overlap it, die halfway or
\* start again, and whatever roles the services add meanwhile: the role has
\* its code and everything on the list of the code.  For the members of such
\* a role the two checks agree: a manager by name is who may create students
\* by permission.
SeedCovers ==
    \A s \in Seeder : seeding[s] = "done" =>
      /\ \A x \in since[s] : x \in coded /\ {x} \X SystemRoles[CodeOf(x)] \subseteq grant
      /\ \A u \in Account : member[u] \in since[s] =>
           (IsManager(u) <=> HasPermission(u, "students:create"))

=============================================================================
