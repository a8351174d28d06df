CONSTANTS
    Clients = {t1, t2}
    Registrations = {r1, r2}
    Certificates = {c1, c2}
    Authorizations = {a1, a2}
    Editions = {e1, e2}
    Releases = {d1}
    Feeds = {f1, f2}
    Unlinked = Unlinked
    Blank = Blank
    Absent = Absent
    Untouched = Untouched
SYMMETRY Symmetry
SPECIFICATION Spec
INVARIANTS
    DeleteStaysComplete
    ImportKeepsCommittedLink
    WritesFollowProgress
PROPERTIES
    ImplementsCatalog
