---------------------------- MODULE AtCallsProofs ----------------------------
(***************************************************************************)
(* Proofs about what the log says of a call that names files: the paths    *)
(* (PathsRight), the layout of the record (LayoutRead) and its error       *)
(* (ErrorsTold).  What the exit program will find is settled when the call *)
(* is entered, but for the table of descriptors: as long as no other       *)
(* thread changes that, the kernel and the exit program see the same.      *)
(***************************************************************************)
EXTENDS AtCalls, TLAPS

-----------------------------------------------------------------------------
(* The invariant *)

\* The entry that the enter program leaves.
EntryOf(c, unread) ==
  [family |-> c.family, errors |-> NameErrors(c, unread),
   fds   |-> [k \in DOMAIN c.args |-> c.args[k].fd],
   names |-> [k \in DOMAIN c.args |-> NameRead(c, k, unread)]]

\* The arguments whose names can be unreadable.
Named(c) == {k \in DOMAIN c.args : c.args[k].name # NoName}

\* The kernel acted on what the arguments denote in the table as it is now.
Acted(c, did) ==
  did # <<>> =>
    /\ did = [k \in DOMAIN c.args |-> did[k]]
    /\ \A k \in DOMAIN c.args : did[k] \in Denoted(c, c.args[k])

InCall(c, unread, did, moved) ==
  /\ calling = {[call |-> c, unread |-> unread, did |-> did, moved |-> moved]}
  /\ entry = {EntryOf(c, unread)}
  /\ ~moved => Acted(c, did)

CallOK ==
  \/ calling = {} /\ entry = {}
  \/ \E c \in Calls : \E unread \in SUBSET Named(c), moved \in BOOLEAN : \E did :
       InCall(c, unread, did, moved)

\* The three properties, of one entry of the log.
PathsOK(p) ==
  p.did # <<>> /\ ~p.moved /\ p.unread = {} /\ ~Mixed(p.call) /\ ~NamedEmpty(p.call)
  => p.paths = p.did

LayoutOK(p) == \A k \in DOMAIN p.paths : Outside \notin ToSet(p.paths[k])

ErrorsOK(p) ==
  LET stale == \E k \in DOMAIN p.paths : Stale \in ToSet(p.paths[k])
      fchown == p.call.family = "chown" /\ p.call.args[1].name = NoName
      nothing == p.call.family = "unlink" /\ p.call.args[1].name = <<>>
  IN IF p.call.family = "rename" THEN (p.errors # {}) = (p.unread # {})
     ELSE \/ fchown \/ nothing
          \/ p.call.empty /\ (p.errors # {}) = stale
          \/ ~p.call.empty /\ (p.errors # {}) = (stale \/ p.unread # {})

\* And of what the log last said.
LogOK == \A p \in printed : PathsOK(p) /\ LayoutOK(p) /\ ErrorsOK(p)

AtInv ==
  /\ fds \in [Fds -> Dirs \cup Files \cup {Closed}]
  /\ CallOK
  /\ LogOK

-----------------------------------------------------------------------------
(* Texts *)

LEMMA TextOf ==
  ASSUME NEW S, NEW s \in Seq(S)
  PROVE  ToSet(s) \subseteq S
BY DEF ToSet

\* The path of a descriptor, and whether it could be had.
LEMMA FdPathOf ==
  ASSUME fds \in [Fds -> Dirs \cup Files \cup {Closed}], NEW fd \in Fds
  PROVE  /\ FdPath(fd) \in Seq(Char \cup {Stale})
         /\ (FdErrors(fd) # {}) <=> (fds[fd] = Closed)
         /\ fds[fd] = Closed => FdPath(fd) = <<Stale>>
         /\ fds[fd] # Closed => FdPath(fd) = fds[fd] /\ FdPath(fd) \in Seq(Char)
<1>1. fds[fd] # Closed => fds[fd] \in Seq(Char)
  BY TextAssumption
<1>2. <<Stale>> \in Seq(Char \cup {Stale}) /\ Seq(Char) \subseteq Seq(Char \cup {Stale})
  OBVIOUS
<1> QED
  BY <1>1, <1>2 DEF FdPath, FdErrors

\* Such a path, and a name printed behind it.
LEMMA StaleIn ==
  ASSUME fds \in [Fds -> Dirs \cup Files \cup {Closed}], NEW fd \in Fds,
         NEW name \in Seq(Char)
  PROVE  /\ Outside \notin ToSet(name) /\ Stale \notin ToSet(name)
         /\ Outside \notin ToSet(FdPath(fd))
         /\ Stale \in ToSet(FdPath(fd)) <=> fds[fd] = Closed
         /\ Outside \notin ToSet(Joined(FdPath(fd), name))
         /\ Stale \in ToSet(Joined(FdPath(fd), name)) <=> fds[fd] = Closed /\ name # <<>>
<1> DEFINE path == FdPath(fd)
           text == Joined(path, name)
<1>1. /\ path \in Seq(Char \cup {Stale})
      /\ fds[fd] = Closed => path = <<Stale>>
      /\ fds[fd] # Closed => path \in Seq(Char)
  BY FdPathOf
<1>2. Outside \notin Char \cup {Stale} /\ Stale \notin Char
  BY TextAssumption
<1>3. Outside \notin ToSet(name) /\ Stale \notin ToSet(name)
  BY <1>2, TextOf
<1>4. (text = <<>> /\ name = <<>>) \/ (text = path \o name /\ name # <<>>)
  BY DEF Joined
<1> HIDE DEF path, text
<1>5. path \o name \in Seq(Char \cup {Stale})
  BY <1>1
<1>6. Outside \notin ToSet(path) /\ Outside \notin ToSet(path \o name)
  BY <1>1, <1>2, <1>5, TextOf
<1>7. Outside \notin ToSet(text)
  BY <1>3, <1>4, <1>6
<1>8. CASE fds[fd] = Closed
  <2>1. path = <<Stale>> /\ path[1] = Stale /\ 1 \in DOMAIN path
    BY <1>1, <1>8
  <2>2. 1 \in DOMAIN (path \o name) /\ (path \o name)[1] = Stale
    BY <2>1
  <2>3. Stale \in ToSet(path) /\ Stale \in ToSet(path \o name)
    BY <2>1, <2>2 DEF ToSet
  <2>4. Stale \in ToSet(text) <=> name # <<>>
    BY <1>3, <1>4, <2>3
  <2> QED
    BY <1>3, <1>6, <1>7, <1>8, <2>3, <2>4 DEF path, text
<1>9. CASE fds[fd] # Closed
  <2>1. path \in Seq(Char) /\ path \o name \in Seq(Char)
    BY <1>1, <1>9
  <2>2. Stale \notin ToSet(path) /\ Stale \notin ToSet(path \o name)
    BY <1>2, <2>1, TextOf
  <2>3. Stale \notin ToSet(text)
    BY <1>3, <1>4, <2>2
  <2> QED
    BY <1>3, <1>6, <1>7, <1>9, <2>2, <2>3 DEF path, text
<1> QED
  BY <1>8, <1>9

-----------------------------------------------------------------------------
(* Records, and what is printed of them *)

\* A call with one name.
LEMMA OneName ==
  ASSUME NEW e, NEW slash \in BOOLEAN, e.family \in {"read", "unlink", "chmod", "chown"}
  PROVE  LET r == RecordOf(e, slash)
             name == e.names[1]
             fd == e.fds[1]
             errors == e.errors
         IN
         \/ /\ e.family = "read" \/ (e.family # "unlink" /\ name = <<>>)
            /\ Printed(r) = <<FdPath(fd)>> /\ r.errors = errors \cup FdErrors(fd)
         \/ /\ e.family # "read" /\ Absolute(name)
            /\ Printed(r) = <<name>> /\ r.errors = errors
         \/ /\ e.family # "read" /\ ~Absolute(name) /\ (e.family # "unlink" => name # <<>>)
            /\ Printed(r) = <<Joined(FdPath(fd), name)>> /\ r.errors = errors \cup FdErrors(fd)
<1> DEFINE r == RecordOf(e, slash)
           name == e.names[1]
           fd == e.fds[1]
           errors == e.errors
<1>1. /\ <<"fd">> # <<"absolute">> /\ <<"fd">> # <<"relative">>
      /\ <<"relative">> # <<"absolute">>
  OBVIOUS
<1>2. CASE e.family = "read" \/ (e.family # "unlink" /\ name = <<>>)
  <2>1. r = Record(<<"fd">>, [file |-> FdPath(fd)], FALSE, errors \cup FdErrors(fd))
    BY <1>2 DEF RecordOf, ReadRecord, ChmodRecord
  <2> HIDE DEF r
  <2>2. Printed(r) = <<FdPath(fd)>> /\ r.errors = errors \cup FdErrors(fd)
    BY <1>1, <2>1 DEF Record, Printed, PrintedOne, Text
  <2> QED
    BY <1>2, <2>2 DEF r
<1>3. CASE e.family # "read" /\ (e.family # "unlink" => name # <<>>)
  <2>1. r = UnlinkRecord(e)
    BY <1>3 DEF RecordOf, ChmodRecord
  <2>2. CASE Absolute(name)
    <3>1. r = Record(<<"absolute">>, [filename |-> name], FALSE, errors)
      BY <2>1, <2>2 DEF UnlinkRecord
    <3> HIDE DEF r
    <3>2. Printed(r) = <<name>> /\ r.errors = errors
      BY <1>1, <3>1 DEF Record, Printed, PrintedOne, Text
    <3> QED
      BY <1>3, <2>2, <3>2 DEF r
  <2>3. CASE ~Absolute(name)
    <3>1. r = Record(<<"relative">>, [filename |-> name, dir |-> FdPath(fd)], FALSE,
                     errors \cup FdErrors(fd))
      BY <2>1, <2>3 DEF UnlinkRecord
    <3> HIDE DEF r
    <3>2. Printed(r) = <<Joined(FdPath(fd), name)>> /\ r.errors = errors \cup FdErrors(fd)
      BY <1>1, <3>1 DEF Record, Printed, PrintedOne, Text, Behind
    <3> QED
      BY <1>3, <2>3, <3>2 DEF r
  <2> QED
    BY <2>2, <2>3
<1> QED
  BY <1>2, <1>3

\* A call with two names.
LEMMA TwoNames ==
  ASSUME NEW e, NEW slash \in BOOLEAN, e.family = "rename"
  PROVE  LET r == RecordOf(e, slash)
             f == e.fds[1]
             g == e.fds[2]
             old == e.names[1]
             new == e.names[2]
         IN
         /\ r.errors = e.errors
         /\ \/ /\ Absolute(old) /\ Absolute(new)
               /\ Printed(r) = <<old, new>>
            \/ /\ ~Absolute(old) /\ ~Absolute(new)
               /\ Printed(r) = <<Joined(FdPath(f), old), Joined(FdPath(g), new)>>
            \/ /\ Absolute(old) # Absolute(new)
               /\ \/ Printed(r) = <<Joined(FdPath(f), old), Joined(FdPath(f), new)>>
                  \/ Printed(r) = <<old, Joined(FdPath(g), new)>>
                  \/ Printed(r) = <<Joined(FdPath(f), old), new>>
<1> DEFINE r == RecordOf(e, slash)
           f == e.fds[1]
           g == e.fds[2]
           old == e.names[1]
           new == e.names[2]
           absolute == <<"absolute", "absolute">>
           relative == <<"relative", "relative">>
<1>1. /\ relative # absolute
      /\ absolute[1] = "absolute" /\ absolute[2] = "absolute" /\ Len(absolute) = 2
      /\ relative[1] = "relative" /\ relative[2] = "relative" /\ Len(relative) = 2
  OBVIOUS
<1>2. r = RenameRecord(e, slash) /\ Absolute(old) \in BOOLEAN /\ Absolute(new) \in BOOLEAN
  BY DEF RecordOf, Absolute
<1>3. CASE Absolute(old) /\ Absolute(new)
  <2>1. r = Record(absolute, NamesOnly(e), f = g, e.errors)
    BY <1>2, <1>3 DEF RenameRecord
  <2> HIDE DEF r, absolute
  <2>2. /\ r.types = absolute /\ r.errors = e.errors
        /\ Text(r, "oldname") = old /\ Text(r, "newname") = new
    BY <2>1 DEF Record, NamesOnly, Text
  <2>3. Printed(r) = <<old, new>>
    BY <1>1, <2>2 DEF Printed, PrintedRename, absolute
  <2> QED
    BY <1>3, <2>2, <2>3 DEF r
<1>4. CASE ~Absolute(old) /\ ~Absolute(new) /\ f # g
  <2>1. r = Record(relative, Renameat2Texts(e), FALSE, e.errors)
    BY <1>2, <1>4 DEF RenameRecord
  <2> HIDE DEF r, relative
  <2>2. /\ r.types = relative /\ r.errors = e.errors /\ r.samedir = FALSE
        /\ Text(r, "oldname") = old /\ Text(r, "newname") = new
        /\ Text(r, "olddir") = FdPath(f) /\ Text(r, "newdir") = FdPath(g)
    BY <2>1 DEF Record, Renameat2Texts, Text
  <2> HIDE DEF absolute, f, g, old, new
  <2>3. r.types # absolute /\ Len(r.types) = 2
    BY <1>1, <2>2
  <2>4. Printed(r) = PrintedRename(r)
    BY <2>3 DEF Printed
  <2>5. Printed(r) = <<Joined(FdPath(f), old), Joined(FdPath(g), new)>>
    BY <2>2, <2>3, <2>4 DEF PrintedRename, relative, absolute, Behind
  <2> QED
    BY <1>4, <2>2, <2>5 DEF r, f, g, old, new
<1>5. CASE ~(Absolute(old) /\ Absolute(new)) /\ f = g
  <2>1. r = Record(relative, RenameatTexts(e, f), TRUE, e.errors)
    BY <1>1, <1>2, <1>5 DEF RenameRecord, RenameatTypes
  <2> HIDE DEF r, relative
  <2>2. /\ r.types = relative /\ r.errors = e.errors /\ r.samedir = TRUE
        /\ Text(r, "oldname") = old /\ Text(r, "newname") = new
        /\ Text(r, "dir") = FdPath(f)
    BY <2>1 DEF Record, RenameatTexts, Text
  <2>3. /\ r.types[1] = "relative" /\ r.types[2] = "relative" /\ Len(r.types) = 2
        /\ r.types # absolute
    BY <1>1, <2>2 DEF relative
  <2>4. Printed(r) = PrintedRenameat(r)
    BY <2>2, <2>3 DEF Printed, PrintedRename
  <2>5. Printed(r) = <<Joined(FdPath(f), old), Joined(FdPath(f), new)>>
    BY <2>2, <2>3, <2>4 DEF PrintedRenameat, Behind
  <2> QED
    BY <1>2, <1>5, <2>2, <2>5 DEF r
<1>6. CASE Absolute(old) # Absolute(new) /\ f # g
  <2> DEFINE types == IF slash THEN <<"absolute", "relative">> ELSE <<"relative", "absolute">>
             fd == IF slash THEN g ELSE f
  <2>1. /\ types # absolute /\ types # relative /\ Len(types) = 2
        /\ slash => types[1] = "absolute" /\ types[2] = "relative"
        /\ ~slash => types[1] = "relative" /\ types[2] = "absolute"
    OBVIOUS
  <2>2. r = Record(types, RenameatTexts(e, fd), FALSE, e.errors)
    <3>1. RenameatTypes(e, slash) = types
      BY <1>6 DEF RenameatTypes
    <3>2. (types[1] = "absolute") <=> slash
      BY <2>1
    <3>3. ~(Absolute(old) /\ Absolute(new)) /\ ~(~Absolute(old) /\ ~Absolute(new))
      BY <1>2, <1>6
    <3>4. r = Record(RenameatTypes(e, slash),
                     RenameatTexts(e, IF RenameatTypes(e, slash)[1] = "absolute" THEN g ELSE f),
                     f = g, e.errors)
      BY <1>2, <3>3 DEF RenameRecord
    <3>5. (f = g) = FALSE
      BY <1>6
    <3> HIDE DEF types, f, g, r
    <3> QED
      BY <3>1, <3>2, <3>4, <3>5
  <2> HIDE DEF r, types, fd
  <2>3. /\ r.types = types /\ r.errors = e.errors
        /\ Text(r, "oldname") = old /\ Text(r, "newname") = new
        /\ Text(r, "dir") = FdPath(fd)
    BY <2>2 DEF Record, RenameatTexts, Text
  <2>4. Printed(r) = PrintedRenameat(r)
    BY <2>1, <2>3 DEF Printed, PrintedRename
  <2>5. slash => Printed(r) = <<old, Joined(FdPath(g), new)>>
    BY <2>1, <2>3, <2>4 DEF PrintedRenameat, Behind, fd
  <2>6. ~slash => Printed(r) = <<Joined(FdPath(f), old), new>>
    BY <2>1, <2>3, <2>4 DEF PrintedRenameat, Behind, fd
  <2> QED
    BY <1>6, <2>3, <2>5, <2>6 DEF r
<1> QED
  BY <1>2, <1>3, <1>4, <1>5, <1>6

-----------------------------------------------------------------------------
(* Calls *)

\* A call has one name, which may be none, or it is a rename and has two.
LEMMA CallKinds ==
  ASSUME NEW c \in Calls
  PROVE  \/ \E fd \in Fds, name \in Names \cup {NoName} :
              /\ c.args = <<Arg(fd, name)>>
              /\ c.family \in {"read", "unlink", "chmod", "chown"} /\ c.empty \in BOOLEAN
              /\ c.empty => c.family \in {"chmod", "chown"}
              /\ c.family = "read" => name = NoName
              /\ c.family = "unlink" => name # NoName
              /\ c.family = "chmod" /\ name = NoName => c.empty
         \/ \E f \in Fds, g \in Fds, old \in Names, new \in Names :
              /\ c.args = <<Arg(f, old), Arg(g, new)>>
              /\ c.family = "rename" /\ c.empty = FALSE
<1> DEFINE One(fd, name) ==
             /\ c.args = <<Arg(fd, name)>>
             /\ c.family \in {"read", "unlink", "chmod", "chown"} /\ c.empty \in BOOLEAN
             /\ c.empty => c.family \in {"chmod", "chown"}
             /\ c.family = "read" => name = NoName
             /\ c.family = "unlink" => name # NoName
             /\ c.family = "chmod" /\ name = NoName => c.empty
           Two(f, g, old, new) ==
             /\ c.args = <<Arg(f, old), Arg(g, new)>>
             /\ c.family = "rename" /\ c.empty = FALSE
<1>2. ASSUME NEW fd \in Fds, c = Call("read", <<Arg(fd, NoName)>>, FALSE)
      PROVE  One(fd, NoName)
  BY <1>2 DEF Call
<1>3. ASSUME NEW fd \in Fds, NEW name \in Names, c = Call("unlink", <<Arg(fd, name)>>, FALSE)
      PROVE  One(fd, name)
  BY <1>3, TextAssumption DEF Call
<1>4. ASSUME NEW fam \in {"chmod", "chown"}, NEW fd \in Fds, NEW name \in Names,
             NEW e \in BOOLEAN, c = Call(fam, <<Arg(fd, name)>>, e)
      PROVE  One(fd, name)
  <2>1. c.family = fam /\ c.args = <<Arg(fd, name)>> /\ c.empty = e
    BY <1>4 DEF Call
  <2> QED
    BY <2>1, TextAssumption
<1>5. ASSUME NEW fd \in Fds, c = Call("chmod", <<Arg(fd, NoName)>>, TRUE)
      PROVE  One(fd, NoName)
  BY <1>5 DEF Call
<1>6. ASSUME NEW fd \in Fds, c = Call("chown", <<Arg(fd, NoName)>>, FALSE)
      PROVE  One(fd, NoName)
  BY <1>6 DEF Call
<1>7. ASSUME NEW f \in Fds, NEW g \in Fds, NEW old \in Names, NEW new \in Names,
             c = Call("rename", <<Arg(f, old), Arg(g, new)>>, FALSE)
      PROVE  Two(f, g, old, new)
  BY <1>7 DEF Call
<1> HIDE DEF One, Two
<1> DEFINE at == {Arg(fd, name) : fd \in Fds, name \in Names}
           open == {Arg(fd, NoName) : fd \in Fds \ {Cwd}}
<1>8. /\ \A x \in at : \E fd \in Fds, name \in Names : x = Arg(fd, name)
      /\ \A x \in open : \E fd \in Fds : x = Arg(fd, NoName)
  OBVIOUS
<1> DEFINE Rename(x, y) == Call("rename", <<x, y>>, FALSE)
           read == {Call("read", <<x>>, FALSE) : x \in open}
           unlink == {Call("unlink", <<x>>, FALSE) : x \in at}
           change == {Call(f, <<x>>, e) : f \in {"chmod", "chown"}, x \in at, e \in BOOLEAN}
           fchmod == {Call("chmod", <<x>>, TRUE) : x \in open}
           fchown == {Call("chown", <<x>>, FALSE) : x \in open}
           rename == {Rename(x, y) : x \in at, y \in at}
<1>9. Calls = read \cup unlink \cup change \cup fchmod \cup fchown \cup rename
  BY DEF Calls
<1> DEFINE Goal ==
             \/ \E fd \in Fds, name \in Names \cup {NoName} : One(fd, name)
             \/ \E f \in Fds, g \in Fds, old \in Names, new \in Names : Two(f, g, old, new)
<1> SUFFICES Goal
  BY DEF One, Two
<1> HIDE DEF at, open
<1>10. CASE c \in read
  <2>1. PICK x \in open : c = Call("read", <<x>>, FALSE)
    BY <1>10
  <2>2. PICK fd \in Fds : x = Arg(fd, NoName)
    BY <1>8
  <2> QED
    BY <1>2, <2>1, <2>2
<1>11. CASE c \in unlink
  <2>1. PICK x \in at : c = Call("unlink", <<x>>, FALSE)
    BY <1>11
  <2>2. PICK fd \in Fds, name \in Names : x = Arg(fd, name)
    BY <1>8
  <2> QED
    BY <1>3, <2>1, <2>2
<1>12. CASE c \in change
  <2>1. PICK fam \in {"chmod", "chown"}, x \in at, e \in BOOLEAN : c = Call(fam, <<x>>, e)
    BY <1>12
  <2>2. PICK fd \in Fds, name \in Names : x = Arg(fd, name)
    BY <1>8
  <2> QED
    BY <1>4, <2>1, <2>2
<1>13. CASE c \in fchmod
  <2>1. PICK x \in open : c = Call("chmod", <<x>>, TRUE)
    BY <1>13
  <2>2. PICK fd \in Fds : x = Arg(fd, NoName)
    BY <1>8
  <2> QED
    BY <1>5, <2>1, <2>2
<1>14. CASE c \in fchown
  <2>1. PICK x \in open : c = Call("chown", <<x>>, FALSE)
    BY <1>14
  <2>2. PICK fd \in Fds : x = Arg(fd, NoName)
    BY <1>8
  <2> QED
    BY <1>6, <2>1, <2>2
<1>15. CASE c \in rename
  <2> HIDE DEF Rename
  <2>1. PICK x \in at, y \in at : c = Rename(x, y)
    BY <1>15
  <2>2. PICK f \in Fds, old \in Names : x = Arg(f, old)
    BY <1>8
  <2>3. PICK g \in Fds, new \in Names : y = Arg(g, new)
    BY <1>8
  <2> QED
    BY <1>7, <2>1, <2>2, <2>3 DEF Rename
<1> HIDE DEF read, unlink, change, fchmod, fchown, rename, Goal
<1> QED
  BY <1>9, <1>10, <1>11, <1>12, <1>13, <1>14, <1>15

\* What the kernel acted on was one path or two.
LEMMA ActedOn ==
  ASSUME NEW c, NEW did, did # <<>>, Acted(c, did)
  PROVE  /\ \A a : c.args = <<a>> => did = <<did[1]>> /\ did[1] \in Denoted(c, a)
         /\ \A a, b : c.args = <<a, b>> =>
              /\ did = <<did[1], did[2]>>
              /\ did[1] \in Denoted(c, a) /\ did[2] \in Denoted(c, b)
<1>1. /\ did = [k \in DOMAIN c.args |-> did[k]]
      /\ \A k \in DOMAIN c.args : did[k] \in Denoted(c, c.args[k])
  BY DEF Acted
<1>2. ASSUME NEW a, c.args = <<a>>
      PROVE  did = <<did[1]>> /\ did[1] \in Denoted(c, a)
  <2>1. DOMAIN c.args = 1..1 /\ c.args[1] = a
    BY <1>2
  <2>2. did = [k \in 1..1 |-> did[k]] /\ did[1] \in Denoted(c, a)
    BY <1>1, <2>1
  <2>3. [k \in 1..1 |-> did[k]] = <<did[1]>>
    OBVIOUS
  <2> QED
    BY <2>2, <2>3
<1>3. ASSUME NEW a, NEW b, c.args = <<a, b>>
      PROVE  /\ did = <<did[1], did[2]>>
             /\ did[1] \in Denoted(c, a) /\ did[2] \in Denoted(c, b)
  <2>1. DOMAIN c.args = 1..2 /\ c.args[1] = a /\ c.args[2] = b
    BY <1>3
  <2>2. did = [k \in 1..2 |-> did[k]] /\ did[1] \in Denoted(c, a) /\ did[2] \in Denoted(c, b)
    BY <1>1, <2>1
  <2>3. [k \in 1..2 |-> did[k]] = <<did[1], did[2]>>
    OBVIOUS
  <2> QED
    BY <2>2, <2>3
<1> QED
  BY <1>2, <1>3

-----------------------------------------------------------------------------
(* Being in a call *)

\* What of a call stays in the log, and what the callback makes of it.
Log(c, unread, did, moved, r) ==
  [call |-> c, unread |-> unread, did |-> did, moved |-> moved,
   paths |-> Printed(r), errors |-> r.errors]

\* The record of a call with one name: it is the descriptor's path, the name,
\* or the one behind the other, and so is what the kernel acts on.
LEMMA LoggedOne ==
  ASSUME fds \in [Fds -> Dirs \cup Files \cup {Closed}],
         NEW c, NEW fd \in Fds, NEW name \in Names \cup {NoName},
         c.args = <<Arg(fd, name)>>,
         c.family \in {"read", "unlink", "chmod", "chown"}, c.empty \in BOOLEAN,
         c.empty => c.family \in {"chmod", "chown"},
         c.family = "read" => name = NoName,
         c.family = "unlink" => name # NoName,
         c.family = "chmod" /\ name = NoName => c.empty,
         NEW unread \in SUBSET Named(c), NEW did, NEW moved \in BOOLEAN,
         NEW slash \in BOOLEAN, ~moved => Acted(c, did)
  PROVE  LET p == Log(c, unread, did, moved, RecordOf(EntryOf(c, unread), slash)) IN
         PathsOK(p) /\ LayoutOK(p) /\ ErrorsOK(p)
<1> DEFINE e == EntryOf(c, unread)
           r == RecordOf(e, slash)
           read == NameRead(c, 1, unread)
           errors == NameErrors(c, unread)
           p == Log(c, unread, did, moved, r)
<1>1. /\ c.args[1] = Arg(fd, name) /\ DOMAIN c.args = 1..1
      /\ c.args[1].fd = fd /\ c.args[1].name = name
  BY DEF Arg
<1>2. e.family = c.family /\ e.names[1] = read /\ e.fds[1] = fd /\ e.errors = errors
  BY <1>1 DEF EntryOf
<1>3. /\ name # NoName => name \in Seq(Char)
      /\ <<>> \in Seq(Char) /\ read \in Seq(Char)
  BY <1>1, TextAssumption DEF NameRead
<1>4. unread \subseteq {1} /\ (name = NoName => unread = {})
  BY <1>1 DEF Named
<1>5. 1 \in unread <=> unread # {}
  BY <1>4
\* What the enter program kept.
<1>6. /\ c.family = "read" \/ c.empty => read = <<>> /\ errors = {}
      /\ c.family # "read" /\ ~c.empty =>
           /\ errors # {} <=> name = NoName \/ unread # {}
           /\ read = IF name = NoName \/ unread # {} THEN <<>> ELSE name
  <2>1. CASE c.family = "read" \/ c.empty
    BY <1>1, <2>1 DEF NameRead, NameErrors
  <2>2. CASE c.family # "read" /\ ~c.empty
    <3>1. read = IF name = NoName \/ unread # {} THEN <<>> ELSE name
      BY <1>1, <1>5, <2>2 DEF NameRead
    <3>2. errors = {"filename" : k \in {k \in DOMAIN c.args :
                                          c.args[k].name = NoName \/ k \in unread}}
      BY <2>2 DEF NameErrors
    <3>3. errors # {} <=> name = NoName \/ unread # {}
      BY <1>1, <1>5, <3>2
    <3> QED
      BY <2>2, <3>1, <3>3
  <2> QED
    BY <2>1, <2>2
<1>7. p = [call |-> c, unread |-> unread, did |-> did, moved |-> moved,
           paths |-> Printed(r), errors |-> r.errors]
  BY DEF Log
<1> DEFINE fdOnly == c.family = "read" \/ (c.family # "unlink" /\ read = <<>>)
           stale == fds[fd] = Closed
<1>8. \/ /\ fdOnly /\ p.paths = <<FdPath(fd)>> /\ p.errors = errors \cup FdErrors(fd)
      \/ /\ c.family # "read" /\ Absolute(read)
         /\ p.paths = <<read>> /\ p.errors = errors
      \/ /\ c.family # "read" /\ ~Absolute(read) /\ (c.family # "unlink" => read # <<>>)
         /\ p.paths = <<Joined(FdPath(fd), read)>> /\ p.errors = errors \cup FdErrors(fd)
  <2>1. e.family \in {"read", "unlink", "chmod", "chown"}
    BY <1>2
  <2>2. p.paths = Printed(r) /\ p.errors = r.errors
    BY <1>7
  <2> HIDE DEF e, read, errors, p
  <2>3. \/ /\ e.family = "read" \/ (e.family # "unlink" /\ e.names[1] = <<>>)
           /\ Printed(r) = <<FdPath(e.fds[1])>> /\ r.errors = e.errors \cup FdErrors(e.fds[1])
        \/ /\ e.family # "read" /\ Absolute(e.names[1])
           /\ Printed(r) = <<e.names[1]>> /\ r.errors = e.errors
        \/ /\ e.family # "read" /\ ~Absolute(e.names[1])
           /\ e.family # "unlink" => e.names[1] # <<>>
           /\ Printed(r) = <<Joined(FdPath(e.fds[1]), e.names[1])>>
           /\ r.errors = e.errors \cup FdErrors(e.fds[1])
    BY <2>1, OneName
  <2> HIDE DEF r
  <2> QED
    BY <1>2, <2>2, <2>3
<1>9. /\ p.did = did /\ p.moved = moved /\ p.unread = unread /\ p.call = c
  BY <1>7
<1>10. FdErrors(fd) # {} <=> stale
  BY FdPathOf
<1>11. /\ Outside \notin ToSet(read) /\ Stale \notin ToSet(read)
       /\ Outside \notin ToSet(FdPath(fd)) /\ Outside \notin ToSet(Joined(FdPath(fd), read))
       /\ Stale \in ToSet(FdPath(fd)) <=> stale
       /\ Stale \in ToSet(Joined(FdPath(fd), read)) <=> stale /\ read # <<>>
  BY <1>3, StaleIn
<1> HIDE DEF p, r, e, read, errors
<1>12. LayoutOK(p)
  <2>1. PICK text : p.paths = <<text>> /\ Outside \notin ToSet(text)
    BY <1>8, <1>11
  <2> QED
    BY <2>1 DEF LayoutOK
<1>13. ErrorsOK(p)
  <2>0. CASE c.family = "unlink" /\ read = <<>>
    <3>1. name = <<>> \/ unread # {}
      BY <1>6, <2>0
    <3>2. unread # {} => errors # {} /\ ~c.empty
      BY <1>6, <2>0
    <3>3. errors \subseteq p.errors
      BY <1>8
    <3>4. p.call.args[1].name = name
      BY <1>1, <1>9
    <3> QED
      BY <1>9, <2>0, <3>1, <3>2, <3>3, <3>4 DEF ErrorsOK
  <2> SUFFICES ASSUME c.family # "unlink" \/ read # <<>>
               PROVE  ErrorsOK(p)
    BY <2>0
  <2>1. PICK text :
          /\ p.paths = <<text>>
          /\ \/ /\ text = FdPath(fd) \/ (text = Joined(FdPath(fd), read) /\ read # <<>>)
                /\ p.errors = errors \cup FdErrors(fd)
             \/ text = read /\ p.errors = errors
    BY <1>8
  <2>2. (\E k \in DOMAIN p.paths : Stale \in ToSet(p.paths[k])) <=> Stale \in ToSet(text)
    BY <2>1
  <2>3. /\ Stale \in ToSet(text) => stale
        /\ p.errors # {} <=> errors # {} \/ Stale \in ToSet(text)
    BY <1>10, <1>11, <2>1
  <2>4. p.call.args[1].name = name
    BY <1>1, <1>9
  <2>5. CASE c.empty
    BY <1>6, <1>9, <2>2, <2>3, <2>5 DEF ErrorsOK
  <2>6. CASE ~c.empty /\ c.family = "read"
    BY <1>4, <1>6, <1>9, <2>2, <2>3, <2>6 DEF ErrorsOK
  <2>7. CASE ~c.empty /\ c.family # "read"
    BY <1>6, <1>9, <2>2, <2>3, <2>4, <2>7 DEF ErrorsOK
  <2> QED
    BY <2>5, <2>6, <2>7
<1>14. PathsOK(p)
  <2> SUFFICES ASSUME did # <<>>, ~moved, unread = {}, ~NamedEmpty(c)
               PROVE  p.paths = did
    BY <1>9 DEF PathsOK
  <2>1. did = <<did[1]>> /\ did[1] \in Denoted(c, Arg(fd, name))
    BY ActedOn
  <2>2. Arg(fd, name).fd = fd /\ Arg(fd, name).name = name
    BY DEF Arg
  <2>3. c.empty => name \in {NoName, <<>>}
    BY <1>1 DEF NamedEmpty
  <2>4. CASE name = NoName
    <3>1. did[1] = fds[fd] /\ fds[fd] # Closed
      BY <2>1, <2>2, <2>4 DEF Denoted
    <3>2. read = <<>> /\ ~Absolute(read) /\ c.family # "unlink"
      BY <1>6, <2>4 DEF Absolute
    <3>3. p.paths = <<FdPath(fd)>>
      BY <1>8, <3>2
    <3> QED
      BY <2>1, <3>1, <3>3, FdPathOf
  <2>5. CASE name # NoName /\ name = <<>>
    <3>1. c.empty /\ did[1] = fds[fd] /\ fds[fd] # Closed
      BY <2>1, <2>2, <2>5 DEF Denoted
    <3>2. read = <<>> /\ ~Absolute(read) /\ c.family # "unlink"
      BY <1>6, <3>1 DEF Absolute
    <3>3. p.paths = <<FdPath(fd)>>
      BY <1>8, <3>2
    <3> QED
      BY <2>1, <3>1, <3>3, FdPathOf
  <2>6. CASE name # NoName /\ name # <<>>
    <3>1. ~c.empty /\ c.family # "read" /\ read = name
      BY <1>6, <2>3, <2>6
    <3>2. CASE Absolute(name)
      <4>1. did[1] = name
        BY <2>1, <2>2, <2>6, <3>2 DEF Denoted
      <4> QED
        BY <1>8, <2>1, <2>6, <3>1, <3>2, <4>1
    <3>3. CASE ~Absolute(name)
      <4>1. fds[fd] \in Dirs /\ did[1] = fds[fd] \o name
        BY <2>1, <2>2, <2>6, <3>3 DEF Denoted
      <4>2. FdPath(fd) = fds[fd]
        BY <4>1, FdPathOf, TextAssumption
      <4>3. p.paths = <<Joined(FdPath(fd), name)>>
        BY <1>8, <2>6, <3>1, <3>3
      <4>4. Joined(FdPath(fd), name) = FdPath(fd) \o name
        BY <2>6 DEF Joined
      <4> QED
        BY <2>1, <4>1, <4>2, <4>3, <4>4
    <3> QED
      BY <3>2, <3>3
  <2> QED
    BY <2>4, <2>5, <2>6
<1> QED
  BY <1>12, <1>13, <1>14 DEF p, r, e

\* The record of a rename.
LEMMA LoggedTwo ==
  ASSUME fds \in [Fds -> Dirs \cup Files \cup {Closed}],
         NEW c, NEW f \in Fds, NEW g \in Fds, NEW old \in Names, NEW new \in Names,
         c.args = <<Arg(f, old), Arg(g, new)>>, c.family = "rename", c.empty = FALSE,
         NEW unread \in SUBSET Named(c), NEW did, NEW moved \in BOOLEAN,
         NEW slash \in BOOLEAN, ~moved => Acted(c, did)
  PROVE  LET p == Log(c, unread, did, moved, RecordOf(EntryOf(c, unread), slash)) IN
         PathsOK(p) /\ LayoutOK(p) /\ ErrorsOK(p)
<1> DEFINE e == EntryOf(c, unread)
           r == RecordOf(e, slash)
           read1 == NameRead(c, 1, unread)
           read2 == NameRead(c, 2, unread)
           p == Log(c, unread, did, moved, r)
<1>1. /\ c.args[1] = Arg(f, old) /\ c.args[2] = Arg(g, new) /\ DOMAIN c.args = 1..2
      /\ c.args[1].fd = f /\ c.args[1].name = old
      /\ c.args[2].fd = g /\ c.args[2].name = new
  BY DEF Arg
<1>2. /\ e.family = "rename" /\ e.errors = NameErrors(c, unread)
      /\ e.names[1] = read1 /\ e.fds[1] = f
      /\ e.names[2] = read2 /\ e.fds[2] = g
  BY <1>1 DEF EntryOf
<1>3. /\ old \in Seq(Char) /\ new \in Seq(Char) /\ <<>> \in Seq(Char)
      /\ old # NoName /\ new # NoName
  BY TextAssumption
<1>4. unread \subseteq 1..2
  BY <1>1 DEF Named
<1>5. /\ read1 \in Seq(Char) /\ read2 \in Seq(Char)
      /\ unread = {} => read1 = old /\ read2 = new
  BY <1>1, <1>3 DEF NameRead
<1>6. NameErrors(c, unread) # {} <=> unread # {}
  <2>1. NameErrors(c, unread) =
          {"filename" : k \in {k \in DOMAIN c.args :
                                 c.args[k].name = NoName \/ k \in unread}}
    BY DEF NameErrors
  <2>2. \A k : k \in DOMAIN c.args /\ (c.args[k].name = NoName \/ k \in unread)
                <=> k \in unread
    <3>1. \A k \in 1..2 : k = 1 \/ k = 2
      OBVIOUS
    <3> QED
      BY <1>1, <1>3, <1>4, <3>1
  <2> QED
    BY <2>1, <2>2
<1>7. /\ p.paths = Printed(r) /\ p.errors = r.errors
      /\ p.did = did /\ p.moved = moved /\ p.unread = unread /\ p.call = c
  BY DEF Log
<1>8. /\ r.errors = NameErrors(c, unread)
      /\ \/ /\ Absolute(read1) /\ Absolute(read2)
            /\ Printed(r) = <<read1, read2>>
         \/ /\ ~Absolute(read1) /\ ~Absolute(read2)
            /\ Printed(r) = <<Joined(FdPath(f), read1), Joined(FdPath(g), read2)>>
         \/ /\ Absolute(read1) # Absolute(read2)
            /\ \/ Printed(r) = <<Joined(FdPath(f), read1), Joined(FdPath(f), read2)>>
               \/ Printed(r) = <<read1, Joined(FdPath(g), read2)>>
               \/ Printed(r) = <<Joined(FdPath(f), read1), read2>>
  <2> HIDE DEF e, read1, read2, p
  <2>1. /\ r.errors = e.errors
        /\ \/ /\ Absolute(e.names[1]) /\ Absolute(e.names[2])
              /\ Printed(r) = <<e.names[1], e.names[2]>>
           \/ /\ ~Absolute(e.names[1]) /\ ~Absolute(e.names[2])
              /\ Printed(r) = <<Joined(FdPath(e.fds[1]), e.names[1]),
                                Joined(FdPath(e.fds[2]), e.names[2])>>
           \/ /\ Absolute(e.names[1]) # Absolute(e.names[2])
              /\ \/ Printed(r) =
                      <<Joined(FdPath(e.fds[1]), e.names[1]), Joined(FdPath(e.fds[1]), e.names[2])>>
                 \/ Printed(r) = <<e.names[1], Joined(FdPath(e.fds[2]), e.names[2])>>
                 \/ Printed(r) = <<Joined(FdPath(e.fds[1]), e.names[1]), e.names[2]>>
    BY <1>2, TwoNames
  <2> HIDE DEF r
  <2> QED
    BY <1>2, <2>1
<1> HIDE DEF p, r, e, read1, read2
<1>9. LayoutOK(p)
  <2>1. /\ Outside \notin ToSet(read1) /\ Outside \notin ToSet(read2)
        /\ Outside \notin ToSet(Joined(FdPath(f), read1))
        /\ Outside \notin ToSet(Joined(FdPath(g), read2))
        /\ Outside \notin ToSet(Joined(FdPath(f), read2))
    BY <1>5, StaleIn
  <2>2. PICK s, t : /\ p.paths = <<s, t>>
                    /\ Outside \notin ToSet(s) /\ Outside \notin ToSet(t)
    BY <1>7, <1>8, <2>1
  <2> QED
    BY <2>2 DEF LayoutOK
<1>10. ErrorsOK(p)
  BY <1>6, <1>7, <1>8 DEF ErrorsOK
<1>11. PathsOK(p)
  <2> SUFFICES ASSUME did # <<>>, ~moved, unread = {}, ~Mixed(c)
               PROVE  p.paths = did
    BY <1>7 DEF PathsOK
  <2>1. /\ did = <<did[1], did[2]>>
        /\ did[1] \in Denoted(c, Arg(f, old)) /\ did[2] \in Denoted(c, Arg(g, new))
    BY ActedOn
  <2>2. ASSUME NEW fd \in Fds, NEW name \in Names, NEW text \in Denoted(c, Arg(fd, name))
        PROVE  /\ Absolute(name) => text = name
               /\ ~Absolute(name) => text = Joined(FdPath(fd), name)
    <3>1. Arg(fd, name).fd = fd /\ Arg(fd, name).name = name
      BY DEF Arg
    <3>2. name # NoName /\ name # <<>>
      BY <2>2, <3>1, TextAssumption DEF Denoted
    <3>3. CASE Absolute(name)
      BY <2>2, <3>1, <3>2, <3>3 DEF Denoted
    <3>4. CASE ~Absolute(name)
      <4>1. fds[fd] \in Dirs /\ text = fds[fd] \o name
        BY <2>2, <3>1, <3>2, <3>4 DEF Denoted
      <4>2. FdPath(fd) = fds[fd]
        BY <4>1, FdPathOf, TextAssumption
      <4> QED
        BY <3>2, <3>4, <4>1, <4>2 DEF Joined
    <3> QED
      BY <3>3, <3>4
  <2>3. Absolute(old) = Absolute(new) /\ read1 = old /\ read2 = new
    BY <1>1, <1>5 DEF Mixed
  <2>4. CASE Absolute(old)
    <3>1. did[1] = old /\ did[2] = new /\ Absolute(new)
      BY <2>1, <2>2, <2>3, <2>4
    <3>2. p.paths = <<old, new>>
      BY <1>7, <1>8, <2>3, <2>4, <3>1
    <3> QED
      BY <2>1, <3>1, <3>2
  <2>5. CASE ~Absolute(old)
    <3>1. ~Absolute(new)
      BY <2>3, <2>5 DEF Absolute
    <3>2. did[1] = Joined(FdPath(f), old) /\ did[2] = Joined(FdPath(g), new)
      BY <2>1, <2>2, <2>5, <3>1
    <3>3. p.paths = <<Joined(FdPath(f), old), Joined(FdPath(g), new)>>
      BY <1>7, <1>8, <2>3, <2>5, <3>1
    <3> QED
      BY <2>1, <3>2, <3>3
  <2> QED
    BY <2>4, <2>5
<1> QED
  BY <1>9, <1>10, <1>11 DEF p, r, e

-----------------------------------------------------------------------------
(* The steps *)

LEMMA LogOKIs == LogOK <=> PathsRight /\ LayoutRead /\ ErrorsTold
BY Zenon DEF LogOK, PathsRight, LayoutRead, ErrorsTold, PathsOK, LayoutOK, ErrorsOK

LEMMA EnterKeeps ==
  ASSUME AtInv, NEW c \in Calls, NEW unread \in SUBSET Named(c), Enter(c, unread)
  PROVE  AtInv'
<1>1. fds' = fds /\ printed' = {}
  BY DEF Enter
<1>2. LogOK'
  BY <1>1 DEF LogOK
<1>3. InCall(c, unread, <<>>, FALSE)'
  BY DEF Enter, InCall, EntryOf, Acted
<1>4. CallOK'
  BY <1>3 DEF CallOK
<1> QED
  BY <1>1, <1>2, <1>4 DEF AtInv

LEMMA ActKeeps ==
  ASSUME AtInv, Act
  PROVE  AtInv'
<1>1. fds' = fds /\ printed' = printed /\ entry' = entry
  BY DEF Act
<1>2. PICK now \in calling :
        \E did \in [DOMAIN now.call.args ->
                      UNION {Denoted(now.call, now.call.args[k]) : k \in DOMAIN now.call.args}] :
          /\ \A k \in DOMAIN now.call.args : did[k] \in Denoted(now.call, now.call.args[k])
          /\ calling' = {[now EXCEPT !.did = did]}
  BY Zenon DEF Act
<1>c. PICK c \in Calls : \E unread \in SUBSET Named(c), moved \in BOOLEAN : \E did :
        InCall(c, unread, did, moved)
  BY <1>2 DEF AtInv, CallOK
<1>d. PICK unread \in SUBSET Named(c), moved \in BOOLEAN : \E did :
        InCall(c, unread, did, moved)
  BY <1>c
<1>3. PICK old : InCall(c, unread, old, moved)
  BY <1>d
<1>4. now = [call |-> c, unread |-> unread, did |-> old, moved |-> moved]
  BY <1>2, <1>3 DEF InCall
<1>5. now.call = c
  BY <1>4
<1>6. PICK did : /\ did \in [DOMAIN c.args -> UNION {Denoted(c, c.args[k]) : k \in DOMAIN c.args}]
                 /\ \A k \in DOMAIN c.args : did[k] \in Denoted(c, c.args[k])
                 /\ calling' = {[now EXCEPT !.did = did]}
  BY <1>2, <1>5
<1>7. [now EXCEPT !.did = did] = [call |-> c, unread |-> unread, did |-> did, moved |-> moved]
  BY <1>4
<1>8. did = [k \in DOMAIN c.args |-> did[k]]
  BY <1>6
<1>9. \A k \in DOMAIN c.args : Denoted(c, c.args[k])' = Denoted(c, c.args[k])
  BY <1>1 DEF Denoted
<1>10. Acted(c, did)'
  BY <1>6, <1>8, <1>9 DEF Acted
<1>11. InCall(c, unread, did, moved)'
  BY <1>1, <1>3, <1>6, <1>7, <1>10 DEF InCall
<1>12. CallOK'
  BY <1>11 DEF CallOK
<1>13. LogOK'
  BY <1>1 DEF AtInv, LogOK
<1> QED
  BY <1>1, <1>12, <1>13 DEF AtInv

LEMMA MovedIs ==
  ASSUME NEW c, NEW unread, NEW did, NEW before, NEW after, NEW now,
         now = [call |-> c, unread |-> unread, did |-> did, moved |-> before]
  PROVE  [now EXCEPT !.moved = after]
           = [call |-> c, unread |-> unread, did |-> did, moved |-> after]
OBVIOUS

LEMMA MoveKeeps ==
  ASSUME AtInv, NEW fd \in Fds, NEW at \in Dirs \cup Files \cup {Closed}, Move(fd, at)
  PROVE  AtInv'
<1>1. /\ printed' = printed /\ entry' = entry
      /\ fds' \in [Fds -> Dirs \cup Files \cup {Closed}]
  BY DEF Move, AtInv
<1>2. calling' = {[now EXCEPT !.moved = TRUE] : now \in calling}
  BY DEF Move
<1>3. calling = {} /\ entry = {} => CallOK'
  BY <1>1, <1>2 DEF CallOK
<1>4. ASSUME NEW c \in Calls, NEW unread \in SUBSET Named(c), NEW did, NEW moved \in BOOLEAN,
             InCall(c, unread, did, moved)
      PROVE  CallOK'
  <2>0. PICK now : now = [call |-> c, unread |-> unread, did |-> did, moved |-> moved]
    OBVIOUS
  <2>1. [now EXCEPT !.moved = TRUE] =
          [call |-> c, unread |-> unread, did |-> did, moved |-> TRUE]
    <3> DEFINE before == moved
               after == TRUE
    <3>1. now = [call |-> c, unread |-> unread, did |-> did, moved |-> before]
      BY <2>0
    <3> HIDE DEF before, after
    <3>2. [now EXCEPT !.moved = after] =
            [call |-> c, unread |-> unread, did |-> did, moved |-> after]
      BY <3>1, MovedIs
    <3> QED
      BY <3>2 DEF after
  <2>2. calling = {now}
    BY <1>4, <2>0 DEF InCall
  <2>3. calling' = {[now EXCEPT !.moved = TRUE]}
    BY <1>2, <2>2
  <2>4. InCall(c, unread, did, TRUE)'
    BY <1>1, <1>4, <2>1, <2>3 DEF InCall
  <2> QED
    BY <2>4 DEF CallOK
<1>5. CallOK'
  BY <1>3, <1>4 DEF AtInv, CallOK
<1>6. LogOK'
  BY <1>1 DEF AtInv, LogOK
<1> QED
  BY <1>1, <1>5, <1>6 DEF AtInv

LEMMA ExitKeeps ==
  ASSUME AtInv, NEW slash \in BOOLEAN, NEW room \in BOOLEAN, Exit(slash, room)
  PROVE  AtInv'
<1>1. fds' = fds /\ calling' = {} /\ entry' = {}
  BY DEF Exit
<1>2. PICK now \in calling, e \in entry :
        printed' = IF room
                   THEN {[call |-> now.call, unread |-> now.unread, did |-> now.did,
                          moved |-> now.moved, paths |-> Printed(RecordOf(e, slash)),
                          errors |-> RecordOf(e, slash).errors]}
                   ELSE {}
  BY Zenon DEF Exit
<1>c. PICK c \in Calls : \E unread \in SUBSET Named(c), moved \in BOOLEAN : \E did :
        InCall(c, unread, did, moved)
  BY <1>2 DEF AtInv, CallOK
<1>d. PICK unread \in SUBSET Named(c), moved \in BOOLEAN : \E did :
        InCall(c, unread, did, moved)
  BY <1>c
<1>3. PICK did : InCall(c, unread, did, moved)
  BY <1>d
<1>4. /\ now = [call |-> c, unread |-> unread, did |-> did, moved |-> moved]
      /\ e = EntryOf(c, unread)
      /\ ~moved => Acted(c, did)
  BY <1>2, <1>3 DEF InCall
<1> DEFINE p == Log(c, unread, did, moved, RecordOf(EntryOf(c, unread), slash))
<1>5. printed' \subseteq {p}
  BY <1>2, <1>4 DEF Log
<1>6. PathsOK(p) /\ LayoutOK(p) /\ ErrorsOK(p)
  <2>1. fds \in [Fds -> Dirs \cup Files \cup {Closed}]
    BY DEF AtInv
  <2>2. CASE \E fd \in Fds, name \in Names \cup {NoName} :
               /\ c.args = <<Arg(fd, name)>>
               /\ c.family \in {"read", "unlink", "chmod", "chown"} /\ c.empty \in BOOLEAN
               /\ c.empty => c.family \in {"chmod", "chown"}
               /\ c.family = "read" => name = NoName
               /\ c.family = "unlink" => name # NoName
               /\ c.family = "chmod" /\ name = NoName => c.empty
    BY <1>4, <2>1, <2>2, LoggedOne
  <2>3. CASE \E f \in Fds, g \in Fds, old \in Names, new \in Names :
               /\ c.args = <<Arg(f, old), Arg(g, new)>>
               /\ c.family = "rename" /\ c.empty = FALSE
    BY <1>4, <2>1, <2>3, LoggedTwo
  <2> QED
    BY <2>2, <2>3, CallKinds
<1>7. LogOK'
  BY <1>5, <1>6 DEF LogOK, PathsOK, LayoutOK, ErrorsOK
<1>8. CallOK'
  BY <1>1 DEF CallOK
<1> QED
  BY <1>1, <1>7, <1>8 DEF AtInv

LEMMA NextKeeps ==
  ASSUME AtInv, [Next]_vars
  PROVE  AtInv'
<1>1. CASE UNCHANGED vars
  <2>1. fds' = fds /\ calling' = calling /\ entry' = entry /\ printed' = printed
    BY <1>1 DEF vars
  <2>2. ASSUME NEW c, NEW did
        PROVE  Acted(c, did)' = Acted(c, did)
    BY <2>1 DEF Acted, Denoted
  <2>3. ASSUME NEW c, NEW unread, NEW did, NEW moved, InCall(c, unread, did, moved)
        PROVE  InCall(c, unread, did, moved)'
    BY <2>1, <2>2, <2>3 DEF InCall
  <2>4. CallOK'
    BY <2>1, <2>3 DEF AtInv, CallOK
  <2> QED
    BY <2>1, <2>4 DEF AtInv, LogOK
<1>2. ASSUME NEW c \in Calls,
             NEW unread \in SUBSET {k \in DOMAIN c.args : c.args[k].name # NoName},
             Enter(c, unread)
      PROVE  AtInv'
  BY <1>2, EnterKeeps DEF Named
<1>3. CASE Act
  BY <1>3, ActKeeps
<1>4. ASSUME NEW fd \in Fds, NEW at \in Dirs \cup Files \cup {Closed}, Move(fd, at)
      PROVE  AtInv'
  BY <1>4, MoveKeeps
<1>5. ASSUME NEW slash \in BOOLEAN, NEW room \in BOOLEAN, Exit(slash, room)
      PROVE  AtInv'
  BY <1>5, ExitKeeps
<1> QED
  BY <1>1, <1>2, <1>3, <1>4, <1>5 DEF Next

LEMMA AtInvHolds == Spec => []AtInv
<1>1. Init => AtInv
  BY DEF Init, AtInv, CallOK, LogOK
<1> QED
  BY <1>1, NextKeeps, PTL DEF Spec

-----------------------------------------------------------------------------
(* The theorems *)

\* Of every call whose names could be read and during which the table of the
\* process did not change, the log shows the paths that the kernel acted on:
\* on_sys_exit_unlink, _chmod, _chown, _read and _rename with fprint_sys_unlink
\* and its kind, for any names, descriptors and number of changes elsewhere.
\* Left out are the renames of an absolute and a relative name (MixedRight says
\* what goes wrong with them) and a name next to AT_EMPTY_PATH.
THEOREM PathsLogged == Spec => []PathsRight
<1>1. AtInv => PathsRight
  BY LogOKIs DEF AtInv
<1> QED
  BY <1>1, AtInvHolds, PTL

\* The callback never reads a member of a record that the exit program did not
\* fill: both choose the same of the five layouts, the program from the names
\* and descriptors and, in fill_sys_renameat, from what the ring held before,
\* the callback from path_type and samedir.
THEOREM LayoutsAgree == Spec => []LayoutRead
<1>1. AtInv => LayoutRead
  BY LogOKIs DEF AtInv
<1> QED
  BY <1>1, AtInvHolds, PTL

\* The error of a record tells that a name or the path of a descriptor could not
\* be had, and nothing else makes one, with the exceptions that ErrorsTold names:
\* rename tells only of names, fchown tells always.
THEOREM ErrorsComplete == Spec => []ErrorsTold
<1>1. AtInv => ErrorsTold
  BY LogOKIs DEF AtInv
<1> QED
  BY <1>1, AtInvHolds, PTL
=============================================================================
