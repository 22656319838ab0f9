------------------------------ MODULE BusConfig ------------------------------
(***************************************************************************)
(* The configuration files of the bus daemon that a connect of a           *)
(* privileged process writes: DbusOperate::init splits the service list,   *)
(* creatAllSystemBusConf writes a file for the service and one for its     *)
(* send name with tinyxml, and has sed insert the DOCTYPE.  The process    *)
(* may die at any step and connect again, with another list.               *)
(*                                                                         *)
(* What SaveFile and sed do to the file is what they do in the end; their  *)
(* steps are XmlDocument's subject.                                        *)
(***************************************************************************)
EXTENDS XmlText, BaseFun, TLC

CONSTANTS
  Lists,          \* service lists, as sequences of characters
  Paths,          \* what readlink gives of /proc/self/exe; <<>> when it fails
  NULL,
  MaxConnects     \* how often any process connects

ASSUME ConfigAssumption == NULL \notin Lists /\ MaxConnects \in Nat

VARIABLES
  root,              \* getuid() = 0
  path,              \* of the program
  srv_list_name_,
  dbus_info_,        \* the bus names that init makes of the list
  files,             \* in /etc/dbus-1/system.d, by bus name
  step,              \* of the connect: what comes next
  result,            \* of the last creatAllSystemBusConf, or of init's failure
  torn,              \* files that were not written to their end
  refused,           \* the running connect could not write or run something
  connects           \* so far

vars == <<root, path, srv_list_name_, dbus_info_, files, step, result, torn, refused,
          connects>>

Name == dbus_info_[1]
SendName == Append(Name, "_send")

Init ==
  /\ root \in BOOLEAN /\ path \in Paths
  /\ srv_list_name_ = <<>> /\ dbus_info_ = <<>> /\ files = <<>>
  /\ step = "idle" /\ result = "nothing" /\ torn = {} /\ refused = FALSE
  /\ connects = 0

\* The list that init works with, and keeps
ListName(list) ==
  LET kept == IF list = NULL THEN srv_list_name_ ELSE list
  IN  IF kept = <<>> THEN getSelfProcessName(path) ELSE kept

\* sepString keeps empty names when it is not told otherwise.
Names(list) ==
  LET names == sepString(list, <<"#">>, TRUE)
  IN  [i \in DOMAIN names |-> <<"com">> \o names[i]]

InitFails(list) ==
  /\ step = "idle" /\ ListName(list) = <<>>
  /\ srv_list_name_' = <<>> /\ result' = "EGENERAL"
  /\ UNCHANGED <<root, path, dbus_info_, files, step, torn, refused, connects>>

InitSession(list) ==
  /\ step = "idle" /\ ListName(list) # <<>>
  /\ connects < MaxConnects /\ connects' = connects + 1
  /\ srv_list_name_' = ListName(list)
  /\ dbus_info_' = Names(ListName(list))
  /\ step' = "all" /\ result' = "nothing" /\ refused' = FALSE
  /\ UNCHANGED <<root, path, files, torn>>

\* creatAllSystemBusConf without a name is a failure; a normal user writes nothing,
\* which is none.
CreateAll ==
  /\ step = "all"
  /\ IF dbus_info_ = <<>> THEN step' = "idle" /\ result' = "EGENERAL"
     ELSE IF ~ root THEN step' = "idle" /\ result' = "SOK"
     ELSE step' = "save" /\ UNCHANGED result
  /\ UNCHANGED <<root, path, srv_list_name_, dbus_info_, files, torn, refused,
                 connects>>

-----------------------------------------------------------------------------
Allow(attrs) == NodeOf("element", <<"allow">>, attrs, <<>>)
Policy(attribute, value, allowed) ==
  NodeOf("element", <<"policy">>, << <<<<attribute>>, <<value>>>> >>, allowed)
Remark(text) == NodeOf("comment", <<text>>, <<>>, <<>>)
Interface(value) == <<<<"send_interface">>, <<value>>>>
Destination == <<<<"send_destination">>, <<"kylin">>>>

\* The document that creatSystemBusConf builds
Configuration(name) ==
  << NodeOf("declaration", <<>>, << <<<<"version">>, <<"1.0">>>>,
                                  <<<<"encoding">>, <<"UTF-8">>>> >>, <<>>),
     NodeOf("element", <<"busconfig">>, <<>>,
       << Remark("Only root"),
          Policy("user", "root",
            << Allow(<<<<<<"own">>, name>>>>), Allow(<<Interface("kylin")>>) >>),
          Remark("Allow anyone"),
          Policy("context", "default",
            << Allow(<<Interface("kylin")>>),
               Allow(<<Destination, Interface("Properties")>>),
               Allow(<<Destination, Interface("Introspectable")>>) >>) >>) >>

Doctype == <<"<", "!", "DOCTYPE", "nl", "dq", "dtd", "dq", ">">>

\* A slip: before the first line
Inserted_First(text) == Append(Doctype, "nl") \o text

\* sed -i '2i ...': before the second line, if there is one
Inserted(text) ==
  LET line == Find(text, 1, <<"nl">>)
  IN  IF line < Len(text)
      THEN SubSeq(text, 1, line) \o Doctype \o SubSeq(text, line, Len(text))
      ELSE text

\* A slip: only the service's own name gets a file.
AfterFile_NoSend == "idle"

\* The file that creatSystemBusConf is at, and what comes after it
Current == IF step \in {"save", "sed"} THEN Name ELSE SendName
AfterFile == IF step \in {"save", "sed"} THEN "saveSend" ELSE "idle"
ToSed == IF step = "save" THEN "sed" ELSE "sedSend"

Finished(file) ==
  /\ step' = AfterFile
  /\ result' = IF AfterFile = "idle" THEN "SOK" ELSE result
  /\ UNCHANGED <<root, path, srv_list_name_, dbus_info_, connects>>

\* SaveFile returned true: all is written, or fclose could not write the rest.  Of
\* the places where a file can be cut, one stands for all.
Saves ==
  /\ step \in {"save", "saveSend"} /\ step' = ToSed
  /\ LET text == PrintDocument(Configuration(Current)) IN
     \/ /\ files' = (Current :> text) @@ files
        /\ torn' = torn \ {Current} /\ UNCHANGED refused
     \/ /\ files' = (Current :> SubSeq(text, 1, Len(text) \div 2)) @@ files
        /\ torn' = torn \cup {Current} /\ refused' = TRUE
  /\ UNCHANGED <<root, path, srv_list_name_, dbus_info_, result, connects>>

\* It returned false: the file could not be opened, or not be written.
SaveFails ==
  /\ step \in {"save", "saveSend"} /\ refused' = TRUE
  /\ \/ UNCHANGED <<files, torn>>
     \/ /\ files' = (Current :> <<>>) @@ files /\ torn' = torn \cup {Current}
  /\ Finished(Current)

\* sed replaces the file at once; that it fails is not noticed.
Sed ==
  /\ step \in {"sed", "sedSend"}
  /\ \/ files' = [files EXCEPT ![Current] = Inserted(@)] /\ UNCHANGED refused
     \/ UNCHANGED files /\ refused' = TRUE
  /\ UNCHANGED torn
  /\ Finished(Current)

\* The process dies, maybe in the middle of SaveFile, and a program starts anew.
Restart ==
  /\ UNCHANGED connects
  /\ root' \in BOOLEAN /\ path' \in Paths
  /\ srv_list_name_' = <<>> /\ dbus_info_' = <<>>
  /\ step' = "idle" /\ result' = "nothing" /\ refused' = FALSE
  /\ \/ UNCHANGED <<files, torn>>
     \/ /\ step \in {"save", "saveSend"}
        /\ files' = (Current :> <<>>) @@ files /\ torn' = torn \cup {Current}

Next ==
  \/ \E list \in Lists \cup {NULL} : InitFails(list) \/ InitSession(list)
  \/ CreateAll \/ Saves \/ SaveFails \/ Sed \/ Restart

Spec == Init /\ [][Next]_vars

-----------------------------------------------------------------------------
\* What the daemon reads in a file that was written to its end is the policy of that
\* very name, with the DOCTYPE, once at most, between the declaration and the root:
\* where Print ends its lines is where sed counts them.
\* (DbusOperate::creatSystemBusConf, TiXmlDocument::Print)
ConfigurationIsRead ==
  dbus_info_ # <<>> =>
  \A name \in {Name, SendName} \cap (DOMAIN files \ torn) :
    LET read == ParseDocument(files[name], "unknown")
        doctype == NodeOf("unknown", SubSeq(Doctype, 2, Len(Doctype) - 1), <<>>, <<>>)
        written == Configuration(name)
    IN  /\ read.error = "none"
        /\ read.kids \in {written, <<written[1], doctype, written[2]>>}

\* A privileged process whose writes all worked has, when the configuring is done,
\* both files, of the names its session will ask for, with their DOCTYPE.
\* (DbusOperate::creatAllSystemBusConf)
DoneMeansConfigured ==
  result = "SOK" /\ root /\ ~ refused =>
    \A name \in {Name, SendName} :
      /\ name \in DOMAIN files \ torn
      /\ Len(ParseDocument(files[name], "unknown").kids) = 3

\* The pieces of the list joined again give the list, and no piece holds the
\* separator: none is lost, cut short or made up, wherever separators are.
\* (BaseFun::sepString)
SepStringSplits ==
  LET pieces == sepString(srv_list_name_, <<"#">>, TRUE) IN
  srv_list_name_ # <<>> =>
    /\ FoldLeft(LAMBDA joined, s : joined \o <<"#">> \o s, <<>>, pieces)
         = <<"#">> \o srv_list_name_
    /\ \A i \in DOMAIN pieces : "#" \notin Range(pieces[i])
=============================================================================
