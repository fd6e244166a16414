------------------------------ MODULE Favorites ------------------------------
(***************************************************************************)
(* The favorites of a user (src/favorites): AVUs of one empty file, each a *)
(* JSON value with a path and a name.  The path is the key.                *)
(***************************************************************************)
EXTENDS UserPersist

FavoriteOps == {"AddFavorite", "RenameFavorite", "RemoveFavorite", "ListFavorites"}

\* encodeFavoriteValue.
Encode(favorite) ==
    [attr |-> "favorite", path |-> favorite.path, name |-> favorite.name, canonical |-> TRUE]

\* The AVUs of a path; what cannot be decoded is left out of the model.
FavoritesAt(k, path) == {avu \in store[k].avus : avu.path = path}

FavoriteValid(r) == r.value # Blank

\* Every operation, listing included, begins with Ensure, which writes the
\* empty file.
EnsureFile(c) == EnsureContext(c, "create") \/ CreateFile(c, "list")

DeleteNothing(c) ==                                                 \* mutant
    /\ pc[c] = "list" /\ service[c] = "favorites"
    /\ IF req[c].op = "AddFavorite" THEN DeleteFirst(c, {}, "add")
       ELSE Refused(c, "notfound")
ListFavoriteAVUs(c) ==
    LET op    == req[c].op
        found == FavoritesAt(target[c], req[c].value.path)
    IN /\ pc[c] = "list" /\ service[c] = "favorites"
       /\ \/ op = "ListFavorites" /\ Refused(c, "ok")
          \/ op = "AddFavorite" /\ found = {draft[c]} /\ Refused(c, "ok")
          \/ op = "AddFavorite" /\ found # {draft[c]} /\ DeleteFirst(c, found, "add")
          \/ op = "RenameFavorite" /\ found = {} /\ Refused(c, "notfound")
          \/ op = "RenameFavorite" /\ found # {} /\ DeleteFirst(c, found, "add")
          \/ op = "RemoveFavorite" /\ found = {} /\ Refused(c, "ok")
          \/ op = "RemoveFavorite" /\ found # {} /\ DeleteFirst(c, found, "done")

DeleteFavorite(c) == DeleteAVU(c, IF req[c].op = "RemoveFavorite" THEN "done" ELSE "add")

FavoritesStep(c) ==
    /\ service[c] = "favorites"
    /\ EnsureFile(c) \/ ListFavoriteAVUs(c) \/ DeleteFavorite(c) \/ AddAVU(c)

-----------------------------------------------------------------------------
\* "The path is the stable key": when nobody else works on the path, adding or
\* renaming leaves it one canonical AVU, and removing none, whatever stale or
\* double AVUs there were, from failures and from others, at the beginning.
OneFavoritePerPath ==
    [][\A c \in Caller :
         /\ service[c] = "favorites" /\ req[c].op # "ListFavorites"
         /\ pc[c] # "done" /\ pc'[c] = "done" /\ out'[c] = "ok" /\ c \notin disturbed
         => FavoritesAt(target[c], req[c].value.path)' =
               IF req[c].op = "RemoveFavorite" THEN {} ELSE {draft[c]}]_vars
=============================================================================
