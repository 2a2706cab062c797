----------------------------- MODULE MCInclude -----------------------------
(***************************************************************************)
(* Blogs have posts, posts have a blog and an author, authors have posts.  *)
(* Authors refer to each other, or to themselves.  An author's home posts  *)
(* are those on the blog with the author's number: a second relation that  *)
(* finds posts by their blog.                                              *)
(***************************************************************************)
EXTENDS Include

Relation(owner, fk, card, target, refe) ==
  [owner |-> owner, fk |-> fk, card |-> card, target |-> target, refe |-> refe]

BlogPosts  == Relation("blogs", "id", "OneToMany", "posts", "blog")
PostBlog   == Relation("posts", "blog", "ManyToOne", "blogs", "id")
PostAuthor == Relation("posts", "author", "ManyToOne", "users", "id")
UserPosts  == Relation("users", "id", "OneToMany", "posts", "author")
UserHome   == Relation("users", "id", "OneToMany", "posts", "blog")
UserBoss   == Relation("users", "boss", "ManyToOne", "users", "id")

MCTables == {"blogs", "posts", "users"}
MCRelations == {BlogPosts, PostBlog, PostAuthor, UserPosts, UserHome, UserBoss}
MCPrimaryKey == [t \in MCTables |-> "id"]

Blog(i) == [table |-> "blogs", val |-> [id |-> i]]
Post(i, blog, author) == [table |-> "posts", val |-> [id |-> i, blog |-> blog, author |-> author]]
User(i, boss) == [table |-> "users", val |-> [id |-> i, boss |-> boss]]

\* Two blogs, two posts of an author each; blog 3 does not exist.
MCPosts == {Post(i, b, u) : i \in 1..2, b \in {1, 2, 3}, u \in 1..2}
MCUsers == {User(i, u) : i \in 1..2, u \in 1..2}
MCRows == {Blog(1), Blog(2)} \cup MCPosts \cup MCUsers
MCDatabases == {{Blog(1), Blog(2), User(1, x), User(2, y)} \cup p :
                  x \in 1..2, y \in 1..2, p \in kSubset(2, MCPosts)}

\* Both directions of a relation, in either order; all relations.
MCLoaderLists ==
  {<<BlogPosts, PostBlog>>, <<PostBlog, BlogPosts>>, <<PostAuthor, UserBoss, UserPosts>>,
   <<UserHome, PostBlog, BlogPosts>>,
   <<BlogPosts, PostAuthor, UserPosts, PostBlog, UserBoss>>}

\* For the run with writes, which can also move a post or an author.
MCWriteDatabases == {d \in MCDatabases : {User(1, 2), User(2, 1), Post(1, 1, 1)} \subseteq d}
MCWriteLoaderLists ==
  {<<PostBlog, BlogPosts>>, <<BlogPosts, PostAuthor, UserPosts, PostBlog, UserHome, UserBoss>>}

Scenario(databases, lists, depths, n) ==
  [databases |-> databases, loaders |-> lists, depths |-> depths, writes |-> n]

\* Without writes, the default depth limit and smaller ones; with one write of
\* another session between any two reads.
MCScenarios ==
  {Scenario(MCDatabases, MCLoaderLists, {0, 2, 10}, 0),
   Scenario(MCWriteDatabases, MCWriteLoaderLists, {10}, 1)}

\* -1 is documented as unlimited.
MCNegative == {Scenario(MCWriteDatabases, MCLoaderLists, {-1}, 0)}
=============================================================================
